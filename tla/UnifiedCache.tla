---------------------------- MODULE UnifiedCache ----------------------------
(***************************************************************************)
(* The .bfdb file: unified_cache.cc, bfdb_inventory.cc, bfdb_naming.cc,    *)
(* pread_file.h, fs_util.cc, and the programs on both sides of it, `bf     *)
(* build` (cmd_build.cc, NavDatabase::WriteUnified) and a server           *)
(* (NavDatabaseRegistry over BfdbInventory, NavDatabase::OpenCached).      *)
(*                                                                         *)
(* Builders write a temporary file and rename it over a path; readers scan *)
(* the directory, pick a cycle, open its file and later fetch segments     *)
(* through the handle.  Between any two steps a builder may be killed, the *)
(* disk fill up, the machine lose power, a stored word change.             *)
(*                                                                         *)
(* A file name is a record: form "canonical" for nav_<cycle>.bfdb,         *)
(* "padded" for one with leading zeros, "other" for any other .bfdb,       *)
(* "tmp" for a temporary file (its tag stands for the random suffix).      *)
(***************************************************************************)
EXTENDS CacheCodec

CONSTANTS
    Builders, Readers,
    Inputs,        \* Inputs[k]: what a build is given (BuildInput)
    DataOf,        \* DataOf[b]: the inputs that builder b may be run on
    OutputOf,      \* OutputOf[b]: the -o of builder b, or Default
    Before,        \* what the directory holds at the start: a set of names
    PathOrder,     \* the .bfdb names in the order ListFiles sorts them
    Flip(_),       \* what a word may turn into when a bit of it flips
    Torn(_),       \* how many of so many words may survive a power loss
    kMaxHeaderPrefix,  \* words of a file that ReadHeader reads (8 KiB)
    MaxFaults,     \* bound: flips, power losses and full disks in a behaviour
    Default, None

VARIABLES
    dir,       \* name -> file (inode)
    disk,      \* file -> the words it holds
    builder,   \* what each `bf build` is doing
    reader,    \* what each server is doing
    faults,    \* faults that happened
    damaged,   \* history: files that no longer hold what was written to them
    flipped    \* history: files built from a section damaged in memory

cvars == <<dir, disk, builder, reader, faults, damaged, flipped>>

----------------------------------------------------------------------------
(* Names.                                                                  *)

FormatBfdbName(cycle) == [form |-> "canonical", cycle |-> cycle]
IsBfdbName(name) == name.form \in {"canonical", "padded"}   \* ParseBfdbName
TempPathFor(b) == [form |-> "tmp", cycle |-> b]

\* A map with one more entry, or another value for it.
With(f, x, v) == [y \in DOMAIN f \union {x} |-> IF y = x THEN v ELSE f[y]]

----------------------------------------------------------------------------
(* The container.                                                          *)

Magic == 66
KFormatVersion == 21
SectionCount == 3
KSectionGraph == 1
KSectionCifp == 2
KSectionDetail == 3
RowWords == 4

\* UnifiedCache::Build refuses what a codec refuses.
Encodable(in) == GraphEncodable(in.graph) /\ (in.hasCifp => CifpEncodable(in.cifp))

\* The section bodies over one pool.  An absent section has no words.
Bodies(in) ==
    LET pool == Interned(GraphStrings(in.graph)
                         \o (IF in.hasCifp THEN CifpStrings(in.cifp) ELSE <<>>)
                         \o (IF in.hasDetail THEN DetailStrings(in.detail) ELSE <<>>))
    IN  [pool |-> Blob(pool),
         graph |-> GraphEncode(in.graph, pool),
         cifp |-> IF in.hasCifp THEN CifpEncode(in.cifp, pool) ELSE <<>>,
         detail |-> IF in.hasDetail THEN DetailEncode(in.detail, pool) ELSE <<>>]

Header(in, pool) ==
       <<Magic, KFormatVersion, SectionCount, in.header.cycle>>
    \o Str(in.header.program) \o Str(in.header.loader) \o Str(in.header.dataDir)
    \o <<in.header.capabilities, Len(pool), Crc(pool)>>

\* The file in the order it is written, in the two portions that the buffered
\* stream is taken to hand over.  The CIFP checksum covers the directory only,
\* since segments are fetched one by one.
Pieces(in, body) ==
    LET header == Header(in, body.pool)
        graphOff == Len(header) + SectionCount * RowWords + 1 + Len(body.pool)
        cifpOff == graphOff + Len(body.graph)
        detailOff == cifpOff + Len(body.cifp)
        row(has, type, crc, off, len) == IF has THEN <<type, crc, off, len>> ELSE <<type, 0, 0, 0>>
        table == row(TRUE, KSectionGraph, Crc(body.graph), graphOff, Len(body.graph))
                 \o row(in.hasCifp, KSectionCifp,
                        Crc(Slice(body.cifp, 0, DirectoryPrefixLen(Len(in.cifp)))),
                        cifpOff, Len(body.cifp))
                 \o row(in.hasDetail, KSectionDetail, Crc(body.detail), detailOff,
                        Len(body.detail))
    IN  <<header \o table \o <<Update(Crc(header), table)>> \o body.pool \o body.graph,
          body.cifp \o body.detail>>

Image(in) == LET piece == Pieces(in, Bodies(in)) IN piece[1] \o piece[2]
Images == [k \in {j \in DOMAIN Inputs : Encodable(Inputs[j])} |-> Image(Inputs[k])]

\* The temporary name carries a random suffix (TempPathFor), so no file there
\* is at the start and no -o has one; a build's new file is none of the old
\* ones; the codecs write words.
ASSUME CacheAssumption ==
    /\ kMaxHeaderPrefix \in Nat \ {0}
    /\ \A name \in DOMAIN Before : name.form # "tmp" /\ Before[name] \in DOMAIN Images
    /\ \A b \in Builders : OutputOf[b] = Default \/ OutputOf[b].form # "tmp"
    /\ \A b \in Builders : b \notin DOMAIN Before /\ DataOf[b] \subseteq DOMAIN Inputs
    /\ \A k \in DOMAIN Images :
          LET piece == Pieces(Inputs[k], Bodies(Inputs[k]))
          IN  piece[1] \in Seq(Int) /\ piece[2] \in Seq(Int)

\* Where the header's variable parts lie, as ReadHeader and Open walk them.
HeaderLayout(ws) ==
    LET loader == 5 + Word(ws, 4)
        dataDir == loader + 1 + Word(ws, loader)
        caps == dataDir + 1 + Word(ws, dataDir)
    IN  [program |-> 4, loader |-> loader, dataDir |-> dataDir, caps |-> caps, table |-> caps + 3,
         crc |-> caps + 3 + SectionCount * RowWords]
StrAt(ws, at) == Slice(ws, at + 1, Word(ws, at))
HeaderAt(ws) ==
    LET H == HeaderLayout(ws)
    IN  [cycle |-> Word(ws, 3), program |-> StrAt(ws, H.program), loader |-> StrAt(ws, H.loader),
         dataDir |-> StrAt(ws, H.dataDir), capabilities |-> Word(ws, H.caps)]

HeaderSound(ws) ==
    LET H == HeaderLayout(ws)
    IN  H.crc < Len(ws) /\ Crc(Slice(ws, 0, H.crc)) = Word(ws, H.crc)

\* UnifiedCache::ReadHeader, as far as the scan looks at its result.  It reads the front of
\* the file in one piece, and a header that goes on behind it is taken for corrupt; Open
\* has no such bound.
ReadHeaderOk(ws) ==
    /\ Len(ws) >= 1 /\ Word(ws, 0) = Magic /\ Word(ws, 1) = KFormatVersion
    /\ HeaderLayout(ws).crc < kMaxHeaderPrefix
    /\ HeaderSound(ws)

RowAt(ws, i) ==
    LET at == HeaderLayout(ws).table + (i - 1) * RowWords
    IN  [type |-> Word(ws, at), crc |-> Word(ws, at + 1), off |-> Word(ws, at + 2),
         len |-> Word(ws, at + 3)]
Present(row) == ~(row.off = 0 /\ row.len = 0)
RowOf(ws, type) == RowAt(ws, CHOOSE i \in 1 .. SectionCount : RowAt(ws, i).type = type)
BodyOf(ws, row) == Slice(ws, row.off, row.len)
PoolAt(ws) == Slice(ws, HeaderLayout(ws).crc + 1, Word(ws, HeaderLayout(ws).caps + 1))

\* UnifiedCache::Open up to the pool: the verdict on a file.
OpenHeader(ws) ==
    LET H == HeaderLayout(ws)
        rows == {RowAt(ws, i) : i \in 1 .. SectionCount}
    IN  IF Len(ws) < 1 \/ Word(ws, 0) # Magic THEN "kCacheCorrupt"
        ELSE IF Len(ws) < 2 THEN "kCacheCorrupt"
        ELSE IF Word(ws, 1) # KFormatVersion THEN "kFormatMismatch"
        ELSE IF /\ Word(ws, 2) = SectionCount
                /\ Word(ws, H.caps + 1) <= Len(ws) - H.table
                /\ \A row \in rows : Present(row) => row.off <= Len(ws) /\ row.len <= Len(ws) - row.off
                /\ HeaderSound(ws)
                /\ H.crc + 1 + Word(ws, H.caps + 1) <= Len(ws)
                /\ Crc(PoolAt(ws)) = Word(ws, H.caps + 2)
                /\ {row.type : row \in rows} = {KSectionGraph, KSectionCifp, KSectionDetail}
                /\ Present(RowOf(ws, KSectionGraph))
             THEN "ok"
        ELSE "kCacheCorrupt"
\* What Open keeps of the front of the file.
FileFront(ws) ==
    [header |-> HeaderAt(ws), pool |-> PoolAt(ws), graph |-> RowOf(ws, KSectionGraph),
     cifp |-> RowOf(ws, KSectionCifp), detail |-> RowOf(ws, KSectionDetail)]

SectionsSound(ws, front) ==
    LET graph == BodyOf(ws, front.graph)
        detail == BodyOf(ws, front.detail)
    IN  /\ Crc(graph) = front.graph.crc
        /\ GraphDecodable(graph, front.pool)
        /\ Present(front.detail) => /\ Crc(detail) = front.detail.crc
                                    /\ DetailDecodable(detail, front.pool)

\* UnifiedData, but for the CIFP archive.
Eager(ws, front) ==
    [header |-> front.header,
     graph |-> GraphDecode(BodyOf(ws, front.graph), front.pool),
     detail |-> IF Present(front.detail)
                THEN DetailDecode(BodyOf(ws, front.detail), front.pool) ELSE None]

----------------------------------------------------------------------------
(* `bf build`: NavDatabase::WriteUnified and UnifiedCache::Build.          *)

Output(b) ==
    IF OutputOf[b] = Default THEN FormatBfdbName(Inputs[builder[b].in].header.cycle)
    ELSE OutputOf[b]

\* All sections are encoded before anything touches the disk.
Encode(b) ==
    /\ builder[b].pc = "start"
    /\ \E k \in DataOf[b] :
          builder' = [builder EXCEPT ![b] =
              IF Encodable(Inputs[k])
              THEN [@ EXCEPT !.pc = "encoded", !.in = k, !.body = Bodies(Inputs[k])]
              ELSE [@ EXCEPT !.pc = "failed", !.in = k]]
    /\ UNCHANGED <<dir, disk, reader, faults, damaged, flipped>>

\* std::ofstream(tmp_path, trunc): the file of that name, emptied, or a new
\* one.  When it cannot be opened there is nothing to remove.
OpenTemp(b) ==
    LET tmp == TempPathFor(b)
        file == IF tmp \in DOMAIN dir THEN dir[tmp] ELSE b
        in == Inputs[builder[b].in]
    IN  /\ builder[b].pc = "encoded"
        /\ dir' = With(dir, tmp, file)
        /\ disk' = With(disk, file, <<>>)
        /\ builder' = [builder EXCEPT ![b].pc = "writing", ![b].file = file,
                                      ![b].left = Pieces(in, builder[b].body), ![b].body = None]
        /\ UNCHANGED <<reader, faults, damaged, flipped>>
OpenTempFails(b) ==
    /\ builder[b].pc = "encoded"
    /\ faults < MaxFaults
    /\ builder' = [builder EXCEPT ![b].pc = "failed", ![b].body = None]
    /\ faults' = faults + 1
    /\ UNCHANGED <<dir, disk, reader, damaged, flipped>>

\* A write lands at the stream's own position.
Overlay(ws, at, piece) ==
    [i \in 1 .. (IF Len(ws) > at + Len(piece) THEN Len(ws) ELSE at + Len(piece)) |->
        IF i \in at + 1 .. at + Len(piece) THEN piece[i - at] ELSE Word(ws, i - 1)]

\* WriteAll of one piece.  A stream that failed once writes nothing more.
WriteAll(b) ==
    LET me == builder[b]
    IN  /\ me.pc = "writing" /\ me.left # <<>>
        /\ builder' = [builder EXCEPT ![b].left = Tail(@), ![b].at = @ + Len(Head(me.left))]
        /\ disk' = IF me.bad THEN disk
                   ELSE [disk EXCEPT ![me.file] = Overlay(@, me.at, Head(me.left))]
        /\ UNCHANGED <<dir, reader, faults, damaged, flipped>>

\* The disk is full: noticed when a piece or the buffered tail is written.
WriteFails(b) ==
    /\ builder[b].pc = "writing" /\ ~builder[b].bad
    /\ faults < MaxFaults
    /\ builder' = [builder EXCEPT ![b].bad = TRUE]
    /\ faults' = faults + 1
    /\ UNCHANGED <<dir, disk, reader, damaged, flipped>>

DiscardTmp(b) == [name \in DOMAIN dir \ {TempPathFor(b)} |-> dir[name]]

\* Mutant: the stream is not tested after close().
CloseUntested(b) ==
    /\ builder[b].pc = "writing" /\ builder[b].left = <<>>
    /\ builder' = [builder EXCEPT ![b].pc = "closed"]
    /\ UNCHANGED <<dir, disk, reader, faults, damaged, flipped>>
\* close() and the test of the stream after it.
Close(b) ==
    /\ builder[b].pc = "writing" /\ builder[b].left = <<>>
    /\ IF builder[b].bad
       THEN dir' = DiscardTmp(b) /\ builder' = [builder EXCEPT ![b].pc = "failed"]
       ELSE dir' = dir /\ builder' = [builder EXCEPT ![b].pc = "closed"]
    /\ UNCHANGED <<disk, reader, faults, damaged, flipped>>

\* ReplaceFile: one rename, atomic for everyone who looks at the directory.
Rename(b) ==
    /\ builder[b].pc = "closed"
    /\ TempPathFor(b) \in DOMAIN dir
    /\ dir' = With(DiscardTmp(b), Output(b), dir[TempPathFor(b)])
    /\ builder' = [builder EXCEPT ![b].pc = "done"]
    /\ UNCHANGED <<disk, reader, faults, damaged, flipped>>
\* Mutant: the temporary file stays behind when the rename fails.
RenameFailsLeftover(b) ==
    /\ builder[b].pc = "closed"
    /\ faults < MaxFaults
    /\ builder' = [builder EXCEPT ![b].pc = "failed"]
    /\ faults' = faults + 1
    /\ UNCHANGED <<dir, disk, reader, damaged, flipped>>
RenameFails(b) ==
    /\ builder[b].pc = "closed"
    /\ TempPathFor(b) \notin DOMAIN dir \/ faults < MaxFaults
    /\ dir' = DiscardTmp(b)
    /\ builder' = [builder EXCEPT ![b].pc = "failed"]
    /\ faults' = IF TempPathFor(b) \in DOMAIN dir THEN faults + 1 ELSE faults
    /\ UNCHANGED <<disk, reader, damaged, flipped>>

----------------------------------------------------------------------------
(* A server: BfdbInventory::Scan, NavDatabaseRegistry::Get, OpenCached.    *)

Idle == [pc |-> "start", listed |-> <<>>, entries |-> {}, seen |-> {}, file |-> None,
         front |-> None, eager |-> None, index |-> {}, procs |-> {}, refused |-> {},
         error |-> None]

Becomes(r, rec) ==
    reader' = [reader EXCEPT ![r] = rec] /\ UNCHANGED <<dir, disk, builder, faults, damaged, flipped>>

\* ListFiles: the .bfdb files there are now, in path order.
ListFiles(r) ==
    /\ reader[r].pc = "start"
    /\ Becomes(r, [reader[r] EXCEPT !.pc = "scan",
                       !.listed = SelectSeq(PathOrder, LAMBDA n : n \in DOMAIN dir)])

Canonical(e) == e.path = FormatBfdbName(e.cycle)

\* Mutant: the first file of a cycle always stays.
BestFirst(entries, e) ==
    IF \E x \in entries : x.cycle = e.cycle THEN entries ELSE entries \union {e}
\* The best file per cycle so far: one named for its own cycle beats a stray
\* copy, otherwise the first in path order stays.
Best(entries, e) ==
    LET same == {x \in entries : x.cycle = e.cycle}
    IN  IF same = {} THEN entries \union {e}
        ELSE IF Canonical(e) /\ \A x \in same : ~Canonical(x) THEN (entries \ same) \union {e}
        ELSE entries

\* One name of the listing.  The header decides the cycle; a file whose header
\* does not hold is skipped.
ScanFile(r) ==
    LET name == Head(reader[r].listed)
        ws == disk[dir[name]]
        e == [path |-> name, cycle |-> HeaderAt(ws).cycle]
        next == [reader[r] EXCEPT !.listed = Tail(@)]
    IN  /\ reader[r].pc = "scan" /\ reader[r].listed # <<>>
        /\ Becomes(r, IF IsBfdbName(name) /\ ReadHeaderOk(ws)
                      THEN [next EXCEPT !.entries = Best(@, e), !.seen = @ \union {e}]
                      ELSE next)

ScanDone(r) ==
    /\ reader[r].pc = "scan" /\ reader[r].listed = <<>>
    /\ Becomes(r, [reader[r] EXCEPT !.pc = "ready"])

\* UnifiedCache::Open through one handle: the path is looked up once, all
\* later reads go to that file whatever the path names by then.
OpenFile(r) ==
    \E e \in reader[r].entries :
        LET ws == disk[dir[e.path]]
        IN  /\ reader[r].pc = "ready"
            /\ Becomes(r, IF OpenHeader(ws) = "ok"
                          THEN [reader[r] EXCEPT !.pc = "front", !.file = dir[e.path],
                                                 !.front = FileFront(ws)]
                          ELSE [reader[r] EXCEPT !.pc = "failed", !.file = dir[e.path],
                                                 !.error = OpenHeader(ws)])

OpenSections(r) ==
    LET ws == disk[reader[r].file]
    IN  /\ reader[r].pc = "front"
        /\ Becomes(r, IF SectionsSound(ws, reader[r].front)
                      THEN [reader[r] EXCEPT !.pc = "cifp", !.eager = Eager(ws, reader[r].front)]
                      ELSE [reader[r] EXCEPT !.pc = "failed", !.error = "kCacheCorrupt"])

\* Mutant: the archive opens the path again.
OpenCifpAgain(r) ==
    LET me == reader[r]
        name == FormatBfdbName(me.eager.header.cycle)
        ws == IF name \in DOMAIN dir THEN disk[dir[name]] ELSE disk[me.file]
        row == me.front.cifp
    IN  /\ me.pc = "cifp"
        /\ Becomes(r, IF ~Present(row) THEN [me EXCEPT !.pc = "open"]
                      ELSE [me EXCEPT !.pc = "open",
                                      !.file = IF name \in DOMAIN dir THEN dir[name] ELSE @,
                                      !.index = OpenSection(ws, row.off, me.front.pool)])
\* The directory is read now, the segments later (CifpLoad::kOnDemand).
OpenCifp(r) ==
    LET ws == disk[reader[r].file]
        row == reader[r].front.cifp
        pool == reader[r].front.pool
    IN  /\ reader[r].pc = "cifp"
        /\ Becomes(r, IF ~Present(row) THEN [reader[r] EXCEPT !.pc = "open"]
                      ELSE IF CifpIndexable(ws, row.off, row.len, row.crc, pool)
                      THEN [reader[r] EXCEPT !.pc = "open", !.index = OpenSection(ws, row.off, pool)]
                      ELSE [reader[r] EXCEPT !.pc = "failed", !.error = "kCacheCorrupt"])

\* FetchAll (CifpLoad::kEager): one bad segment fails the open.
FetchAll(r) ==
    LET me == reader[r]
        ws == disk[me.file]
    IN  /\ me.pc = "open" /\ me.procs = {} /\ me.refused = {} /\ me.index # {}
        /\ Becomes(r, IF \A loc \in me.index : SegmentSound(ws, loc, me.front.pool)
                      THEN [me EXCEPT !.pc = "eager", !.procs =
                              {[icao |-> loc.icao, data |-> SegmentAt(ws, loc, me.front.pool)] :
                                  loc \in me.index}]
                      ELSE [me EXCEPT !.pc = "failed", !.error = "kCacheCorrupt"])

\* CifpArchive::Fetch of one airport; a failure is told to this call only.
Fetch(r) ==
    \E loc \in reader[r].index :
        LET me == reader[r]
            ws == disk[me.file]
        IN  /\ me.pc = "open"
            /\ Becomes(r, IF SegmentSound(ws, loc, me.front.pool)
                          THEN [me EXCEPT !.procs = @ \union
                                  {[icao |-> loc.icao, data |-> SegmentAt(ws, loc, me.front.pool)]}]
                          ELSE [me EXCEPT !.refused = @ \union {loc.icao}])

----------------------------------------------------------------------------
(* Faults.                                                                 *)

Running == {"start", "encoded", "writing", "closed"}

\* The process is killed: what it wrote stays, its temporary file included.
Kill(b) ==
    /\ builder[b].pc \in {"writing", "closed"}
    /\ builder' = [builder EXCEPT ![b].pc = "killed", ![b].left = <<>>]
    /\ UNCHANGED <<dir, disk, reader, faults, damaged, flipped>>

\* Nothing is flushed to the device before the rename, so a file may lose its
\* tail when the power fails.  Every process starts over.
PowerLoss(f) ==
    /\ faults < MaxFaults
    /\ disk[f] # <<>>
    /\ \E n \in Torn(Len(disk[f])) : disk' = [disk EXCEPT ![f] = Slice(@, 0, n)]
    /\ builder' = [b \in Builders |-> IF builder[b].pc \in Running
                                      THEN [builder[b] EXCEPT !.pc = "killed", !.left = <<>>,
                                                              !.body = None]
                                      ELSE builder[b]]
    /\ reader' = [r \in Readers |-> Idle]
    /\ damaged' = damaged \union {f}
    /\ faults' = faults + 1
    /\ UNCHANGED <<dir, flipped>>

\* A stored word changes, of a file that somebody can read.
BitRot(f) ==
    /\ faults < MaxFaults
    /\ f \in {dir[n] : n \in {m \in DOMAIN dir : m.form # "tmp"}} \union {reader[r].file : r \in Readers}
    /\ \E i \in DOMAIN disk[f] : \E w \in Flip(disk[f][i]) : disk' = [disk EXCEPT ![f][i] = w]
    /\ damaged' = damaged \union {f}
    /\ faults' = faults + 1
    /\ UNCHANGED <<dir, builder, reader, flipped>>

\* A word of a section changes in memory after it was encoded and before its
\* checksum is computed.
MemoryFlip(b) ==
    /\ builder[b].pc = "encoded"
    /\ faults < MaxFaults
    /\ \E sec \in {"graph", "cifp", "detail"} : \E i \in DOMAIN builder[b].body[sec] :
          \E w \in Flip(builder[b].body[sec][i]) :
             builder' = [builder EXCEPT ![b].body[sec][i] = w]
    /\ flipped' = flipped \union {b}
    /\ faults' = faults + 1
    /\ UNCHANGED <<dir, disk, reader, damaged>>

----------------------------------------------------------------------------

Init ==
    /\ dir = [name \in DOMAIN Before |-> name]
    /\ disk = [name \in DOMAIN Before |-> Images[Before[name]]]
    /\ builder = [b \in Builders |->
                    [pc |-> "start", in |-> None, body |-> None, left |-> <<>>, at |-> 0,
                     file |-> None, bad |-> FALSE]]
    /\ reader = [r \in Readers |-> Idle]
    /\ faults = 0 /\ damaged = {} /\ flipped = {}

Next ==
    \/ \E b \in Builders :
          \/ Encode(b) \/ OpenTemp(b) \/ OpenTempFails(b) \/ WriteAll(b) \/ WriteFails(b)
          \/ Close(b) \/ Rename(b) \/ RenameFails(b) \/ Kill(b) \/ MemoryFlip(b)
    \/ \E r \in Readers :
          \/ ListFiles(r) \/ ScanFile(r) \/ ScanDone(r) \/ OpenFile(r) \/ OpenSections(r)
          \/ OpenCifp(r) \/ FetchAll(r) \/ Fetch(r)
    \/ \E f \in DOMAIN disk : PowerLoss(f) \/ BitRot(f)

Spec == Init /\ [][Next]_cvars

----------------------------------------------------------------------------

\* Every path but a temporary one names, at every moment, the complete file of
\* one build, unless the environment damaged it afterwards: a build that is
\* cut short, fails or meets another one never shows at the path
\* (unified_cache.cc:277-281).
PathsHoldWholeBuilds ==
    \A name \in {n \in DOMAIN dir : n.form # "tmp"} :
        \/ dir[name] \in damaged \union flipped
        \/ \E k \in DOMAIN Images : disk[dir[name]] = Images[k]

\* A build that reported failure left the directory as it was, and one that
\* reported anything left no temporary file (discard_tmp; that the removal itself fails is
\* left out).
FailedBuildLeavesNoTrace ==
    \A b \in Builders :
        builder[b].pc \in {"failed", "done"} =>
            /\ TempPathFor(b) \notin DOMAIN dir
            /\ builder[b].pc = "failed" => b \notin Range(dir)

\* Whatever a reader got is the data of one single build: header, graph,
\* details with their lookups, and procedures, whichever builds replaced the
\* file meanwhile and whatever happened to the words on disk.
SameDetail(d, in) ==
    IF in.hasDetail
    THEN /\ d = Finalize(in.detail)
         /\ \A x \in ToSet(in.detail.navaids) :
               ToSet(FindNavaids(d, x.id.ident)) =
                   {y \in ToSet(in.detail.navaids) : y.id.ident = x.id.ident}
         /\ \A x \in ToSet(in.detail.holds) :
               ToSet(FindHolds(d, x.fix.ident)) =
                   {y \in ToSet(in.detail.holds) : y.fix.ident = x.fix.ident}
    ELSE d = None
ReadsAreOneBuild ==
    \A r \in Readers :
        LET me == reader[r]
        IN  me.eager # None /\ me.file \notin flipped =>
               \E k \in DOMAIN Inputs :
                  LET in == Inputs[k]
                  IN  /\ me.eager.header = in.header
                      /\ me.eager.graph = in.graph
                      /\ SameDetail(me.eager.detail, in)
                      /\ me.pc \in {"open", "eager"} =>
                            {loc.icao : loc \in me.index} =
                                (IF in.hasCifp THEN {x.icao : x \in ToSet(in.cifp)} ELSE {})
                      /\ in.hasCifp \/ me.procs = {}
                      /\ me.procs \subseteq (IF in.hasCifp THEN ToSet(in.cifp) ELSE {})

\* What a build accepted and nothing damaged can be opened and fetched: the
\* codecs undo each other and no check of a reader refuses what a builder
\* writes (cifp_codec.cc:286-289).
BuiltCacheOpens ==
    \A r \in Readers :
        reader[r].pc = "failed" \/ reader[r].refused # {} =>
            reader[r].file \in damaged \union flipped

\* A graph that Open accepts can be indexed without further checks, even when
\* its words were damaged before the checksums were computed
\* (graph_codec.cc:390-396).
DecodedIsIndexable ==
    \A r \in Readers :
        reader[r].eager # None => GraphInRange(reader[r].eager.graph)

\* The scan lists each readable cycle once, under the file named for it when
\* there is one (bfdb_inventory.cc:51-52).
ScanListsEveryCycle ==
    \A r \in Readers :
        LET me == reader[r]
        IN  /\ {e.cycle : e \in me.entries} = {e.cycle : e \in me.seen}
            /\ \A e1, e2 \in me.entries : e1.cycle = e2.cycle => e1 = e2
            /\ \A e \in me.seen : Canonical(e) => e \in me.entries
=============================================================================
