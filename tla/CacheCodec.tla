----------------------------- MODULE CacheCodec -----------------------------
(***************************************************************************)
(* The section codecs of a .bfdb file: byte_io.h, graph_codec.cc,          *)
(* cifp_codec.cc and nav_detail_codec.cc.                                  *)
(*                                                                         *)
(* A file is a sequence of words, one word for one field of the wire       *)
(* format; the numeric fields of a record that no check looks at share a   *)
(* word.  Offsets and lengths count words, from 0 as in the code.  Text is *)
(* a sequence of character codes (positive numbers), stored once in the    *)
(* pool and referred to by offset and length.                              *)
(***************************************************************************)
EXTENDS Integers, Sequences, SequencesExt, Functions, FiniteSets

CONSTANTS
    IdentCap, CodeCap,  \* longest ident and ICAO code of a FixedIdent
    NameCap,            \* longest key of a FixedName8
    AirwayCap           \* airway names of a graph section (65535)

ASSUME CodecAssumption == {IdentCap, CodeCap, NameCap, AirwayCap} \subseteq Nat \ {0}

----------------------------------------------------------------------------
(* byte_io.h, crc32c.h.                                                    *)

\* ByteReader: a read past the end yields zero; the callers test ok() later,
\* which here is "the last position read lies inside".
Word(ws, at) == IF at \in 0 .. Len(ws) - 1 THEN ws[at + 1] ELSE 0

Slice(ws, at, n) == SubSeq(ws, at + 1, at + n)

\* Crc32C::Update: the checksum goes on where it stopped, so the checksum of
\* two spans in turn is that of their concatenation.  Any checksum that tells
\* apart the contents at hand will do.
Update(crc, ws) == FoldLeft(LAMBDA c, w : (c * 31 + w + 7) % 65521, crc, ws)
Crc(ws) == Update(0, ws)

\* ByteWriter::Str / ByteReader::Str.
Str(s) == <<Len(s)>> \o s

\* StringPool::Add over everything a file interns, in order: each distinct
\* string once.
Interned(strings) ==
    FoldLeft(LAMBDA pool, s : IF s \in ToSet(pool) THEN pool ELSE Append(pool, s),
             <<>>, strings)
Blob(pool) == FlattenSeq(pool)
Ref(pool, s) ==
    LET i == CHOOSE j \in DOMAIN pool : pool[j] = s
    IN  <<Len(Blob(SubSeq(pool, 1, i - 1))), Len(s)>>

\* ResolveRef.  The reference is the pair of words at position at.
RefFits(blob, off, len) == off >= 0 /\ off <= Len(blob) /\ len >= 0 /\ len <= Len(blob) - off
RefOk(blob, ws, at) == RefFits(blob, Word(ws, at), Word(ws, at + 1))
Text(blob, ws, at) == Slice(blob, Word(ws, at), Word(ws, at + 1))

\* FixedIdent::FromParts and FixedName8::From refuse what does not fit.
IdentFits(id) == Len(id.ident) <= IdentCap /\ Len(id.code) <= CodeCap
NameFits(s) == Len(s) <= NameCap

IdentRefs(pool, id) == Ref(pool, id.ident) \o Ref(pool, id.code)
IdentAt(blob, ws, at) == [ident |-> Text(blob, ws, at), code |-> Text(blob, ws, at + 2)]

Flat(f(_), n) == FlattenSeq([i \in 1 .. n |-> f(i)])

----------------------------------------------------------------------------
(* graph_codec.cc.                                                         *)

KFix == 0             \* WaypointKind; kOther and kIlsDme are no vertices
KOther == 4
KIlsDme == 5
MaxLevel == 2         \* AirwayLevel::kBoth
VertexKind(k) == k \in KFix .. KIlsDme /\ k \notin {KOther, KIlsDme}

VertexWords == 7
EdgeWords == 4
AirwayWords == 2
MsaWords == 7

\* The strings GraphCodec::Encode interns, in its order.
GraphStrings(g) ==
       Flat(LAMBDA i : <<g.idents[i].ident, g.idents[i].code>>, Len(g.idents))
    \o g.airways
    \o Flat(LAMBDA i : <<g.msa[i].center.ident, g.msa[i].center.code, g.msa[i].airport>>,
            Len(g.msa))

\* What Encode refuses to write.
CsrOk(offsets, e) ==
    /\ offsets[1] = 0
    /\ offsets[Len(offsets)] = e
    /\ \A i \in 1 .. Len(offsets) - 1 : offsets[i] <= offsets[i + 1]
EdgeOk(edge, v, a) ==
    edge.to \in 0 .. v - 1 /\ edge.airway \in 0 .. a - 1 /\ edge.level \in 0 .. MaxLevel
GraphInRange(g) ==
    LET v == Len(g.coords)
    IN  /\ {Len(g.idents), Len(g.flags), Len(g.kinds), Len(g.offsets) - 1} = {v}
        /\ g.first \in 0 .. v
        /\ Len(g.elevations) = v - g.first
        /\ \A k \in ToSet(g.kinds) : VertexKind(k)
        /\ CsrOk(g.offsets, Len(g.edges))
        /\ \A edge \in ToSet(g.edges) : EdgeOk(edge, v, Len(g.airways))
\* The number of names is limited by the writer only.
GraphEncodable(g) == Len(g.airways) <= AirwayCap /\ GraphInRange(g)

GraphEncode(g, pool) ==
       <<Len(g.coords), Len(g.edges), Len(g.airways), Len(g.msa), g.first>>
    \o Flat(LAMBDA i : <<g.coords[i]>> \o IdentRefs(pool, g.idents[i])
                       \o <<g.flags[i], g.kinds[i]>>, Len(g.coords))
    \o g.elevations
    \o g.offsets
    \o Flat(LAMBDA i : <<g.edges[i].to, g.edges[i].airway, g.edges[i].level, g.edges[i].rest>>,
            Len(g.edges))
    \o Flat(LAMBDA i : Ref(pool, g.airways[i]), Len(g.airways))
    \o <<g.mora>>
    \o Flat(LAMBDA i : IdentRefs(pool, g.msa[i].center) \o Ref(pool, g.msa[i].airport)
                       \o <<Len(g.msa[i].arcs)>> \o g.msa[i].arcs, Len(g.msa))

\* Where the parts of a graph section start.  The MSA sectors have variable
\* length, so the start of each follows from the one before.
GraphLayout(ws) ==
    LET v == Word(ws, 0)
        e == Word(ws, 1)
        a == Word(ws, 2)
        elev == 5 + v * VertexWords
        offs == elev + v - Word(ws, 4)
        edge == offs + v + 1
        airway == edge + e * EdgeWords
        mora == airway + a * AirwayWords
        msa[i \in Nat] ==
            IF i = 0 THEN mora + 1
            ELSE msa[i - 1] + MsaWords + Word(ws, msa[i - 1] + MsaWords - 1)
    IN  [v |-> v, e |-> e, a |-> a, m |-> Word(ws, 3), first |-> Word(ws, 4), elev |-> elev,
         offs |-> offs, edge |-> edge, airway |-> airway, mora |-> mora, msa |-> msa]

EdgeAt(ws, at) ==
    [to |-> Word(ws, at), airway |-> Word(ws, at + 1), level |-> Word(ws, at + 2),
     rest |-> Word(ws, at + 3)]

\* The count fuses, before anything is sized by a count.  The counts are read
\* as unsigned; the first airport, an int, is tested on both sides.
GraphCountsFit(ws, L) ==
    LET avail == Len(ws) - 5
    IN  /\ avail >= 0
        /\ {L.v, L.e, L.a, L.m} \subseteq Nat
        /\ L.first \in 0 .. L.v
        /\ L.v <= avail \div VertexWords /\ L.e <= avail \div EdgeWords
        /\ L.a <= avail \div AirwayWords /\ L.m <= avail \div MsaWords
        /\ L.mora + 1 + L.m * MsaWords <= Len(ws)

\* The sectors end where the section ends.
GraphMsaFits(ws, L) ==
    /\ \A i \in 1 .. L.m : L.msa[i - 1] + MsaWords <= Len(ws) /\ L.msa[i] <= Len(ws)
    /\ L.msa[L.m] = Len(ws)

\* Mutant: the offsets are not checked.
GraphValuesOkNoCsr(ws, L) ==
    /\ \A i \in 0 .. L.e - 1 : EdgeOk(EdgeAt(ws, L.edge + i * EdgeWords), L.v, L.a)
    /\ \A i \in 1 .. L.v : VertexKind(Word(ws, 4 + i * VertexWords))
\* The values that NavGraph and GraphBuilder index with later, unchecked.
GraphValuesOk(ws, L) ==
    /\ CsrOk(Slice(ws, L.offs, L.v + 1), L.e)
    /\ \A i \in 0 .. L.e - 1 : EdgeOk(EdgeAt(ws, L.edge + i * EdgeWords), L.v, L.a)
    /\ \A i \in 1 .. L.v : VertexKind(Word(ws, 4 + i * VertexWords))

GraphRefsOk(ws, L, blob) ==
    /\ \A i \in 0 .. L.v - 1 :
          LET at == 6 + i * VertexWords
          IN  RefOk(blob, ws, at) /\ RefOk(blob, ws, at + 2) /\ IdentFits(IdentAt(blob, ws, at))
    /\ \A i \in 0 .. L.a - 1 : RefOk(blob, ws, L.airway + i * AirwayWords)
    /\ \A i \in 0 .. L.m - 1, k \in {0, 2, 4} : RefOk(blob, ws, L.msa[i] + k)

GraphDecodable(ws, blob) ==
    LET L == GraphLayout(ws)
    IN  GraphCountsFit(ws, L) /\ GraphMsaFits(ws, L) /\ GraphValuesOk(ws, L)
        /\ GraphRefsOk(ws, L, blob)

GraphDecode(ws, blob) ==
    LET L == GraphLayout(ws)
        vertex(i) == 5 + (i - 1) * VertexWords
    IN  [coords |-> [i \in 1 .. L.v |-> Word(ws, vertex(i))],
         idents |-> [i \in 1 .. L.v |-> IdentAt(blob, ws, vertex(i) + 1)],
         flags |-> [i \in 1 .. L.v |-> Word(ws, vertex(i) + 5)],
         kinds |-> [i \in 1 .. L.v |-> Word(ws, vertex(i) + 6)],
         first |-> L.first,
         elevations |-> Slice(ws, L.elev, L.v - L.first),
         offsets |-> Slice(ws, L.offs, L.v + 1),
         edges |-> [i \in 1 .. L.e |-> EdgeAt(ws, L.edge + (i - 1) * EdgeWords)],
         airways |-> [i \in 1 .. L.a |-> Text(blob, ws, L.airway + (i - 1) * AirwayWords)],
         mora |-> Word(ws, L.mora),
         msa |-> [i \in 1 .. L.m |->
                    LET at == L.msa[i - 1]
                    IN  [center |-> IdentAt(blob, ws, at), airport |-> Text(blob, ws, at + 4),
                         arcs |-> Slice(ws, at + MsaWords, Word(ws, at + MsaWords - 1))]]]

----------------------------------------------------------------------------
(* cifp_codec.cc.  The section is a count, a directory and the segments,   *)
(* one per airport; the words of a leg after its fix are the position      *)
(* (0: none, 1: a coordinate, other: neither), the path terminator, the    *)
(* altitude kind, the turn, the flags and the rest.                        *)

KApproach == 2        \* ProcedureType::kApproach
KUnknown == 23        \* PathTerminator::kUnknown
KBetween == 4         \* AltConstraintKind::kBetween
TurnLeft == 76
TurnRight == 82
LegFlags == 0 .. 3    \* kLegFlagMapt and kLegFlagCourseTrue

ProcWords == 9
LegWords == 10
RunwayWords == 3
DirWords == 5

SegmentStrings(d) ==
       Flat(LAMBDA i : LET p == d.procedures[i]
                       IN  <<p.name, p.transition, p.runway>>
                           \o Flat(LAMBDA j : <<p.legs[j].fix.ident, p.legs[j].fix.code>>,
                                   Len(p.legs)), Len(d.procedures))
    \o [i \in 1 .. Len(d.runways) |-> d.runways[i].ident]

SerializeSegment(d, pool) ==
    LET leg(l) == IdentRefs(pool, l.fix) \o <<l.pos, l.path, l.alt, l.turn, l.flags, l.rest>>
        proc(p) == <<p.type, p.rest>> \o Ref(pool, p.name) \o Ref(pool, p.transition)
                   \o Ref(pool, p.runway) \o <<Len(p.legs)>>
                   \o Flat(LAMBDA j : leg(p.legs[j]), Len(p.legs))
    IN     <<Len(d.procedures)>>
        \o Flat(LAMBDA i : proc(d.procedures[i]), Len(d.procedures))
        \o <<Len(d.runways)>>
        \o Flat(LAMBDA i : Ref(pool, d.runways[i].ident) \o <<d.runways[i].rest>>,
                Len(d.runways))

\* Procedures have variable length: proc[i] is where the one after i starts.
SegmentLayout(ws) ==
    LET proc[i \in Nat] ==
            IF i = 0 THEN 1
            ELSE proc[i - 1] + ProcWords + Word(ws, proc[i - 1] + ProcWords - 1) * LegWords
    IN  [n |-> Word(ws, 0), proc |-> proc]

LegOk(ws, at, blob) ==
    /\ RefOk(blob, ws, at) /\ RefOk(blob, ws, at + 2) /\ IdentFits(IdentAt(blob, ws, at))
    /\ Word(ws, at + 4) \in {0, 1}
    /\ Word(ws, at + 5) \in 0 .. KUnknown
    /\ Word(ws, at + 6) \in 0 .. KBetween
    /\ Word(ws, at + 7) \in {0, TurnLeft, TurnRight}
    /\ Word(ws, at + 8) \in LegFlags

\* The checks of DeserializeSegment: every count against the words that are
\* left, every enumeration, every reference, nothing left over.
SegmentDecodable(ws, blob) ==
    LET L == SegmentLayout(ws)
        legs(i) == Word(ws, L.proc[i - 1] + ProcWords - 1)
        runways == L.proc[L.n]
    IN  /\ Len(ws) >= 1
        /\ L.n <= (Len(ws) - 1) \div ProcWords
        /\ \A i \in 1 .. L.n :
              LET at == L.proc[i - 1]
              IN  /\ at + ProcWords <= Len(ws)
                  /\ legs(i) <= (Len(ws) - at - ProcWords) \div LegWords
                  /\ Word(ws, at) \in 0 .. KApproach
                  /\ \A k \in {2, 4, 6} : RefOk(blob, ws, at + k)
                  /\ \A j \in 0 .. legs(i) - 1 : LegOk(ws, at + ProcWords + j * LegWords, blob)
        /\ runways + 1 <= Len(ws)
        /\ Word(ws, runways) <= (Len(ws) - runways - 1) \div RunwayWords
        /\ \A i \in 0 .. Word(ws, runways) - 1 : RefOk(blob, ws, runways + 1 + i * RunwayWords)
        /\ Len(ws) = runways + 1 + Word(ws, runways) * RunwayWords

DeserializeSegment(ws, blob) ==
    LET L == SegmentLayout(ws)
        leg(at) == [fix |-> IdentAt(blob, ws, at), pos |-> Word(ws, at + 4),
                    path |-> Word(ws, at + 5), alt |-> Word(ws, at + 6),
                    turn |-> Word(ws, at + 7), flags |-> Word(ws, at + 8),
                    rest |-> Word(ws, at + 9)]
        proc(at) == [type |-> Word(ws, at), rest |-> Word(ws, at + 1),
                     name |-> Text(blob, ws, at + 2), transition |-> Text(blob, ws, at + 4),
                     runway |-> Text(blob, ws, at + 6),
                     legs |-> [j \in 1 .. Word(ws, at + ProcWords - 1) |->
                                 leg(at + ProcWords + (j - 1) * LegWords)]]
        runways == L.proc[L.n]
    IN  [procedures |-> [i \in 1 .. L.n |-> proc(L.proc[i - 1])],
         runways |-> [i \in 1 .. Word(ws, runways) |->
                        LET at == runways + 1 + (i - 1) * RunwayWords
                        IN  [ident |-> Text(blob, ws, at), rest |-> Word(ws, at + 2)]]]

\* CifpCodec::Encode: the strings of the segments come first, then the keys.
CifpStrings(cifp) ==
       Flat(LAMBDA i : SegmentStrings(cifp[i].data), Len(cifp))
    \o [i \in 1 .. Len(cifp) |-> cifp[i].icao]

\* Mutant: keys of any length are written.
CifpEncodableAnyKey(cifp) ==
    \A i, j \in DOMAIN cifp : cifp[i].icao = cifp[j].icao => i = j
\* A key that OpenSection would refuse, or a second one, is refused at once.
CifpEncodable(cifp) ==
    /\ \A i \in DOMAIN cifp : NameFits(cifp[i].icao)
    /\ \A i, j \in DOMAIN cifp : cifp[i].icao = cifp[j].icao => i = j

DirectoryPrefixLen(count) == 1 + count * DirWords

CifpEncode(cifp, pool) ==
    LET body == [i \in 1 .. Len(cifp) |-> SerializeSegment(cifp[i].data, pool)]
        start(i) == DirectoryPrefixLen(Len(cifp)) + Len(FlattenSeq(SubSeq(body, 1, i - 1)))
    IN     <<Len(cifp)>>
        \o Flat(LAMBDA i : Ref(pool, cifp[i].icao) \o <<start(i), Len(body[i]), Crc(body[i])>>,
                Len(cifp))
        \o FlattenSeq(body)

\* CifpCodec::OpenSection on the file ws: off and len are the section's.
\* The index holds absolute positions; Find searches it by key.
CifpIndexable(ws, off, len, crc, blob) ==
    LET count == Word(ws, off)
        row(i) == off + 1 + (i - 1) * DirWords
    IN  /\ len >= 1
        /\ count <= (len - 1) \div DirWords
        /\ Crc(Slice(ws, off, DirectoryPrefixLen(count))) = crc
        /\ \A i \in 1 .. count :
              LET rel == Word(ws, row(i) + 2)
                  n == Word(ws, row(i) + 3)
              IN  /\ RefOk(blob, ws, row(i)) /\ NameFits(Text(blob, ws, row(i)))
                  /\ rel <= len /\ n <= len - rel
                  /\ n > 0 => rel >= DirectoryPrefixLen(count)

OpenSection(ws, off, blob) ==
    {LET row == off + 1 + (i - 1) * DirWords
     IN  [icao |-> Text(blob, ws, row), at |-> off + Word(ws, row + 2),
          len |-> Word(ws, row + 3), crc |-> Word(ws, row + 4)] : i \in 1 .. Word(ws, off)}

\* CifpArchive::Fetch of a key the index has: read, check, decode.
SegmentSound(ws, loc, blob) ==
    LET body == Slice(ws, loc.at, loc.len)
    IN  loc.at + loc.len <= Len(ws) /\ Crc(body) = loc.crc /\ SegmentDecodable(body, blob)
SegmentAt(ws, loc, blob) == DeserializeSegment(Slice(ws, loc.at, loc.len), blob)

----------------------------------------------------------------------------
(* nav_detail_codec.cc.                                                    *)

NavaidWords == 6
HoldWords == 8

\* NavaidBefore, HoldBefore: a total order over all fields, led by the ident.
\* std::tie compares field by field; a text ends below any character.
LexLess(s, t) ==
    \E i \in 1 .. Len(t) :
        /\ \A j \in 1 .. i - 1 : j <= Len(s) /\ s[j] = t[j]
        /\ i > Len(s) \/ s[i] < t[i]
NavaidKey(n) == n.id.ident \o <<0>> \o n.id.code \o <<0, n.kind, n.rest>>
NavaidBefore(a, b) == LexLess(NavaidKey(a), NavaidKey(b))
HoldKey(h) == h.fix.ident \o <<0>> \o h.fix.code \o <<0>> \o h.airport \o <<0, h.rest, h.turn>>
HoldBefore(a, b) == LexLess(HoldKey(a), HoldKey(b))

\* NavDetailArchive::Finalize; FromData is Finalize of what the loader read.
Finalize(d) ==
    [navaids |-> SortSeq(d.navaids, NavaidBefore), holds |-> SortSeq(d.holds, HoldBefore)]

\* FindNavaids, FindHolds: from the first entry not below the ident, while
\* the ident matches.
Matching(seq, IdentOf(_), ident) ==
    LET below == {i \in DOMAIN seq : LexLess(IdentOf(seq[i]), ident)}
        lo == 1 + Cardinality({i \in DOMAIN seq : 1 .. i \subseteq below})
        hi == CHOOSE h \in lo .. Len(seq) + 1 :
                 /\ \A i \in lo .. h - 1 : IdentOf(seq[i]) = ident
                 /\ h <= Len(seq) => IdentOf(seq[h]) # ident
    IN  SubSeq(seq, lo, hi - 1)
FindNavaids(d, ident) == Matching(d.navaids, LAMBDA n : n.id.ident, ident)
FindHolds(d, ident) == Matching(d.holds, LAMBDA h : h.fix.ident, ident)

DetailStrings(d) ==
       Flat(LAMBDA i : <<d.navaids[i].id.ident, d.navaids[i].id.code>>, Len(d.navaids))
    \o Flat(LAMBDA i : <<d.holds[i].fix.ident, d.holds[i].fix.code, d.holds[i].airport>>,
            Len(d.holds))

DetailEncode(d, pool) ==
       <<Len(d.navaids), Len(d.holds)>>
    \o Flat(LAMBDA i : IdentRefs(pool, d.navaids[i].id) \o <<d.navaids[i].kind, d.navaids[i].rest>>,
            Len(d.navaids))
    \o Flat(LAMBDA i : LET h == d.holds[i]
                       IN  IdentRefs(pool, h.fix) \o Ref(pool, h.airport) \o <<h.rest, h.turn>>,
            Len(d.holds))

DetailDecodable(ws, blob) ==
    LET n == Word(ws, 0)
        h == Word(ws, 1)
        holds == 2 + n * NavaidWords
    IN  /\ Len(ws) >= 2
        /\ n <= (Len(ws) - 2) \div NavaidWords
        /\ \A i \in 0 .. n - 1 :
              LET at == 2 + i * NavaidWords
              IN  /\ RefOk(blob, ws, at) /\ RefOk(blob, ws, at + 2)
                  /\ Word(ws, at + 4) \in KFix .. KIlsDme
        /\ h <= (Len(ws) - holds) \div HoldWords
        /\ \A i \in 0 .. h - 1 :
              LET at == holds + i * HoldWords
              IN  /\ \A k \in {0, 2, 4} : RefOk(blob, ws, at + k)
                  /\ Word(ws, at + 7) \in {TurnLeft, TurnRight}
        /\ Len(ws) = holds + h * HoldWords

DetailDecode(ws, blob) ==
    LET n == Word(ws, 0)
        navaid(at) == [id |-> IdentAt(blob, ws, at), kind |-> Word(ws, at + 4),
                       rest |-> Word(ws, at + 5)]
        hold(at) == [fix |-> IdentAt(blob, ws, at), airport |-> Text(blob, ws, at + 4),
                     rest |-> Word(ws, at + 6), turn |-> Word(ws, at + 7)]
    IN  Finalize([navaids |-> [i \in 1 .. n |-> navaid(2 + (i - 1) * NavaidWords)],
                  holds |-> [i \in 1 .. Word(ws, 1) |->
                               hold(2 + n * NavaidWords + (i - 1) * HoldWords)]])
=============================================================================
