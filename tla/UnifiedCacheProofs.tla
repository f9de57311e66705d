------------------------- MODULE UnifiedCacheProofs -------------------------
(***************************************************************************)
(* Proofs about the .bfdb file for any builders, readers, inputs, faults   *)
(* and directory: what the paths show while builds are cut short, fail or  *)
(* race (BuildInv), what a scan lists (ScanInv), and that a graph which is *)
(* opened can be indexed (DecodableIsInRange).  The argument for the     *)
(* paths: a build's file is reachable through its own temporary name only, *)
(* until the rename, and by then it holds every piece or is damaged.       *)
(***************************************************************************)
EXTENDS UnifiedCache, TLAPS

BuilderFields == {"pc", "in", "body", "left", "at", "file", "bad"}

Shape == /\ DOMAIN builder = Builders
         /\ \A b \in Builders : DOMAIN builder[b] = BuilderFields
         /\ \A n \in DOMAIN dir : dir[n] \in DOMAIN disk

\* Where the file of a build can be seen.
Placed(b) ==
    LET pc == builder[b].pc
        tmp == TempPathFor(b)
    IN  /\ pc \in {"start", "encoded", "failed"} =>
              /\ tmp \notin DOMAIN dir
              /\ \A n \in DOMAIN dir : dir[n] # b
        /\ pc \in {"writing", "closed"} =>
              /\ builder[b].file = b /\ b \in DOMAIN disk
              /\ tmp \in DOMAIN dir /\ dir[tmp] = b
              /\ \A n \in DOMAIN dir : dir[n] = b => n = tmp
        /\ pc = "done" => tmp \notin DOMAIN dir

PiecesOf(k) == Pieces(Inputs[k], Bodies(Inputs[k]))

\* What the file of a build holds: the pieces written so far, in order.
Progress(b) ==
    LET me == builder[b]
        p == PiecesOf(me.in)
    IN  /\ me.pc \in {"encoded", "writing", "closed"} => me.in \in DOMAIN Images
        /\ me.pc \in {"start", "encoded"} => me.at = 0
        /\ me.pc = "encoded" /\ b \notin flipped => me.body = Bodies(Inputs[me.in])
        /\ me.pc = "writing" /\ ~me.bad /\ b \notin damaged \union flipped =>
              \/ me.left = <<p[1], p[2]>> /\ me.at = 0 /\ disk[b] = <<>>
              \/ me.left = <<p[2]>> /\ me.at = Len(p[1]) /\ disk[b] = p[1]
              \/ me.left = <<>> /\ disk[b] = p[1] \o p[2]
        /\ me.pc = "closed" /\ b \notin damaged \union flipped => disk[b] = Images[me.in]

BuildInv ==
    /\ Shape
    /\ \A b \in Builders : Placed(b) /\ Progress(b)
    /\ PathsHoldWholeBuilds

bvars == <<dir, disk, builder, faults, damaged, flipped>>

----------------------------------------------------------------------------
(* Lemmas.                                                                 *)

LEMMA TempNames ==
    /\ \A b : TempPathFor(b).form = "tmp"
    /\ \A b, c : TempPathFor(b) = TempPathFor(c) => b = c
  <1>1. \A b : TempPathFor(b).form = "tmp" /\ TempPathFor(b).cycle = b
    BY DEF TempPathFor
  <1> QED  BY <1>1

LEMMA OutputIsNoTemp ==
  ASSUME NEW b \in Builders PROVE Output(b).form # "tmp"
  BY CacheAssumption DEF Output, FormatBfdbName

LEMMA DiscardFacts ==
  ASSUME NEW b
  PROVE  /\ DOMAIN DiscardTmp(b) = DOMAIN dir \ {TempPathFor(b)}
         /\ \A y \in DOMAIN DiscardTmp(b) : DiscardTmp(b)[y] = dir[y]
  BY DEF DiscardTmp

LEMMA ImageFacts ==
  ASSUME NEW k \in DOMAIN Images
  PROVE  LET p == PiecesOf(k)
         IN  /\ p = <<p[1], p[2]>> /\ p[1] \in Seq(Int) /\ p[2] \in Seq(Int)
             /\ Images[k] = p[1] \o p[2]
  <1>1. PiecesOf(k)[1] \in Seq(Int) /\ PiecesOf(k)[2] \in Seq(Int)
    BY CacheAssumption DEF PiecesOf
  <1>2. PiecesOf(k) = <<PiecesOf(k)[1], PiecesOf(k)[2]>>
    <2>1. \A x, y : <<x, y>> = << <<x, y>>[1], <<x, y>>[2] >>
      OBVIOUS
    <2> QED  BY <2>1, ZenonT(60) DEF PiecesOf, Pieces
  <1>3. Images[k] = PiecesOf(k)[1] \o PiecesOf(k)[2]
    BY DEF Images, Image, PiecesOf
  <1> QED  BY <1>1, <1>2, <1>3

\* A piece written at the end of the file extends it.
LEMMA OverlayAppends ==
  ASSUME NEW ws \in Seq(Int), NEW piece \in Seq(Int)
  PROVE  Overlay(ws, Len(ws), piece) = ws \o piece
  <1> DEFINE n == Len(ws) + Len(piece)
  <1>1. Len(ws) \in Nat /\ Len(piece) \in Nat /\ n \in Nat
    OBVIOUS
  <1>2. ~(Len(ws) > n)
    BY <1>1
  <1>3. Overlay(ws, Len(ws), piece) =
          [i \in 1 .. n |-> IF i \in Len(ws) + 1 .. n THEN piece[i - Len(ws)]
                            ELSE Word(ws, i - 1)]
    BY <1>2 DEF Overlay
  <1> DEFINE c == ws \o piece
  <1>4. c \in Seq(Int) /\ Len(c) = n
    OBVIOUS
  <1>5. \A i \in 1 .. n : c[i] = IF i <= Len(ws) THEN ws[i] ELSE piece[i - Len(ws)]
    BY <1>1
  <1> HIDE DEF c
  <1>6. c = [i \in 1 .. n |-> c[i]]
    BY <1>4
  <1>7. \A i \in 1 .. n : (IF i \in Len(ws) + 1 .. n THEN piece[i - Len(ws)]
                           ELSE Word(ws, i - 1)) = c[i]
    BY <1>1, <1>5 DEF Word
  <1> QED  BY <1>3, <1>6, <1>7 DEF c

LEMMA SomeLeft ==
  \A x, y : <<x, y>> # <<>> /\ <<y>> # <<>>
  <1> SUFFICES ASSUME NEW x, NEW y PROVE <<x, y>> # <<>> /\ <<y>> # <<>>
    OBVIOUS
  <1>1. DOMAIN <<x, y>> = 1 .. 2 /\ DOMAIN <<y>> = 1 .. 1
    OBVIOUS
  <1>2. \A i \in DOMAIN <<>> : FALSE
    OBVIOUS
  <1> QED  BY <1>1, <1>2

----------------------------------------------------------------------------
(* The steps of one build.                                                 *)

\* What a step of b that is not a fault on disk leaves alone.
Others(b) ==
    /\ DOMAIN builder' = Builders /\ DOMAIN builder'[b] = BuilderFields
    /\ \A e \in Builders : e # b => builder'[e] = builder[e]
    /\ \A e \in Builders : e # b =>
          /\ TempPathFor(e) \in DOMAIN dir' <=> TempPathFor(e) \in DOMAIN dir
          /\ TempPathFor(e) \in DOMAIN dir => dir'[TempPathFor(e)] = dir[TempPathFor(e)]
    /\ \A n \in DOMAIN dir' : dir'[n] = b \/ (n \in DOMAIN dir /\ dir'[n] = dir[n])
    /\ \A f \in DOMAIN disk : f \in DOMAIN disk' /\ (f # b => disk'[f] = disk[f])
    /\ damaged' = damaged /\ flipped \subseteq flipped' /\ flipped' \subseteq flipped \union {b}

LEMMA OthersKept ==
  ASSUME BuildInv, NEW b \in Builders, Others(b), NEW e \in Builders, e # b
  PROVE  Placed(e)' /\ Progress(e)'
  <1>1. Placed(e) /\ Progress(e)
    BY DEF BuildInv
  <1>2. builder'[e] = builder[e] /\ (e \in flipped' <=> e \in flipped) /\ damaged' = damaged
    BY DEF Others
  <1>3. builder[e].pc \in {"writing", "closed"} => e \in DOMAIN disk /\ disk'[e] = disk[e]
    BY <1>1 DEF Others, Placed
  <1>4. Placed(e)'
    BY <1>1, <1>2 DEF Others, Placed
  <1>5. Progress(e)'
    BY <1>1, <1>2, <1>3 DEF Progress
  <1> QED  BY <1>4, <1>5

\* Paths show what they did when a step touches temporary names only, and no
\* file that a path shows.
LEMMA PathsKept ==
  ASSUME BuildInv, NEW b \in Builders, Others(b),
         \A n \in DOMAIN dir' : n.form # "tmp" => n \in DOMAIN dir /\ dir'[n] = dir[n],
         \/ disk' = disk
         \/ \A n \in DOMAIN dir : n.form # "tmp" => dir[n] # b
  PROVE  PathsHoldWholeBuilds'
  <1> SUFFICES ASSUME NEW n \in DOMAIN dir', n.form # "tmp"
               PROVE  \/ dir'[n] \in damaged' \union flipped'
                      \/ \E k \in DOMAIN Images : disk'[dir'[n]] = Images[k]
    BY DEF PathsHoldWholeBuilds
  <1>1. n \in DOMAIN dir /\ dir'[n] = dir[n] /\ dir[n] \in DOMAIN disk
    BY DEF BuildInv, Shape
  <1>2. disk'[dir[n]] = disk[dir[n]]
    BY <1>1 DEF Others
  <1>3. \/ dir[n] \in damaged \union flipped
        \/ \E k \in DOMAIN Images : disk[dir[n]] = Images[k]
    BY <1>1 DEF BuildInv, PathsHoldWholeBuilds
  <1> QED  BY <1>1, <1>2, <1>3 DEF Others

LEMMA StepKept ==
  ASSUME BuildInv, NEW b \in Builders, Others(b), Placed(b)', Progress(b)',
         PathsHoldWholeBuilds', \A n \in DOMAIN dir' : dir'[n] \in DOMAIN disk'
  PROVE  BuildInv'
  <1>1. \A e \in Builders : Placed(e)' /\ Progress(e)'
    BY OthersKept
  <1>2. Shape'
    BY DEF Others, BuildInv, Shape
  <1> QED  BY <1>1, <1>2 DEF BuildInv

LEMMA EncodeInv ==
  ASSUME BuildInv, NEW b \in Builders, Encode(b)
  PROVE  BuildInv'
  <1> DEFINE me == builder[b]
  <1>1. PICK k \in DataOf[b] :
          builder' = [builder EXCEPT ![b] =
              IF Encodable(Inputs[k])
              THEN [@ EXCEPT !.pc = "encoded", !.in = k, !.body = Bodies(Inputs[k])]
              ELSE [@ EXCEPT !.pc = "failed", !.in = k]]
    BY DEF Encode
  <1>2. UNCHANGED <<dir, disk, damaged, flipped>> /\ me.pc = "start"
    BY DEF Encode
  <1>3. Shape /\ Placed(b) /\ Progress(b)
    BY DEF BuildInv
  <1>4. Others(b)
    BY <1>1, <1>2, <1>3 DEF Shape, BuilderFields, Others
  <1>5. PathsHoldWholeBuilds'
    BY <1>2, <1>4, PathsKept
  <1>6. \/ /\ builder'[b].pc = "encoded" /\ builder'[b].in = k /\ Encodable(Inputs[k])
           /\ builder'[b].body = Bodies(Inputs[k]) /\ builder'[b].at = me.at
        \/ builder'[b].pc = "failed"
    BY <1>1, <1>3 DEF Shape, BuilderFields
  <1>7. Placed(b)'
    BY <1>2, <1>3, <1>6 DEF Placed
  <1>8. Encodable(Inputs[k]) => k \in DOMAIN Images
    BY CacheAssumption DEF Images
  <1>9. me.at = 0
    BY <1>2, <1>3 DEF Progress
  <1>10. Progress(b)'
    BY <1>6, <1>8, <1>9 DEF Progress
  <1> QED  BY <1>2, <1>3, <1>4, <1>5, <1>7, <1>10, StepKept DEF Shape

LEMMA OpenTempInv ==
  ASSUME BuildInv, NEW b \in Builders, OpenTemp(b)
  PROVE  BuildInv'
  <1> DEFINE me == builder[b]
             tmp == TempPathFor(b)
             in == Inputs[me.in]
  <1>1. Shape /\ Placed(b) /\ Progress(b) /\ me.pc = "encoded"
    BY DEF BuildInv, OpenTemp
  <1>2. tmp \notin DOMAIN dir /\ \A n \in DOMAIN dir : dir[n] # b
    BY <1>1 DEF Placed
  <1>3. /\ dir' = With(dir, tmp, b) /\ disk' = With(disk, b, <<>>)
        /\ builder' = [builder EXCEPT ![b].pc = "writing", ![b].file = b,
                                      ![b].left = Pieces(in, me.body), ![b].body = None]
        /\ damaged' = damaged /\ flipped' = flipped
    BY <1>2 DEF OpenTemp
  <1>4. /\ DOMAIN builder' = Builders /\ DOMAIN builder'[b] = BuilderFields
        /\ \A e \in Builders : e # b => builder'[e] = builder[e]
        /\ builder'[b].pc = "writing" /\ builder'[b].file = b /\ builder'[b].at = me.at
        /\ builder'[b].left = Pieces(in, me.body) /\ builder'[b].in = me.in
    BY <1>1, <1>3 DEF Shape, BuilderFields
  <1>5. /\ DOMAIN dir' = DOMAIN dir \union {tmp} /\ dir'[tmp] = b
        /\ \A n \in DOMAIN dir : n # tmp => dir'[n] = dir[n]
        /\ DOMAIN disk' = DOMAIN disk \union {b} /\ disk'[b] = <<>>
        /\ \A f \in DOMAIN disk : f # b => disk'[f] = disk[f]
    <2> HIDE DEF tmp
    <2>1. /\ DOMAIN dir' = DOMAIN dir \union {tmp} /\ dir'[tmp] = b
          /\ \A n \in DOMAIN dir : n # tmp => dir'[n] = dir[n]
      BY <1>3 DEF With
    <2>2. /\ DOMAIN disk' = DOMAIN disk \union {b} /\ disk'[b] = <<>>
          /\ \A f \in DOMAIN disk : f # b => disk'[f] = disk[f]
      BY <1>3 DEF With
    <2> QED  BY <2>1, <2>2
  <1>6. \A e \in Builders : e # b =>
          /\ TempPathFor(e) \in DOMAIN dir' <=> TempPathFor(e) \in DOMAIN dir
          /\ TempPathFor(e) \in DOMAIN dir => dir'[TempPathFor(e)] = dir[TempPathFor(e)]
    <2> SUFFICES ASSUME NEW e \in Builders, e # b
                 PROVE  /\ TempPathFor(e) \in DOMAIN dir' <=> TempPathFor(e) \in DOMAIN dir
                        /\ TempPathFor(e) \in DOMAIN dir => dir'[TempPathFor(e)] = dir[TempPathFor(e)]
      OBVIOUS
    <2>1. TempPathFor(e) # tmp
      BY TempNames
    <2> QED  BY <2>1, <1>5
  <1>7. Others(b)
    BY <1>3, <1>4, <1>5, <1>6 DEF Others
  <1>8. PathsHoldWholeBuilds'
    <2>1. \A n \in DOMAIN dir' : n.form # "tmp" => n \in DOMAIN dir /\ dir'[n] = dir[n]
      <3>1. tmp.form = "tmp"
        BY TempNames
      <3> QED  BY <3>1, <1>5
    <2> QED  BY <1>2, <1>7, <2>1, PathsKept
  <1>9. Placed(b)'
    BY <1>2, <1>4, <1>5, SMTT(60) DEF Placed
  <1>10. Progress(b)'
    <2>1. me.in \in DOMAIN Images /\ me.at = 0
      BY <1>1 DEF Progress
    <2>2. b \notin flipped => Pieces(in, me.body) = PiecesOf(me.in)
      BY <1>1 DEF Progress, PiecesOf
    <2>3. PiecesOf(me.in) = <<PiecesOf(me.in)[1], PiecesOf(me.in)[2]>>
      BY <2>1, ImageFacts
    <2> QED  BY <1>3, <1>4, <1>5, <2>1, <2>2, <2>3 DEF Progress
  <1> QED  BY <1>1, <1>5, <1>7, <1>8, <1>9, <1>10, StepKept DEF Shape

\* What is left to show for a step that changes the builder b alone.
LEMMA QuietStep ==
  ASSUME BuildInv, NEW b \in Builders, UNCHANGED <<dir, disk, damaged>>,
         DOMAIN builder' = Builders, DOMAIN builder'[b] = BuilderFields,
         \A e \in Builders : e # b => builder'[e] = builder[e],
         flipped \subseteq flipped', flipped' \subseteq flipped \union {b},
         Placed(b)', Progress(b)'
  PROVE  BuildInv'
  <1>1. Others(b)
    BY DEF Others
  <1>2. PathsHoldWholeBuilds'
    BY <1>1, PathsKept
  <1> QED  BY <1>1, <1>2, StepKept DEF BuildInv, Shape

\* The same for one that removes its temporary name as well.
LEMMA DiscardStep ==
  ASSUME BuildInv, NEW b \in Builders, builder[b].pc \in {"writing", "closed"},
         dir' = DiscardTmp(b), UNCHANGED <<disk, damaged, flipped>>,
         builder' = [builder EXCEPT ![b].pc = "failed"]
  PROVE  BuildInv'
  <1> DEFINE tmp == TempPathFor(b)
  <1>1. Shape /\ Placed(b) /\ Progress(b)
    BY DEF BuildInv
  <1>2. DOMAIN dir' = DOMAIN dir \ {tmp} /\ \A n \in DOMAIN dir' : dir'[n] = dir[n]
    BY DiscardFacts
  <1>3. /\ DOMAIN builder' = Builders /\ DOMAIN builder'[b] = BuilderFields
        /\ \A e \in Builders : e # b => builder'[e] = builder[e]
        /\ builder'[b].pc = "failed"
    BY <1>1 DEF Shape, BuilderFields
  <1>4. \A e \in Builders : e # b => TempPathFor(e) # tmp
    BY TempNames
  <1>5. Others(b)
    <2> HIDE DEF tmp
    <2> QED  BY <1>2, <1>3, <1>4 DEF Others
  <1>6. PathsHoldWholeBuilds'
    BY <1>2, <1>5, PathsKept
  <1>7. Placed(b)'
    BY <1>1, <1>2, <1>3 DEF Placed
  <1>8. Progress(b)'
    BY <1>3 DEF Progress
  <1> QED  BY <1>1, <1>2, <1>5, <1>6, <1>7, <1>8, StepKept DEF Shape

LEMMA OpenTempFailsInv ==
  ASSUME BuildInv, NEW b \in Builders, OpenTempFails(b)
  PROVE  BuildInv'
  <1>1. Shape /\ Placed(b) /\ Progress(b)
    BY DEF BuildInv
  <1>2. /\ DOMAIN builder' = Builders /\ DOMAIN builder'[b] = BuilderFields
        /\ \A e \in Builders : e # b => builder'[e] = builder[e]
        /\ builder'[b].pc = "failed" /\ builder[b].pc = "encoded"
        /\ UNCHANGED <<dir, disk, damaged, flipped>>
    BY <1>1 DEF OpenTempFails, Shape, BuilderFields
  <1>3. Placed(b)' /\ Progress(b)'
    BY <1>1, <1>2 DEF Placed, Progress
  <1> QED  BY <1>2, <1>3, QuietStep

LEMMA WriteFailsInv ==
  ASSUME BuildInv, NEW b \in Builders, WriteFails(b)
  PROVE  BuildInv'
  <1>1. Shape /\ Placed(b) /\ Progress(b)
    BY DEF BuildInv
  <1>2. /\ DOMAIN builder' = Builders /\ DOMAIN builder'[b] = BuilderFields
        /\ \A e \in Builders : e # b => builder'[e] = builder[e]
        /\ builder'[b].pc = "writing" /\ builder[b].pc = "writing" /\ builder'[b].bad = TRUE
        /\ builder'[b].file = builder[b].file /\ builder'[b].in = builder[b].in
        /\ UNCHANGED <<dir, disk, damaged, flipped>>
    BY <1>1 DEF WriteFails, Shape, BuilderFields
  <1>3. Placed(b)'
    BY <1>1, <1>2 DEF Placed
  <1>4. Progress(b)'
    BY <1>1, <1>2 DEF Progress
  <1> QED  BY <1>2, <1>3, <1>4, QuietStep

LEMMA CloseInv ==
  ASSUME BuildInv, NEW b \in Builders, Close(b)
  PROVE  BuildInv'
  <1>1. Shape /\ Placed(b) /\ Progress(b)
    BY DEF BuildInv
  <1>2. CASE builder[b].bad
    BY <1>2, DiscardStep DEF Close
  <1>3. CASE ~builder[b].bad
    <2>1. /\ DOMAIN builder' = Builders /\ DOMAIN builder'[b] = BuilderFields
          /\ \A e \in Builders : e # b => builder'[e] = builder[e]
          /\ builder'[b].pc = "closed" /\ builder[b].pc = "writing"
          /\ builder'[b].file = builder[b].file /\ builder'[b].in = builder[b].in
          /\ builder[b].left = <<>>
          /\ UNCHANGED <<dir, disk, damaged, flipped>>
      BY <1>1, <1>3 DEF Close, Shape, BuilderFields
    <2>2. Placed(b)'
      BY <1>1, <2>1 DEF Placed
    <2>3. b \notin damaged \union flipped =>
            disk[b] = PiecesOf(builder[b].in)[1] \o PiecesOf(builder[b].in)[2]
      BY <1>1, <1>3, <2>1, SomeLeft, ZenonT(60) DEF Progress
    <2>4. builder[b].in \in DOMAIN Images
      BY <1>1, <2>1 DEF Progress
    <2>5. Progress(b)'
      BY <2>1, <2>3, <2>4, ImageFacts DEF Progress
    <2> QED  BY <2>1, <2>2, <2>5, QuietStep
  <1> QED  BY <1>2, <1>3

LEMMA RenameFailsInv ==
  ASSUME BuildInv, NEW b \in Builders, RenameFails(b)
  PROVE  BuildInv'
  BY DiscardStep DEF RenameFails

LEMMA KillInv ==
  ASSUME BuildInv, NEW b \in Builders, Kill(b)
  PROVE  BuildInv'
  <1>1. Shape /\ Placed(b) /\ Progress(b)
    BY DEF BuildInv
  <1>2. /\ DOMAIN builder' = Builders /\ DOMAIN builder'[b] = BuilderFields
        /\ \A e \in Builders : e # b => builder'[e] = builder[e]
        /\ builder'[b].pc = "killed"
        /\ UNCHANGED <<dir, disk, damaged, flipped>>
    BY <1>1 DEF Kill, Shape, BuilderFields
  <1>3. Placed(b)' /\ Progress(b)'
    BY <1>2 DEF Placed, Progress
  <1> QED  BY <1>2, <1>3, QuietStep

LEMMA MemoryFlipInv ==
  ASSUME BuildInv, NEW b \in Builders, MemoryFlip(b)
  PROVE  BuildInv'
  <1>1. Shape /\ Placed(b) /\ Progress(b)
    BY DEF BuildInv
  <1>3. PICK sec, i, w : builder' = [builder EXCEPT ![b].body[sec][i] = w]
    BY DEF MemoryFlip
  <1>4. /\ DOMAIN builder' = Builders /\ DOMAIN builder'[b] = BuilderFields
        /\ \A e \in Builders : e # b => builder'[e] = builder[e]
        /\ builder'[b].pc = builder[b].pc /\ builder[b].pc = "encoded"
        /\ builder'[b].in = builder[b].in /\ builder'[b].at = builder[b].at
        /\ UNCHANGED <<dir, disk, damaged>> /\ flipped' = flipped \union {b}
    BY <1>1, <1>3 DEF MemoryFlip, Shape, BuilderFields
  <1>5. Placed(b)'
    BY <1>1, <1>4 DEF Placed
  <1>6. Progress(b)'
    BY <1>1, <1>4 DEF Progress
  <1> QED  BY <1>4, <1>5, <1>6, QuietStep

LEMMA WriteAllInv ==
  ASSUME BuildInv, NEW b \in Builders, WriteAll(b)
  PROVE  BuildInv'
  <1> DEFINE me == builder[b]
             p == PiecesOf(me.in)
  <1>1. Shape /\ Placed(b) /\ Progress(b) /\ me.pc = "writing" /\ me.left # <<>>
    BY DEF BuildInv, WriteAll
  <1>2. /\ me.file = b /\ b \in DOMAIN disk
        /\ \A n \in DOMAIN dir : n.form # "tmp" => dir[n] # b
    BY <1>1, TempNames DEF Placed
  <1>3. /\ DOMAIN builder' = Builders /\ DOMAIN builder'[b] = BuilderFields
        /\ \A e \in Builders : e # b => builder'[e] = builder[e]
        /\ builder'[b].pc = "writing" /\ builder'[b].file = b
        /\ builder'[b].in = me.in /\ builder'[b].bad = me.bad
        /\ builder'[b].left = Tail(me.left) /\ builder'[b].at = me.at + Len(Head(me.left))
    BY <1>1, <1>2 DEF WriteAll, Shape, BuilderFields
  <1>4. /\ DOMAIN disk' = DOMAIN disk /\ \A f \in DOMAIN disk : f # b => disk'[f] = disk[f]
        /\ ~me.bad => disk'[b] = Overlay(disk[b], me.at, Head(me.left))
        /\ UNCHANGED <<dir, damaged, flipped>>
    BY <1>2 DEF WriteAll
  <1>5. Others(b)
    BY <1>3, <1>4 DEF Others
  <1>6. PathsHoldWholeBuilds'
    BY <1>2, <1>4, <1>5, PathsKept
  <1>7. Placed(b)'
    BY <1>1, <1>3, <1>4 DEF Placed
  <1>8. me.in \in DOMAIN Images
    BY <1>1 DEF Progress
  <1>9. p[1] \in Seq(Int) /\ p[2] \in Seq(Int)
    BY <1>8, ImageFacts
  <1>10. ASSUME ~me.bad, b \notin damaged \union flipped
         PROVE  \/ /\ builder'[b].left = <<p[2]>> /\ builder'[b].at = Len(p[1])
                   /\ disk'[b] = p[1]
                \/ builder'[b].left = <<>> /\ disk'[b] = p[1] \o p[2]
    <2>1. CASE me.left = <<p[1], p[2]>> /\ me.at = 0 /\ disk[b] = <<>>
      <3>1. Head(me.left) = p[1] /\ Tail(me.left) = <<p[2]>>
        BY <2>1
      <3>2. Overlay(<<>>, Len(<<>>), p[1]) = <<>> \o p[1]
        <4>1. <<>> \in Seq(Int)
          OBVIOUS
        <4>2. \A ws \in Seq(Int) : Overlay(ws, Len(ws), p[1]) = ws \o p[1]
          BY <1>9, OverlayAppends
        <4> QED  BY <4>1, <4>2
      <3>3. <<>> \o p[1] = p[1] /\ Len(<<>>) = 0 /\ 0 + Len(p[1]) = Len(p[1])
        BY <1>9
      <3> QED  BY <1>3, <1>4, <1>10, <2>1, <3>1, <3>2, <3>3
    <2>2. CASE me.left = <<p[2]>> /\ me.at = Len(p[1]) /\ disk[b] = p[1]
      <3>1. Head(me.left) = p[2] /\ Tail(me.left) = <<>>
        BY <2>2
      <3>2. Overlay(p[1], Len(p[1]), p[2]) = p[1] \o p[2]
        BY <1>9, OverlayAppends
      <3> QED  BY <1>3, <1>4, <1>10, <2>2, <3>1, <3>2
    <2> QED  BY <1>1, <1>10, <2>1, <2>2 DEF Progress
  <1>11. Progress(b)'
    BY <1>3, <1>4, <1>8, <1>10 DEF Progress
  <1> QED  BY <1>1, <1>4, <1>5, <1>6, <1>7, <1>11, StepKept DEF Shape

\* The rename is what makes a file visible.
LEMMA RenameInv ==
  ASSUME BuildInv, NEW b \in Builders, Rename(b)
  PROVE  BuildInv'
  <1> DEFINE me == builder[b]
  <1>1. Shape /\ Placed(b) /\ Progress(b) /\ me.pc = "closed"
    BY DEF BuildInv, Rename
  <1>2. PICK out, tmp : out = Output(b) /\ tmp = TempPathFor(b)
    OBVIOUS
  <1>3. out.form # "tmp" /\ tmp.form = "tmp" /\ \A e \in Builders : e # b => TempPathFor(e) # tmp
    BY <1>2, OutputIsNoTemp, TempNames
  <1>4. tmp \in DOMAIN dir /\ dir[tmp] = b /\ b \in DOMAIN disk
    BY <1>1, <1>2 DEF Placed
  <1>5. /\ DOMAIN dir' = (DOMAIN dir \ {tmp}) \union {out} /\ dir'[out] = b
        /\ \A n \in DOMAIN dir' : n # out => n \in DOMAIN dir /\ n # tmp /\ dir'[n] = dir[n]
    <2>1. dir' = With(DiscardTmp(b), out, b)
      BY <1>2, <1>4 DEF Rename
    <2>2. PICK rest : rest = DiscardTmp(b)
      OBVIOUS
    <2>3. DOMAIN rest = DOMAIN dir \ {tmp} /\ \A n \in DOMAIN rest : rest[n] = dir[n]
      BY <1>2, <2>2, DiscardFacts
    <2>4. /\ DOMAIN dir' = DOMAIN rest \union {out} /\ dir'[out] = b
          /\ \A n \in DOMAIN rest : n # out => dir'[n] = rest[n]
      BY <2>1, <2>2 DEF With
    <2> QED  BY <2>3, <2>4
  <1>6. /\ DOMAIN builder' = Builders /\ DOMAIN builder'[b] = BuilderFields
        /\ \A e \in Builders : e # b => builder'[e] = builder[e]
        /\ builder'[b].pc = "done" /\ UNCHANGED <<disk, damaged, flipped>>
    BY <1>1 DEF Rename, Shape, BuilderFields
  <1>7. \A e \in Builders : TempPathFor(e) # out
    BY <1>3, TempNames
  <1>8. Others(b)
    BY <1>3, <1>5, <1>6, <1>7 DEF Others
  <1>9. Placed(b)'
    BY <1>2, <1>5, <1>6, <1>7 DEF Placed
  <1>10. Progress(b)'
    BY <1>6 DEF Progress
  <1>11. PathsHoldWholeBuilds'
    <2> SUFFICES ASSUME NEW n \in DOMAIN dir', n.form # "tmp"
                 PROVE  \/ dir'[n] \in damaged \union flipped
                        \/ \E k \in DOMAIN Images : disk[dir'[n]] = Images[k]
      BY <1>6 DEF PathsHoldWholeBuilds
    <2>1. CASE n = out
      BY <1>1, <1>5, <2>1 DEF Progress
    <2>2. CASE n # out
      BY <1>5, <2>2 DEF BuildInv, PathsHoldWholeBuilds
    <2> QED  BY <2>1, <2>2
  <1>12. \A n \in DOMAIN dir' : dir'[n] \in DOMAIN disk'
    BY <1>1, <1>4, <1>5, <1>6 DEF Shape
  <1> QED  BY <1>8, <1>9, <1>10, <1>11, <1>12, StepKept

----------------------------------------------------------------------------
(* Faults on disk, and the theorems about the paths.                       *)

\* A damaged file is nobody's promise any more.
LEMMA DamageStep ==
  ASSUME BuildInv, NEW f \in DOMAIN disk, DOMAIN disk' = DOMAIN disk,
         \A g \in DOMAIN disk : g # f => disk'[g] = disk[g],
         damaged' = damaged \union {f}, UNCHANGED <<dir, flipped>>,
         DOMAIN builder' = Builders,
         \A b \in Builders :
            /\ DOMAIN builder'[b] = BuilderFields
            /\ builder'[b] = builder[b] \/ builder'[b].pc = "killed"
  PROVE  BuildInv'
  <1>1. Shape'
    BY DEF BuildInv, Shape
  <1>2. ASSUME NEW b \in Builders PROVE Placed(b)' /\ Progress(b)'
    <2>1. Placed(b) /\ Progress(b)
      BY DEF BuildInv
    <2>2. CASE builder'[b].pc = "killed"
      BY <2>2 DEF Placed, Progress
    <2>3. CASE builder'[b] = builder[b]
      <3>1. Placed(b)'
        BY <2>1, <2>3 DEF Placed
      <3>2. builder[b].pc \in {"writing", "closed"} /\ b # f => disk'[b] = disk[b]
        BY <2>1 DEF Placed
      <3>3. Progress(b)'
        BY <2>1, <2>3, <3>2 DEF Progress
      <3> QED  BY <3>1, <3>3
    <2> QED  BY <2>2, <2>3
  <1>3. PathsHoldWholeBuilds'
    <2> SUFFICES ASSUME NEW n \in DOMAIN dir, n.form # "tmp"
                 PROVE  \/ dir[n] \in damaged' \union flipped
                        \/ \E k \in DOMAIN Images : disk'[dir[n]] = Images[k]
      BY DEF PathsHoldWholeBuilds
    <2> QED  BY DEF BuildInv, Shape, PathsHoldWholeBuilds
  <1> QED  BY <1>1, <1>2, <1>3 DEF BuildInv

LEMMA PowerLossInv ==
  ASSUME BuildInv, NEW f \in DOMAIN disk, PowerLoss(f)
  PROVE  BuildInv'
  <1>1. PICK ws : disk' = [disk EXCEPT ![f] = ws]
    BY DEF PowerLoss
  <1>2. \A b \in Builders : DOMAIN builder[b] = BuilderFields
    BY Zenon DEF BuildInv, Shape
  <1>3. \A b \in Builders :
            /\ DOMAIN builder'[b] = BuilderFields
            /\ builder'[b] = builder[b] \/ builder'[b].pc = "killed"
    BY <1>2 DEF PowerLoss, BuilderFields
  <1> QED  BY <1>1, <1>3, DamageStep DEF PowerLoss

LEMMA BitRotInv ==
  ASSUME BuildInv, NEW f \in DOMAIN disk, BitRot(f)
  PROVE  BuildInv'
  <1>1. PICK i, w : disk' = [disk EXCEPT ![f][i] = w]
    BY DEF BitRot
  <1>2. DOMAIN disk' = DOMAIN disk /\ \A g \in DOMAIN disk : g # f => disk'[g] = disk[g]
    BY <1>1
  <1>3. /\ damaged' = damaged \union {f} /\ UNCHANGED <<dir, flipped>> /\ builder' = builder
    BY Zenon DEF BitRot
  <1>4. DOMAIN builder = Builders /\ \A b \in Builders : DOMAIN builder[b] = BuilderFields
    BY Zenon DEF BuildInv, Shape
  <1>5. DOMAIN builder' = Builders /\ \A b \in Builders : DOMAIN builder'[b] = BuilderFields
                                                       /\ builder'[b] = builder[b]
    BY <1>3, <1>4, Zenon
  <1> QED  BY <1>2, <1>3, <1>5, DamageStep, Zenon

LEMMA UnchangedBuildInv ==
  ASSUME BuildInv, UNCHANGED bvars
  PROVE  BuildInv'
  BY ZenonT(60) DEF BuildInv, bvars, Shape, Placed, Progress, PathsHoldWholeBuilds

LEMMA InitBuildInv ==
  Init => BuildInv
  <1> SUFFICES ASSUME Init PROVE BuildInv
    OBVIOUS
  <1>1. Shape
    BY DEF Init, Shape, BuilderFields
  <1>2. ASSUME NEW b \in Builders PROVE Placed(b) /\ Progress(b)
    <2>1. builder[b].pc = "start" /\ builder[b].at = 0
      BY DEF Init
    <2>2. TempPathFor(b) \notin DOMAIN dir /\ \A n \in DOMAIN dir : dir[n] # b
      BY CacheAssumption, TempNames DEF Init
    <2> QED  BY <2>1, <2>2 DEF Placed, Progress
  <1>3. PathsHoldWholeBuilds
    BY CacheAssumption DEF Init, PathsHoldWholeBuilds
  <1> QED  BY <1>1, <1>2, <1>3 DEF BuildInv

LEMMA NextBuildInv ==
  BuildInv /\ [Next]_cvars => BuildInv'
  <1> SUFFICES ASSUME BuildInv, [Next]_cvars PROVE BuildInv'
    OBVIOUS
  <1>1. ASSUME NEW b \in Builders,
               \/ Encode(b) \/ OpenTemp(b) \/ OpenTempFails(b) \/ WriteAll(b) \/ WriteFails(b)
               \/ Close(b) \/ Rename(b) \/ RenameFails(b) \/ Kill(b) \/ MemoryFlip(b)
        PROVE  BuildInv'
    BY <1>1, EncodeInv, OpenTempInv, OpenTempFailsInv, WriteAllInv, WriteFailsInv, CloseInv,
       RenameInv, RenameFailsInv, KillInv, MemoryFlipInv
  <1>2. ASSUME NEW r \in Readers,
               \/ ListFiles(r) \/ ScanFile(r) \/ ScanDone(r) \/ OpenFile(r) \/ OpenSections(r)
               \/ OpenCifp(r) \/ FetchAll(r) \/ Fetch(r)
        PROVE  BuildInv'
    <2>1. UNCHANGED bvars
      BY <1>2, Zenon DEF bvars, Becomes, ListFiles, ScanFile, ScanDone, OpenFile, OpenSections,
                  OpenCifp, FetchAll, Fetch
    <2> QED  BY <2>1, UnchangedBuildInv
  <1>3. ASSUME NEW f \in DOMAIN disk, PowerLoss(f) \/ BitRot(f)
        PROVE  BuildInv'
    BY <1>3, PowerLossInv, BitRotInv
  <1>4. CASE UNCHANGED cvars
    BY <1>4, UnchangedBuildInv DEF cvars, bvars
  <1> QED  BY <1>1, <1>2, <1>3, <1>4 DEF Next

LEMMA BuildInvariant == Spec => []BuildInv
  BY InitBuildInv, NextBuildInv, PTL DEF Spec

\* No reader of the directory ever meets a half-written .bfdb at its path:
\* whatever fails, is killed or races, and however often, a path names the
\* whole file of one build or a file that was damaged after it was written
\* (UnifiedCache::Build, unified_cache.cc:277-316).
THEOREM PathsAreWhole == Spec => []PathsHoldWholeBuilds
  <1>1. BuildInv => PathsHoldWholeBuilds
    BY DEF BuildInv
  <1> QED  BY <1>1, BuildInvariant, PTL

\* discard_tmp runs on every error path after the temporary file exists: a
\* build that reports failure has no file in the directory, one that reports
\* success none under its temporary name (unified_cache.cc:283-316).
THEOREM FailuresCleanUp == Spec => []FailedBuildLeavesNoTrace
  <1>1. BuildInv => FailedBuildLeavesNoTrace
    BY DEF BuildInv, Placed, FailedBuildLeavesNoTrace, Range
  <1> QED  BY <1>1, BuildInvariant, PTL

----------------------------------------------------------------------------
(* The scan.                                                               *)

ReaderFields == {"pc", "listed", "entries", "seen", "file", "front", "eager", "index", "procs",
                 "refused", "error"}
IsEntry(e) == e = [path |-> e.path, cycle |-> e.cycle]

\* ScanListsEveryCycle of one reader.
Lists(entries, seen) ==
    /\ {e.cycle : e \in entries} = {e.cycle : e \in seen}
    /\ \A e1, e2 \in entries : e1.cycle = e2.cycle => e1 = e2
    /\ \A e \in seen : Canonical(e) => e \in entries

ScanInv ==
    /\ DOMAIN reader = Readers
    /\ \A r \in Readers :
          /\ DOMAIN reader[r] = ReaderFields
          /\ \A e \in reader[r].entries : IsEntry(e)
          /\ Lists(reader[r].entries, reader[r].seen)

\* Two entries named for the same cycle are the same file.
LEMMA CanonicalIsUnique ==
  ASSUME NEW e, NEW x, IsEntry(e), IsEntry(x), e.cycle = x.cycle, Canonical(e), Canonical(x)
  PROVE  e = x
  BY DEF IsEntry, Canonical

LEMMA BestLists ==
  ASSUME NEW entries, NEW seen, NEW e, IsEntry(e), \A x \in entries : IsEntry(x),
         Lists(entries, seen)
  PROVE  /\ Lists(Best(entries, e), seen \union {e})
         /\ \A x \in Best(entries, e) : IsEntry(x)
  <1> DEFINE same == {x \in entries : x.cycle = e.cycle}
             cycles(S) == {x.cycle : x \in S}
  <1>1. cycles(seen \union {e}) = cycles(seen) \union {e.cycle}
    OBVIOUS
  <1>2. CASE same = {}
    <2>1. Best(entries, e) = entries \union {e}
      BY <1>2 DEF Best
    <2> QED  BY <1>2, <2>1, SMTT(40) DEF Lists
  <1>3. CASE same # {} /\ Canonical(e) /\ \A x \in same : ~Canonical(x)
    <2>1. Best(entries, e) = (entries \ same) \union {e}
      BY <1>3 DEF Best
    <2>2. cycles(entries) = cycles((entries \ same) \union {e})
      BY <1>3
    <2>3. e.cycle \in cycles(seen)
      BY <1>3 DEF Lists
    <2>4. cycles((entries \ same) \union {e}) = cycles(seen \union {e})
      BY <1>1, <2>2, <2>3 DEF Lists
    <2>5. \A e1, e2 \in (entries \ same) \union {e} : e1.cycle = e2.cycle => e1 = e2
      BY DEF Lists
    <2>6. \A x \in seen \union {e} : Canonical(x) => x \in (entries \ same) \union {e}
      BY <1>3 DEF Lists
    <2> QED  BY <2>1, <2>4, <2>5, <2>6 DEF Lists
  <1>4. CASE same # {} /\ ~(Canonical(e) /\ \A x \in same : ~Canonical(x))
    <2>1. Best(entries, e) = entries
      BY <1>4 DEF Best
    <2>2. e.cycle \in cycles(seen)
      BY <1>4 DEF Lists
    <2>3. cycles(entries) = cycles(seen \union {e})
      BY <1>1, <2>2 DEF Lists
    <2>4. Canonical(e) => e \in entries
      BY <1>4, CanonicalIsUnique
    <2> QED  BY <2>1, <2>3, <2>4 DEF Lists
  <1> QED  BY <1>2, <1>3, <1>4

\* A reader's step, as far as the scan's result goes.
LEMMA ReaderStep ==
  ASSUME ScanInv, NEW r \in Readers, NEW rec, Becomes(r, rec), DOMAIN rec = ReaderFields,
         \A e \in rec.entries : IsEntry(e), Lists(rec.entries, rec.seen)
  PROVE  ScanInv'
  <1>1. /\ DOMAIN reader' = Readers /\ reader'[r] = rec
        /\ \A q \in Readers : q # r => reader'[q] = reader[q]
    BY DEF ScanInv, Becomes
  <1> QED  BY <1>1 DEF ScanInv

LEMMA ScanFileInv ==
  ASSUME ScanInv, NEW r \in Readers, ScanFile(r)
  PROVE  ScanInv'
  <1> DEFINE me == reader[r]
             name == Head(me.listed)
             ws == disk[dir[name]]
             e == [path |-> name, cycle |-> HeaderAt(ws).cycle]
             next == [me EXCEPT !.listed = Tail(@)]
  <1>1. /\ DOMAIN me = ReaderFields /\ \A x \in me.entries : IsEntry(x)
        /\ Lists(me.entries, me.seen)
    BY DEF ScanInv
  <1>2. DOMAIN next = ReaderFields /\ next.entries = me.entries /\ next.seen = me.seen
    BY <1>1 DEF ReaderFields
  <1>3. CASE IsBfdbName(name) /\ ReadHeaderOk(ws)
    <2>1. PICK rec : rec = [next EXCEPT !.entries = Best(@, e), !.seen = @ \union {e}]
      BY Zenon
    <2>2. Becomes(r, rec)
      BY <1>3, <2>1, Zenon DEF ScanFile
    <2>3. IsEntry(e)
      BY DEF IsEntry
    <2> HIDE DEF e, next
    <2>4. /\ DOMAIN rec = ReaderFields /\ rec.entries = Best(me.entries, e)
          /\ rec.seen = me.seen \union {e}
      BY <1>2, <2>1 DEF ReaderFields
    <2>5. /\ Lists(Best(me.entries, e), me.seen \union {e})
          /\ \A x \in Best(me.entries, e) : IsEntry(x)
      BY <1>1, <2>3, BestLists
    <2> QED  BY <2>2, <2>4, <2>5, ReaderStep
  <1>4. CASE ~(IsBfdbName(name) /\ ReadHeaderOk(ws))
    <2>1. Becomes(r, next)
      BY <1>4 DEF ScanFile
    <2> QED  BY <1>1, <1>2, <2>1, ReaderStep
  <1> QED  BY <1>3, <1>4

\* No other step of a reader changes what the scan found.
LEMMA AfterScanInv ==
  ASSUME ScanInv, NEW r \in Readers,
         \/ ListFiles(r) \/ ScanDone(r) \/ OpenFile(r) \/ OpenSections(r) \/ OpenCifp(r)
         \/ FetchAll(r) \/ Fetch(r)
  PROVE  ScanInv'
  <1> DEFINE me == reader[r]
             Same(rec) == /\ DOMAIN rec = ReaderFields
                          /\ rec.entries = me.entries /\ rec.seen = me.seen
  <1>1. /\ DOMAIN me = ReaderFields /\ \A e \in me.entries : IsEntry(e)
        /\ Lists(me.entries, me.seen)
    BY DEF ScanInv
  <1>2. SUFFICES \E rec : Becomes(r, rec) /\ Same(rec)
    BY <1>1, ReaderStep
  <1>3. \A v : /\ Same([me EXCEPT !.pc = v]) /\ Same([me EXCEPT !.refused = v])
               /\ Same([me EXCEPT !.procs = v])
    BY <1>1 DEF ReaderFields
  <1>4. \A v, w : /\ Same([me EXCEPT !.pc = v, !.listed = w])
                  /\ Same([me EXCEPT !.pc = v, !.eager = w])
                  /\ Same([me EXCEPT !.pc = v, !.error = w])
                  /\ Same([me EXCEPT !.pc = v, !.index = w])
                  /\ Same([me EXCEPT !.pc = v, !.procs = w])
    BY <1>1 DEF ReaderFields
  <1>5. \A v, w, x : /\ Same([me EXCEPT !.pc = v, !.file = w, !.front = x])
                     /\ Same([me EXCEPT !.pc = v, !.file = w, !.error = x])
    BY <1>1 DEF ReaderFields
  <1> HIDE DEF Same
  <1>6. CASE ListFiles(r)
    <2>1. PICK w : Becomes(r, [me EXCEPT !.pc = "scan", !.listed = w])
      BY <1>6, Zenon DEF ListFiles
    <2> QED BY <2>1, <1>4, Zenon
  <1>7. CASE ScanDone(r)
    BY <1>3, <1>7 DEF ScanDone
  <1>8. CASE OpenFile(r)
    <2>1. PICK w, x : \/ Becomes(r, [me EXCEPT !.pc = "front", !.file = w, !.front = x])
                      \/ Becomes(r, [me EXCEPT !.pc = "failed", !.file = w, !.error = x])
      <3>1. PICK e \in me.entries :
               Becomes(r, IF OpenHeader(disk[dir[e.path]]) = "ok"
                          THEN [me EXCEPT !.pc = "front", !.file = dir[e.path],
                                          !.front = FileFront(disk[dir[e.path]])]
                          ELSE [me EXCEPT !.pc = "failed", !.file = dir[e.path],
                                          !.error = OpenHeader(disk[dir[e.path]])])
        BY <1>8, Zenon DEF OpenFile
      <3> QED BY <3>1, Zenon
    <2> QED BY <2>1, <1>5, Zenon
  <1>9. CASE OpenSections(r)
    BY <1>4, <1>9, Zenon DEF OpenSections
  <1>10. CASE OpenCifp(r)
    BY <1>3, <1>4, <1>10, Zenon DEF OpenCifp
  <1>11. CASE FetchAll(r)
    BY <1>4, <1>11, Zenon DEF FetchAll
  <1>12. CASE Fetch(r)
    BY <1>3, <1>12 DEF Fetch
  <1> QED  BY <1>6, <1>7, <1>8, <1>9, <1>10, <1>11, <1>12

LEMMA InitScanInv ==
  Init => ScanInv
  BY DEF Init, ScanInv, Idle, ReaderFields, Lists

LEMMA NextScanInv ==
  ScanInv /\ [Next]_cvars => ScanInv'
  <1> SUFFICES ASSUME ScanInv, [Next]_cvars PROVE ScanInv'
    OBVIOUS
  <1>1. ASSUME UNCHANGED reader PROVE ScanInv'
    BY <1>1 DEF ScanInv
  <1>2. ASSUME NEW b \in Builders,
               \/ Encode(b) \/ OpenTemp(b) \/ OpenTempFails(b) \/ WriteAll(b) \/ WriteFails(b)
               \/ Close(b) \/ Rename(b) \/ RenameFails(b) \/ Kill(b) \/ MemoryFlip(b)
        PROVE  UNCHANGED reader
    BY <1>2, Zenon DEF Encode, OpenTemp, OpenTempFails, WriteAll, WriteFails, Close, Rename,
                RenameFails, Kill, MemoryFlip
  <1>3. ASSUME NEW f \in DOMAIN disk, PowerLoss(f)
        PROVE  ScanInv'
    BY <1>3 DEF PowerLoss, ScanInv, Idle, ReaderFields, Lists
  <1>4. ASSUME NEW f \in DOMAIN disk, BitRot(f)
        PROVE  UNCHANGED reader
    BY <1>4 DEF BitRot
  <1>5. CASE UNCHANGED cvars
    BY <1>1, <1>5 DEF cvars
  <1> QED  BY <1>1, <1>2, <1>3, <1>4, <1>5, ScanFileInv, AfterScanInv DEF Next

LEMMA ScanInvariant == Spec => []ScanInv
  BY InitScanInv, NextScanInv, PTL DEF Spec

\* BfdbInventory::Scan, whatever is renamed, rots or is torn while it walks
\* the listing: each readable cycle is listed once, and under the file named
\* for it when the scan met that one, wherever it came in the listing
\* (bfdb_inventory.cc:35-58).
THEOREM ScanIsRight == Spec => []ScanListsEveryCycle
  <1>1. ScanInv => ScanListsEveryCycle
    BY DEF ScanInv, Lists, ScanListsEveryCycle
  <1> QED  BY <1>1, ScanInvariant, PTL

----------------------------------------------------------------------------
(* What Open accepts.                                                      *)

\* A slice has the length that was asked for, whatever lies there.
LEMMA SliceLen ==
  ASSUME NEW ws, NEW at \in Int, NEW n \in Nat
  PROVE  Len(Slice(ws, at, n)) = n
  <1>1. SubSeq(ws, at + 1, at + n) = [i \in 1 .. n |-> ws[i + (at + 1) - 1]]
    OBVIOUS
  <1>2. \A f : Len([i \in 1 .. n |-> f[i + (at + 1) - 1]]) = n
    OBVIOUS
  <1> QED  BY <1>1, <1>2 DEF Slice

\* The members of a sequence given by its elements.
LEMMA MembersOf ==
  ASSUME NEW n \in Nat, NEW s, DOMAIN s = 1 .. n
  PROVE  ToSet(s) = {s[i] : i \in 1 .. n}
  BY DEF ToSet

\* GraphCodec::Decode's checks say of the section's words what Encode's say
\* of a graph: what passes them decodes to a graph whose numbers Encode would
\* accept, whatever the words are.
LEMMA DecodableIsInRange ==
  ASSUME NEW ws, NEW blob, GraphDecodable(ws, blob)
  PROVE  GraphInRange(GraphDecode(ws, blob))
  <1> DEFINE L == GraphLayout(ws)
             g == GraphDecode(ws, blob)
             kind(i) == Word(ws, 4 + i * VertexWords)
             edge(i) == EdgeAt(ws, L.edge + i * EdgeWords)
  <1>1. /\ L.v \in Nat /\ L.e \in Nat /\ L.a \in Nat /\ L.first \in 0 .. L.v
        /\ CsrOk(Slice(ws, L.offs, L.v + 1), L.e)
        /\ \A i \in 0 .. L.e - 1 : EdgeOk(edge(i), L.v, L.a)
        /\ \A i \in 1 .. L.v : VertexKind(kind(i))
    BY DEF GraphDecodable, GraphCountsFit, GraphValuesOk
  <1>2. L.elev \in Int /\ L.offs \in Int
    <2>1. L.elev = 5 + L.v * VertexWords /\ L.offs = L.elev + L.v - L.first
      BY DEF GraphLayout
    <2> QED  BY <1>1, <2>1 DEF VertexWords
  <1>3. /\ g.coords = [i \in 1 .. L.v |-> Word(ws, 5 + (i - 1) * VertexWords)]
        /\ g.idents = [i \in 1 .. L.v |-> IdentAt(blob, ws, 5 + (i - 1) * VertexWords + 1)]
        /\ g.flags = [i \in 1 .. L.v |-> Word(ws, 5 + (i - 1) * VertexWords + 5)]
        /\ g.kinds = [i \in 1 .. L.v |-> Word(ws, 5 + (i - 1) * VertexWords + 6)]
        /\ g.first = L.first
        /\ g.elevations = Slice(ws, L.elev, L.v - L.first)
        /\ g.offsets = Slice(ws, L.offs, L.v + 1)
        /\ g.edges = [i \in 1 .. L.e |-> EdgeAt(ws, L.edge + (i - 1) * EdgeWords)]
        /\ g.airways = [i \in 1 .. L.a |-> Text(blob, ws, L.airway + (i - 1) * AirwayWords)]
    BY DEF GraphDecode
  <1> HIDE DEF L, g
  <1>4. /\ Len(g.coords) = L.v /\ Len(g.idents) = L.v /\ Len(g.flags) = L.v
        /\ Len(g.kinds) = L.v /\ Len(g.edges) = L.e /\ Len(g.airways) = L.a
    BY <1>1, <1>3
  <1>5. Len(g.elevations) = L.v - L.first /\ Len(g.offsets) = L.v + 1
    BY <1>1, <1>2, <1>3, SliceLen
  <1>6. \A k \in ToSet(g.kinds) : VertexKind(k)
    <2>1. \A i \in 1 .. L.v : g.kinds[i] = kind(i)
      <3>1. \A i \in 1 .. L.v : 5 + (i - 1) * VertexWords + 6 = 4 + i * VertexWords
        BY <1>1 DEF VertexWords
      <3> QED  BY <1>3, <3>1
    <2>2. DOMAIN g.kinds = 1 .. L.v
      BY <1>3
    <2>3. ToSet(g.kinds) = {g.kinds[i] : i \in 1 .. L.v}
      BY <1>1, <2>2, MembersOf
    <2> QED  BY <1>1, <2>1, <2>3
  <1>7. \A x \in ToSet(g.edges) : EdgeOk(x, L.v, L.a)
    <2>1. \A i \in 1 .. L.e : g.edges[i] = edge(i - 1) /\ i - 1 \in 0 .. L.e - 1
      BY <1>1, <1>3
    <2>2. DOMAIN g.edges = 1 .. L.e
      BY <1>3
    <2>3. ToSet(g.edges) = {g.edges[i] : i \in 1 .. L.e}
      BY <1>1, <2>2, MembersOf
    <2> QED  BY <1>1, <2>1, <2>3
  <1>8. {Len(g.idents), Len(g.flags), Len(g.kinds), Len(g.offsets) - 1} = {Len(g.coords)}
    BY <1>1, <1>4, <1>5
  <1>9. /\ g.first \in 0 .. Len(g.coords)
        /\ Len(g.elevations) = Len(g.coords) - g.first
        /\ CsrOk(g.offsets, Len(g.edges))
    BY <1>1, <1>3, <1>4, <1>5
  <1>10. \A x \in ToSet(g.edges) : EdgeOk(x, Len(g.coords), Len(g.airways))
    BY <1>4, <1>7
  <1> HIDE DEF kind, edge
  <1> QED  BY <1>6, <1>8, <1>9, <1>10 DEF GraphInRange, g

\* OpenSections is the only step that fills in what a reader decoded.
LEMMA NextIndexable ==
  ScanInv /\ DecodedIsIndexable /\ [Next]_cvars => DecodedIsIndexable'
  <1> SUFFICES ASSUME ScanInv, DecodedIsIndexable, [Next]_cvars PROVE DecodedIsIndexable'
    OBVIOUS
  <1>1. ASSUME UNCHANGED reader PROVE DecodedIsIndexable'
    BY <1>1 DEF DecodedIsIndexable
  <1>2. ASSUME NEW r \in Readers, NEW rec, Becomes(r, rec),
               rec.eager = reader[r].eager \/ GraphInRange(rec.eager.graph)
        PROVE  DecodedIsIndexable'
    <2>1. reader'[r] = rec /\ \A q \in Readers : q # r => reader'[q] = reader[q]
      BY <1>2 DEF Becomes, ScanInv
    <2> QED  BY <1>2, <2>1 DEF DecodedIsIndexable
  <1>3. ASSUME NEW r \in Readers,
               \/ ListFiles(r) \/ ScanFile(r) \/ ScanDone(r) \/ OpenFile(r) \/ OpenCifp(r)
               \/ FetchAll(r) \/ Fetch(r)
        PROVE  DecodedIsIndexable'
    <2> DEFINE me == reader[r]
               Same(rec) == rec.eager = me.eager
    <2>1. DOMAIN me = ReaderFields
      BY DEF ScanInv
    <2>2. SUFFICES \E rec : Becomes(r, rec) /\ Same(rec)
      BY <1>2
    <2>3. \A v : /\ Same([me EXCEPT !.pc = v]) /\ Same([me EXCEPT !.refused = v])
                 /\ Same([me EXCEPT !.procs = v]) /\ Same([me EXCEPT !.listed = v])
      BY <2>1 DEF ReaderFields
    <2>4. \A v, w : /\ Same([me EXCEPT !.pc = v, !.listed = w])
                    /\ Same([me EXCEPT !.pc = v, !.error = w])
                    /\ Same([me EXCEPT !.pc = v, !.index = w])
                    /\ Same([me EXCEPT !.pc = v, !.procs = w])
      BY <2>1 DEF ReaderFields
    <2>5. \A v, w, x : /\ Same([me EXCEPT !.pc = v, !.file = w, !.front = x])
                       /\ Same([me EXCEPT !.pc = v, !.file = w, !.error = x])
                       /\ Same([[me EXCEPT !.listed = v] EXCEPT !.entries = w, !.seen = x])
      BY <2>1 DEF ReaderFields
    <2> HIDE DEF Same
    <2>6. CASE ListFiles(r)
      <3>1. PICK w : Becomes(r, [me EXCEPT !.pc = "scan", !.listed = w])
        BY <2>6, Zenon DEF ListFiles
      <3> QED  BY <3>1, <2>4, Zenon
    <2>7. CASE ScanFile(r)
      <3>1. PICK v, w, x : \/ Becomes(r, [[me EXCEPT !.listed = v] EXCEPT !.entries = w, !.seen = x])
                           \/ Becomes(r, [me EXCEPT !.listed = v])
        BY <2>7, Zenon DEF ScanFile
      <3> QED  BY <3>1, <2>3, <2>5, Zenon
    <2>8. CASE ScanDone(r)
      BY <2>3, <2>8 DEF ScanDone
    <2>9. CASE OpenFile(r)
      <3>1. PICK e \in me.entries :
               Becomes(r, IF OpenHeader(disk[dir[e.path]]) = "ok"
                          THEN [me EXCEPT !.pc = "front", !.file = dir[e.path],
                                          !.front = FileFront(disk[dir[e.path]])]
                          ELSE [me EXCEPT !.pc = "failed", !.file = dir[e.path],
                                          !.error = OpenHeader(disk[dir[e.path]])])
        BY <2>9, Zenon DEF OpenFile
      <3>2. PICK w, x : \/ Becomes(r, [me EXCEPT !.pc = "front", !.file = w, !.front = x])
                        \/ Becomes(r, [me EXCEPT !.pc = "failed", !.file = w, !.error = x])
        BY <3>1, Zenon
      <3> QED  BY <3>2, <2>5, ZenonT(60)
    <2>10. CASE OpenCifp(r)
      BY <2>3, <2>4, <2>10, Zenon DEF OpenCifp
    <2>11. CASE FetchAll(r)
      BY <2>4, <2>11, Zenon DEF FetchAll
    <2>12. CASE Fetch(r)
      BY <2>3, <2>12 DEF Fetch
    <2> QED  BY <1>3, <2>6, <2>7, <2>8, <2>9, <2>10, <2>11, <2>12
  <1>4. ASSUME NEW r \in Readers, OpenSections(r)
        PROVE  DecodedIsIndexable'
    <2> DEFINE me == reader[r]
               ws == disk[me.file]
    <2>1. DOMAIN me = ReaderFields
      BY DEF ScanInv
    <2>2. CASE SectionsSound(ws, me.front)
      <3> DEFINE body == BodyOf(ws, me.front.graph)
      <3>1. PICK d : d = Eager(ws, me.front)
        OBVIOUS
      <3>2. Becomes(r, [me EXCEPT !.pc = "cifp", !.eager = d])
        BY <1>4, <2>2, <3>1, Zenon DEF OpenSections
      <3>3. d.graph = GraphDecode(body, me.front.pool)
        BY <3>1 DEF Eager
      <3>4. GraphInRange(d.graph)
        BY <2>2, <3>3, DecodableIsInRange DEF SectionsSound
      <3>5. [me EXCEPT !.pc = "cifp", !.eager = d].eager = d
        BY <2>1 DEF ReaderFields
      <3> QED  BY <1>2, <3>2, <3>4, <3>5
    <2>3. CASE ~SectionsSound(ws, me.front)
      <3>1. Becomes(r, [me EXCEPT !.pc = "failed", !.error = "kCacheCorrupt"])
        BY <1>4, <2>3, Zenon DEF OpenSections
      <3>2. [me EXCEPT !.pc = "failed", !.error = "kCacheCorrupt"].eager = me.eager
        BY <2>1 DEF ReaderFields
      <3> QED  BY <1>2, <3>1, <3>2
    <2> QED  BY <2>2, <2>3
  <1>5. ASSUME NEW b \in Builders,
               \/ Encode(b) \/ OpenTemp(b) \/ OpenTempFails(b) \/ WriteAll(b) \/ WriteFails(b)
               \/ Close(b) \/ Rename(b) \/ RenameFails(b) \/ Kill(b) \/ MemoryFlip(b)
        PROVE  DecodedIsIndexable'
    <2>1. UNCHANGED reader
      BY <1>5, Zenon DEF Encode, OpenTemp, OpenTempFails, WriteAll, WriteFails, Close, Rename,
                  RenameFails, Kill, MemoryFlip
    <2> QED  BY <1>1, <2>1
  <1>6. ASSUME NEW f \in DOMAIN disk, PowerLoss(f)
        PROVE  DecodedIsIndexable'
    BY <1>6 DEF PowerLoss, DecodedIsIndexable, Idle
  <1>7. ASSUME NEW f \in DOMAIN disk, BitRot(f)
        PROVE  DecodedIsIndexable'
    <2>1. UNCHANGED reader
      BY <1>7, Zenon DEF BitRot
    <2> QED  BY <1>1, <2>1
  <1>8. CASE UNCHANGED cvars
    BY <1>1, <1>8 DEF cvars
  <1> QED  BY <1>3, <1>4, <1>5, <1>6, <1>7, <1>8 DEF Next

\* A .bfdb whose checksums are right and whose graph section is wrong (a word
\* flipped in memory before its checksum was taken, a file made otherwise)
\* never reaches the search: a graph that Open hands out has offsets, edge
\* targets, airway indices and enumerations in range, which NavGraph and
\* GraphBuilder index with unchecked (graph_codec.cc:390-428).
THEOREM OpenedGraphIsIndexable == Spec => []DecodedIsIndexable
  <1>1. Init => DecodedIsIndexable
    BY DEF Init, DecodedIsIndexable, Idle
  <1>2. ScanInv /\ ScanInv' /\ DecodedIsIndexable /\ [Next]_cvars => DecodedIsIndexable'
    BY NextIndexable
  <1> QED  BY <1>1, <1>2, ScanInvariant, PTL DEF Spec
=============================================================================
