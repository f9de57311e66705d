----------------------------- MODULE McpProofs -----------------------------
(***************************************************************************)
(* Proofs about the two transports of the MCP server, for any requests,    *)
(* documents, lines and limits.  Over HTTP a request arrives in pieces cut *)
(* anywhere: AssemblyInv follows what the callbacks have made of them, and *)
(* gives HandledIsSent.  What a message is owed is what the dispatcher     *)
(* answers, in order and under the same ids; that gives HttpRepliesOwed    *)
(* and, with the number of lines read so far, StdioAnswersEveryLine.       *)
(***************************************************************************)
EXTENDS McpServer, SequenceTheorems, WellFoundedInduction, TLAPS

(***************************************************************************)
(* Sequences of sequences.                                                 *)
(***************************************************************************)
\* A set of naturals has a least element.
LEMMA LeastNat ==
  ASSUME NEW T \in SUBSET Nat, T # {}
  PROVE  \E m \in T : \A k \in T : m <= k
  <1>1. PICK x \in T : \A y \in T : ~(<<y, x>> \in OpToRel(<, Nat))
    BY WFMin, NatLessThanWellFounded
  <1>2. \A y \in T : ~(y < x)
    BY <1>1 DEF OpToRel
  <1> QED BY <1>2

\* A set that holds zero and every successor of its elements holds all naturals.
LEMMA NatSetInduction ==
  ASSUME NEW S, 0 \in S, \A n \in Nat : n \in S => n + 1 \in S
  PROVE  Nat \subseteq S
  <1> SUFFICES ASSUME Nat \ S # {} PROVE FALSE
    OBVIOUS
  <1>1. PICK m \in Nat \ S : \A k \in Nat \ S : m <= k
    BY LeastNat
  <1>2. m # 0 /\ m - 1 \in Nat /\ (m - 1) + 1 = m
    BY <1>1
  <1>3. m - 1 \in S
    BY <1>1, <1>2
  <1> QED BY <1>1, <1>2, <1>3

\* The recursion that defines FlattenSeq.
IsFlat(f, s, n) == f = [i \in 1..n |-> IF i = 1 THEN s[i] ELSE f[i - 1] \o s[i]]

\* It has a solution for every length.
LEMMA FlatExists ==
  ASSUME NEW s, NEW n \in Nat
  PROVE  \E f : IsFlat(f, s, n)
  <1> DEFINE T == {k \in Nat : \E f : IsFlat(f, s, k)}
  <1>1. 0 \in T
    <2>1. IsFlat([i \in 1..0 |-> 0], s, 0)
      BY DEF IsFlat
    <2> QED BY <2>1
  <1>2. ASSUME NEW k \in Nat, k \in T PROVE k + 1 \in T
    <2>1. PICK f : IsFlat(f, s, k)
      BY <1>2
    <2> DEFINE g == [i \in 1..(k + 1) |->
                       IF i = k + 1 THEN IF i = 1 THEN s[i] ELSE f[k] \o s[i] ELSE f[i]]
    <2>2. ASSUME NEW i \in 1..(k + 1)
          PROVE  g[i] = IF i = 1 THEN s[i] ELSE g[i - 1] \o s[i]
      <3>1. CASE i = k + 1
        BY <3>1
      <3>2. CASE i # k + 1
        <4>1. i \in 1..k /\ g[i] = f[i] /\ (i # 1 => g[i - 1] = f[i - 1])
          BY <3>2
        <4>2. f[i] = IF i = 1 THEN s[i] ELSE f[i - 1] \o s[i]
          BY <2>1, <4>1 DEF IsFlat
        <4> QED BY <4>1, <4>2
      <3> QED BY <3>1, <3>2
    <2>3. IsFlat(g, s, k + 1)
      BY <2>2 DEF IsFlat
    <2> QED BY <2>3
  <1> HIDE DEF T
  <1>3. Nat \subseteq T
    BY <1>1, <1>2, NatSetInduction
  <1> QED BY <1>3 DEF T

\* Two solutions agree as far as the sequences do.
LEMMA FlatUnique ==
  ASSUME NEW n \in Nat, NEW m \in Nat, n <= m, NEW s, NEW t, NEW f, NEW g,
         IsFlat(f, s, n), IsFlat(g, t, m), \A i \in 1..n : s[i] = t[i],
         NEW k \in 1..n
  PROVE  f[k] = g[k]
  <1> DEFINE T == {i \in Nat : i \in 1..n => f[i] = g[i]}
  <1>1. 0 \in T
    OBVIOUS
  <1>2. ASSUME NEW i \in Nat, i \in T PROVE i + 1 \in T
    <2> SUFFICES ASSUME i + 1 \in 1..n PROVE f[i + 1] = g[i + 1]
      OBVIOUS
    <2> DEFINE j == i + 1
    <2>1. j \in 1..n /\ j \in 1..m /\ j - 1 = i /\ s[j] = t[j] /\ (j # 1 => i \in 1..n)
      OBVIOUS
    <2>2. f[j] = IF j = 1 THEN s[j] ELSE f[j - 1] \o s[j]
      BY <2>1 DEF IsFlat
    <2>3. g[j] = IF j = 1 THEN t[j] ELSE g[j - 1] \o t[j]
      BY <2>1 DEF IsFlat
    <2> HIDE DEF j
    <2>4. f[j] = g[j]
      BY <1>2, <2>1, <2>2, <2>3
    <2> QED BY <2>4 DEF j
  <1> HIDE DEF T
  <1>3. Nat \subseteq T
    BY <1>1, <1>2, NatSetInduction
  <1> QED BY <1>3 DEF T

\* FlattenSeq is the last element of a solution.
LEMMA FlatIs ==
  ASSUME NEW s, Len(s) \in Nat \ {0}
  PROVE  \E f : IsFlat(f, s, Len(s)) /\ FlattenSeq(s) = f[Len(s)]
  <1> DEFINE f == CHOOSE f : IsFlat(f, s, Len(s))
  <1>1. IsFlat(f, s, Len(s))
    BY FlatExists
  <1>2. FlattenSeq(s) = f[Len(s)]
    BY DEF FlattenSeq, IsFlat
  <1> QED BY <1>1, <1>2

\* Nothing put together is nothing.
LEMMA FlatEmpty == FlattenSeq(<<>>) = <<>>
  BY DEF FlattenSeq

\* One sequence more is appended to the others.
LEMMA FlatAppend ==
  ASSUME NEW S, NEW u \in Seq(Seq(S)), NEW x \in Seq(S)
  PROVE  FlattenSeq(Append(u, x)) = FlattenSeq(u) \o x
  <1> DEFINE v == Append(u, x)
             n == Len(u)
  <1>1. n \in Nat /\ Len(v) = n + 1 /\ v[n + 1] = x /\ \A i \in 1..n : v[i] = u[i]
    OBVIOUS
  <1>a. n = 0 => u = <<>>
    OBVIOUS
  <1> HIDE DEF n, v
  <1>2. PICK g : IsFlat(g, v, n + 1) /\ FlattenSeq(v) = g[n + 1]
    BY <1>1, FlatIs
  <1>3. g[n + 1] = IF n + 1 = 1 THEN x ELSE g[n] \o x
    <2>1. n + 1 \in 1..(n + 1) /\ (n + 1) - 1 = n
      BY <1>1
    <2>2. g[n + 1] = IF n + 1 = 1 THEN v[n + 1] ELSE g[(n + 1) - 1] \o v[n + 1]
      BY <1>2, <2>1 DEF IsFlat
    <2> QED BY <1>1, <2>1, <2>2
  <1>4. CASE n = 0
    <2>1. u = <<>> /\ FlattenSeq(u) = <<>>
      BY <1>a, <1>4, FlatEmpty
    <2>2. <<>> \o x = x
      OBVIOUS
    <2>3. FlattenSeq(v) = x
      BY <1>2, <1>3, <1>4
    <2> QED BY <2>1, <2>2, <2>3 DEF v
  <1>5. CASE n # 0
    <2>1. PICK f : IsFlat(f, u, n) /\ FlattenSeq(u) = f[n]
      BY <1>1, <1>5, FlatIs DEF n
    <2>2. f[n] = g[n]
      <3>1. n + 1 \in Nat /\ n <= n + 1 /\ n \in 1..n
        BY <1>1, <1>5
      <3> QED BY <1>1, <1>2, <2>1, <3>1, FlatUnique
    <2>3. FlattenSeq(v) = g[n] \o x
      BY <1>1, <1>2, <1>3, <1>5
    <2> QED BY <2>1, <2>2, <2>3 DEF v
  <1> QED BY <1>4, <1>5

\* The last element of a sequence that has one, split off.
LEMMA SplitLast ==
  ASSUME NEW S, NEW v \in Seq(Seq(S)), NEW k \in Nat, Len(v) = k + 1
  PROVE  /\ SubSeq(v, 1, k) \in Seq(Seq(S)) /\ v[k + 1] \in Seq(S)
         /\ Len(SubSeq(v, 1, k)) = k
         /\ v = Append(SubSeq(v, 1, k), v[k + 1])
  OBVIOUS

\* What is put together of sequences over S is one.
LEMMA FlatType ==
  ASSUME NEW S, NEW u \in Seq(Seq(S))
  PROVE  FlattenSeq(u) \in Seq(S)
  <1> DEFINE T == {k \in Nat : \A v \in Seq(Seq(S)) : Len(v) = k => FlattenSeq(v) \in Seq(S)}
  <1>1. 0 \in T
    <2>1. ASSUME NEW v \in Seq(Seq(S)), Len(v) = 0 PROVE FlattenSeq(v) \in Seq(S)
      <3>1. v = <<>>
        BY <2>1, EmptySeq
      <3> QED BY <3>1, FlatEmpty, EmptySeq
    <2> QED BY <2>1
  <1>2. ASSUME NEW k \in Nat, k \in T PROVE k + 1 \in T
    <2>1. ASSUME NEW v \in Seq(Seq(S)), Len(v) = k + 1 PROVE FlattenSeq(v) \in Seq(S)
      <3> DEFINE w == SubSeq(v, 1, k)
                 x == v[k + 1]
      <3>1. w \in Seq(Seq(S)) /\ x \in Seq(S) /\ Len(w) = k /\ v = Append(w, x)
        BY <2>1, SplitLast
      <3> HIDE DEF w, x
      <3>2. FlattenSeq(w) \in Seq(S)
        BY <1>2, <3>1
      <3>3. FlattenSeq(v) = FlattenSeq(w) \o x
        BY <3>1, FlatAppend
      <3> QED BY <3>1, <3>2, <3>3, ConcatProperties
    <2> QED BY <2>1
  <1> HIDE DEF T
  <1>3. Nat \subseteq T
    BY <1>1, <1>2, NatSetInduction
  <1>4. Len(u) \in T
    BY <1>3, LenProperties
  <1> QED BY <1>4 DEF T

\* Two lists of sequences, put together separately or at once.
LEMMA FlatConcat ==
  ASSUME NEW S, NEW u \in Seq(Seq(S)), NEW v \in Seq(Seq(S))
  PROVE  FlattenSeq(u \o v) = FlattenSeq(u) \o FlattenSeq(v)
  <1> DEFINE T == {k \in Nat : \A w \in Seq(Seq(S)) : Len(w) = k =>
                     FlattenSeq(u \o w) = FlattenSeq(u) \o FlattenSeq(w)}
  <1>0. FlattenSeq(u) \in Seq(S)
    BY FlatType
  <1>1. 0 \in T
    <2>1. ASSUME NEW w \in Seq(Seq(S)), Len(w) = 0
          PROVE  FlattenSeq(u \o w) = FlattenSeq(u) \o FlattenSeq(w)
      <3>1. w = <<>>
        BY <2>1, EmptySeq
      <3>2. u \o <<>> = u /\ FlattenSeq(u) \o <<>> = FlattenSeq(u)
        BY <1>0, ConcatEmptySeq
      <3> QED BY <3>1, <3>2, FlatEmpty
    <2> QED BY <2>1
  <1>2. ASSUME NEW k \in Nat, k \in T PROVE k + 1 \in T
    <2>1. ASSUME NEW w \in Seq(Seq(S)), Len(w) = k + 1
          PROVE  FlattenSeq(u \o w) = FlattenSeq(u) \o FlattenSeq(w)
      <3> DEFINE t == SubSeq(w, 1, k)
                 x == w[k + 1]
      <3>1. t \in Seq(Seq(S)) /\ x \in Seq(S) /\ Len(t) = k /\ w = Append(t, x)
        BY <2>1, SplitLast
      <3> HIDE DEF t, x
      <3>2. FlattenSeq(u \o t) = FlattenSeq(u) \o FlattenSeq(t)
        BY <1>2, <3>1
      <3>3. FlattenSeq(t) \in Seq(S)
        BY <3>1, FlatType
      <3>4. u \o t \in Seq(Seq(S)) /\ u \o w = Append(u \o t, x)
        <4>1. w = t \o <<x>> /\ <<x>> \in Seq(Seq(S))
          BY <3>1, AppendIsConcat
        <4>2. u \o t \in Seq(Seq(S))
          BY <3>1, ConcatProperties
        <4>3. Append(u \o t, x) = (u \o t) \o <<x>>
          BY <4>2, AppendIsConcat
        <4> DEFINE e == <<x>>
        <4>4. u \in Seq(Seq(S)) /\ t \in Seq(Seq(S)) /\ e \in Seq(Seq(S))
          BY <3>1, <4>1
        <4> HIDE DEF e
        <4>5. (u \o t) \o e = u \o (t \o e)
          BY <4>4, ConcatAssociative, SMTT(60)
        <4> QED BY <4>1, <4>2, <4>3, <4>5 DEF e
      <3>5. FlattenSeq(u \o w) = FlattenSeq(u \o t) \o x
        BY <3>1, <3>4, FlatAppend
      <3>6. FlattenSeq(w) = FlattenSeq(t) \o x
        BY <3>1, FlatAppend
      <3>7. (FlattenSeq(u) \o FlattenSeq(t)) \o x = FlattenSeq(u) \o (FlattenSeq(t) \o x)
        <4> DEFINE a == FlattenSeq(u)
                   b == FlattenSeq(t)
        <4>1. a \in Seq(S) /\ b \in Seq(S) /\ x \in Seq(S)
          BY <1>0, <3>1, <3>3
        <4> HIDE DEF a, b
        <4>2. (a \o b) \o x = a \o (b \o x)
          BY <4>1, ConcatAssociative, SMTT(60)
        <4> QED BY <4>2 DEF a, b
      <3> QED BY <3>2, <3>5, <3>6, <3>7
    <2> QED BY <2>1
  <1> HIDE DEF T
  <1>3. Nat \subseteq T
    BY <1>1, <1>2, NatSetInduction
  <1>4. Len(v) \in T
    BY <1>3, LenProperties
  <1> QED BY <1>4 DEF T

\* A single sequence is itself.
LEMMA FlatOne ==
  ASSUME NEW S, NEW x \in Seq(S)
  PROVE  FlattenSeq(<<x>>) = x
  <1>1. <<>> \in Seq(Seq(S)) /\ Append(<<>>, x) = <<x>> /\ <<>> \o x = x
    BY ConcatEmptySeq, EmptySeq
  <1>2. FlattenSeq(Append(<<>>, x)) = FlattenSeq(<<>>) \o x
    BY <1>1, FlatAppend
  <1> QED BY <1>1, <1>2, FlatEmpty

\* One sequence before the others.
LEMMA FlatCons ==
  ASSUME NEW S, NEW x \in Seq(S), NEW v \in Seq(Seq(S))
  PROVE  FlattenSeq(<<x>> \o v) = x \o FlattenSeq(v)
  <1>1. <<x>> \in Seq(Seq(S))
    OBVIOUS
  <1>2. FlattenSeq(<<x>> \o v) = FlattenSeq(<<x>>) \o FlattenSeq(v)
    BY <1>1, FlatConcat
  <1>3. FlattenSeq(<<x>>) = x
    BY FlatOne
  <1> QED BY <1>2, <1>3

(***************************************************************************)
(* The pieces of a request.                                                *)
(***************************************************************************)
\* A byte, a callback, and a piece: the text one callback is given.
Byte == HeadByte \cup BodyByte
Callbacks == {"begin", "url", "field", "value", "headers", "body", "complete"}
Piece == [cb : Callbacks, text : Seq(Byte)]
Of(cb, text) == [cb |-> cb, text |-> text]
\* The pieces of one header.
Cells(h) == <<Of("field", h.name), Of("value", h.value)>>

\* What is handed over for the headers hs, for the end of a request r, and
\* for r from the headers hs on.
CellsOf(hs) == FlattenSeq([i \in DOMAIN hs |-> Cells(hs[i])])
Ending(r) ==
  (IF r.body = <<>> THEN <<>> ELSE <<Of("body", r.body)>>) \o <<Of("complete", <<>>)>>
From(r, hs) == CellsOf(hs) \o (<<Of("headers", <<>>)>> \o Ending(r))

\* The bytes of a head and of a body are bytes.
LEMMA ByteText ==
  ASSUME NEW text
  PROVE  /\ text \in Seq(HeadByte) => text \in Seq(Byte)
         /\ text \in Seq(BodyByte) => text \in Seq(Byte)
  <1>1. HeadByte \subseteq Byte /\ BodyByte \subseteq Byte
    BY DEF Byte
  <1> QED BY <1>1, SeqMonotonic

\* What a request on the wire is made of.
LEMMA WireType ==
  ASSUME NEW r \in WireRequests
  PROVE  /\ r.url \in Seq(HeadByte) /\ r.headers \in Seq(HeaderPairs)
         /\ r.body \in Seq(BodyByte) /\ r.keepAlive \in BOOLEAN
         /\ r # Nothing
  <1>1. r.url \in Seq(HeadByte) /\ r.headers \in Seq(HeaderPairs)
        /\ r.body \in Seq(BodyByte) /\ r.keepAlive \in BOOLEAN
    BY DEF WireRequests
  <1>2. DOMAIN r = {"method", "url", "headers", "body", "keepAlive"}
    BY DEF WireRequests
  <1>3. DOMAIN Nothing = {"none"}
    BY DEF Nothing
  <1> QED BY <1>1, <1>2, <1>3

\* Of makes pieces.
LEMMA OfType ==
  ASSUME NEW cb \in Callbacks, NEW text \in Seq(Byte)
  PROVE  Of(cb, text) \in Piece /\ Of(cb, text).cb = cb /\ Of(cb, text).text = text
  BY DEF Of, Piece

\* The two pieces of a header.
LEMMA CellsType ==
  ASSUME NEW h \in HeaderPairs
  PROVE  /\ h.name \in Seq(HeadByte) /\ h.name # <<>> /\ h.value \in Seq(HeadByte)
         /\ Of("field", h.name) \in Piece /\ Of("value", h.value) \in Piece
         /\ Cells(h) \in Seq(Piece)
  <1>1. h.name \in Seq(HeadByte) /\ h.name # <<>> /\ h.value \in Seq(HeadByte)
    BY DEF HeaderPairs
  <1>2. h.name \in Seq(Byte) /\ h.value \in Seq(Byte)
    BY <1>1, ByteText
  <1>3. Of("field", h.name) \in Piece /\ Of("value", h.value) \in Piece
    BY <1>2, OfType DEF Callbacks
  <1> QED BY <1>1, <1>3 DEF Cells

\* Mapping a sequence.
Map(f, s) == [i \in DOMAIN s |-> f[s[i]]]
Maps(f, S, R) == f \in [S -> R]

\* Mapping a sequence keeps its length.
LEMMA MapType ==
  ASSUME NEW S, NEW R, NEW f, Maps(f, S, R), NEW s \in Seq(S)
  PROVE  Map(f, s) \in Seq(R) /\ Len(Map(f, s)) = Len(s)
  BY DEF Map, Maps

\* Mapping distributes over concatenation.
LEMMA MapConcat ==
  ASSUME NEW S, NEW R, NEW f, Maps(f, S, R), NEW s \in Seq(S), NEW t \in Seq(S)
  PROVE  Map(f, s \o t) = Map(f, s) \o Map(f, t)
  <1> DEFINE m == Map(f, s)
             k == Map(f, t)
             n == Map(f, s \o t)
  <1>1. m \in Seq(R) /\ Len(m) = Len(s) /\ k \in Seq(R) /\ Len(k) = Len(t)
    BY MapType
  <1>2. s \o t \in Seq(S) /\ Len(s \o t) = Len(s) + Len(t)
    OBVIOUS
  <1>3. n \in Seq(R) /\ Len(n) = Len(s) + Len(t)
    <2>0. \A z \in Seq(S) : Map(f, z) \in Seq(R) /\ Len(Map(f, z)) = Len(z)
      BY MapType
    <2>1. n \in Seq(R) /\ Len(n) = Len(s \o t)
      BY <1>2, <2>0
    <2> QED BY <1>2, <2>1
  <1>4. m \o k \in Seq(R) /\ Len(m \o k) = Len(s) + Len(t)
    <2> HIDE DEF m, k
    <2>1. m \o k \in Seq(R)
      BY <1>1, ConcatProperties
    <2>2. Len(m \o k) = Len(m) + Len(k)
      BY <1>1, ConcatProperties
    <2> QED BY <1>1, <2>1, <2>2
  <1>5. ASSUME NEW i \in 1..(Len(s) + Len(t)) PROVE n[i] = (m \o k)[i]
    <2>1. n[i] = f[(s \o t)[i]]
      BY <1>2 DEF Map
    <2>2. CASE i <= Len(s)
      <3>1. (s \o t)[i] = s[i] /\ (m \o k)[i] = m[i] /\ m[i] = f[s[i]]
        BY <1>1, <2>2 DEF Map
      <3> QED BY <2>1, <3>1
    <2>3. CASE ~(i <= Len(s))
      <3> DEFINE j == i - Len(s)
      <3>1. j \in 1..Len(t)
        BY <2>3
      <3>2. (s \o t)[i] = t[j]
        BY <2>3
      <3>3. (m \o k)[i] = k[j]
        <4> HIDE DEF m, k
        <4> QED BY <1>1, <2>3
      <3>4. k[j] = f[t[j]]
        BY <3>1 DEF Map
      <3> HIDE DEF j
      <3> QED BY <2>1, <3>2, <3>3, <3>4
    <2> QED BY <2>2, <2>3
  <1> HIDE DEF m, n, k
  <1>6. n = m \o k
    BY <1>3, <1>4, <1>5, SeqEqual
  <1> QED BY <1>6 DEF m, n, k

\* Lists of headers, and what is computed from them.
LEMMA HeadersType ==
  ASSUME NEW hs \in Seq(HeaderPairs)
  PROVE  [i \in DOMAIN hs |-> Cells(hs[i])] \in Seq(Seq(Piece))
  <1>1. \A i \in DOMAIN hs : Cells(hs[i]) \in Seq(Piece)
    <2>1. \A i \in DOMAIN hs : hs[i] \in HeaderPairs
      OBVIOUS
    <2> QED BY <2>1, CellsType
  <1> QED BY <1>1

\* No headers, no pieces.
LEMMA CellsEmpty == CellsOf(<<>>) = <<>>
  <1>1. [i \in DOMAIN <<>> |-> Cells(<<>>[i])] = <<>>
    OBVIOUS
  <1> QED BY <1>1, FlatEmpty DEF CellsOf

\* The pieces of a list of headers are pieces.
LEMMA CellsOfType ==
  ASSUME NEW hs \in Seq(HeaderPairs)
  PROVE  CellsOf(hs) \in Seq(Piece)
  BY HeadersType, FlatType DEF CellsOf

\* A list that begins with h begins with the pieces of h.
LEMMA CellsCons ==
  ASSUME NEW h \in HeaderPairs, NEW hs \in Seq(HeaderPairs)
  PROVE  CellsOf(<<h>> \o hs) = Cells(h) \o CellsOf(hs)
  <1> DEFINE all == <<h>> \o hs
             m == [i \in DOMAIN hs |-> Cells(hs[i])]
             n == [i \in DOMAIN all |-> Cells(all[i])]
  <1>1. m \in Seq(Seq(Piece)) /\ Len(m) = Len(hs)
    BY HeadersType
  <1>2. all \in Seq(HeaderPairs) /\ Len(all) = Len(hs) + 1
    OBVIOUS
  <1>3. n \in Seq(Seq(Piece)) /\ Len(n) = Len(hs) + 1
    <2>1. n \in Seq(Seq(Piece))
      BY <1>2, HeadersType
    <2> QED BY <1>2, <2>1
  <1>4. Cells(h) \in Seq(Piece)
    BY CellsType
  <1>5. <<Cells(h)>> \o m \in Seq(Seq(Piece)) /\ Len(<<Cells(h)>> \o m) = Len(hs) + 1
    BY <1>1, <1>4
  <1>6. ASSUME NEW i \in 1..(Len(hs) + 1) PROVE n[i] = (<<Cells(h)>> \o m)[i]
    <2>1. n[i] = Cells(all[i])
      BY <1>2
    <2>2. CASE i = 1
      BY <1>1, <1>4, <2>1, <2>2
    <2>3. CASE i # 1
      <3>1. all[i] = hs[i - 1] /\ i - 1 \in DOMAIN hs
        BY <2>3
      <3>2. (<<Cells(h)>> \o m)[i] = m[i - 1]
        BY <1>1, <1>4, <2>3
      <3>3. m[i - 1] = Cells(hs[i - 1])
        BY <3>1
      <3> QED BY <2>1, <3>1, <3>2, <3>3
    <2> QED BY <2>2, <2>3
  <1>7. n = <<Cells(h)>> \o m
    <2> HIDE DEF m, n
    <2> QED BY <1>3, <1>5, <1>6, SeqEqual
  <1>8. FlattenSeq(<<Cells(h)>> \o m) = Cells(h) \o FlattenSeq(m)
    <2> HIDE DEF m
    <2> QED BY <1>1, <1>4, FlatCons
  <1>9. CellsOf(all) = FlattenSeq(n) /\ CellsOf(hs) = FlattenSeq(m)
    BY DEF CellsOf
  <1> QED BY <1>7, <1>8, <1>9

\* A piece put before pieces, and taken off again.
LEMMA FirstRest ==
  ASSUME NEW S, NEW x \in S, NEW s \in Seq(S)
  PROVE  /\ <<x>> \o s \in Seq(S) /\ <<x>> \o s # <<>>
         /\ Head(<<x>> \o s) = x /\ Tail(<<x>> \o s) = s
  OBVIOUS

\* A pair of pieces is two sequences of one.
LEMMA PairIs ==
  ASSUME NEW S, NEW x \in S, NEW y \in S
  PROVE  /\ <<x>> \in Seq(S) /\ <<y>> \in Seq(S) /\ <<x, y>> \in Seq(S)
         /\ <<x, y>> = <<x>> \o <<y>>
  <1>1. <<x>> \in Seq(S) /\ <<y>> \in Seq(S) /\ <<x, y>> \in Seq(S)
    OBVIOUS
  <1>2. <<x>> \o <<y>> \in Seq(S) /\ Len(<<x>> \o <<y>>) = 2 /\ Len(<<x, y>>) = 2
    OBVIOUS
  <1>3. \A i \in 1..2 : <<x, y>>[i] = (<<x>> \o <<y>>)[i]
    OBVIOUS
  <1> QED BY <1>1, <1>2, <1>3, SeqEqual

\* The end of a request is pieces.
LEMMA EndingType ==
  ASSUME NEW r \in WireRequests
  PROVE  /\ Ending(r) \in Seq(Piece) /\ Of("complete", <<>>) \in Piece
         /\ Of("body", r.body) \in Piece /\ Of("headers", <<>>) \in Piece
         /\ <<Of("headers", <<>>)>> \o Ending(r) \in Seq(Piece)
  <1>1. r.body \in Seq(Byte) /\ <<>> \in Seq(Byte)
    BY WireType, ByteText
  <1>2. Of("complete", <<>>) \in Piece /\ Of("body", r.body) \in Piece
        /\ Of("headers", <<>>) \in Piece
    BY <1>1, OfType DEF Callbacks
  <1>3. Ending(r) \in Seq(Piece)
    BY <1>2 DEF Ending
  <1> QED BY <1>2, <1>3

\* So is the rest of a request.
LEMMA FromType ==
  ASSUME NEW r \in WireRequests, NEW hs \in Seq(HeaderPairs)
  PROVE  From(r, hs) \in Seq(Piece)
  <1>1. CellsOf(hs) \in Seq(Piece) /\ <<Of("headers", <<>>)>> \o Ending(r) \in Seq(Piece)
    BY CellsOfType, EndingType
  <1> QED BY <1>1, ConcatProperties DEF From

\* After the last header comes the callback that says so.
LEMMA FromEmpty ==
  ASSUME NEW r \in WireRequests
  PROVE  From(r, <<>>) = <<Of("headers", <<>>)>> \o Ending(r)
  <1>1. <<Of("headers", <<>>)>> \o Ending(r) \in Seq(Piece)
    BY EndingType
  <1> QED BY <1>1, CellsEmpty, ConcatEmptySeq DEF From

\* Before it, the name and the value of the next header.
LEMMA FromCons ==
  ASSUME NEW r \in WireRequests, NEW h \in HeaderPairs, NEW hs \in Seq(HeaderPairs)
  PROVE  From(r, <<h>> \o hs)
           = <<Of("field", h.name)>> \o (<<Of("value", h.value)>> \o From(r, hs))
  <1> DEFINE x == Of("field", h.name)
             y == Of("value", h.value)
             c == CellsOf(hs)
             e == <<Of("headers", <<>>)>> \o Ending(r)
  <1>1. x \in Piece /\ y \in Piece /\ c \in Seq(Piece) /\ e \in Seq(Piece)
    BY CellsType, CellsOfType, EndingType
  <1>2. CellsOf(<<h>> \o hs) = <<x, y>> \o c
    BY CellsCons DEF Cells
  <1>3. From(r, <<h>> \o hs) = (<<x, y>> \o c) \o e /\ From(r, hs) = c \o e
    BY <1>2 DEF From
  <1> HIDE DEF x, y, c, e
  <1>4. <<x, y>> = <<x>> \o <<y>> /\ <<x>> \in Seq(Piece) /\ <<y>> \in Seq(Piece)
        /\ <<x, y>> \in Seq(Piece) /\ c \o e \in Seq(Piece)
    BY <1>1, PairIs, ConcatProperties
  <1>5. (<<x, y>> \o c) \o e = <<x, y>> \o (c \o e)
    BY <1>1, <1>4, ConcatAssociative
  <1>6. (<<x>> \o <<y>>) \o (c \o e) = <<x>> \o (<<y>> \o (c \o e))
    BY <1>4, ConcatAssociative, SMTT(60)
  <1>7. From(r, <<h>> \o hs) = <<x>> \o (<<y>> \o From(r, hs))
    BY <1>3, <1>4, <1>5, <1>6
  <1> QED BY <1>7 DEF x, y

\* A whole request: its beginning, its URL, and the rest.
LEMMA SpansFrom ==
  ASSUME NEW r \in WireRequests
  PROVE  Spans(r) = <<Of("begin", <<>>)>> \o (<<Of("url", r.url)>> \o From(r, r.headers))
  <1> DEFINE x == Of("begin", <<>>)
             y == Of("url", r.url)
             c == CellsOf(r.headers)
             h == <<Of("headers", <<>>)>>
             b == IF r.body = <<>> THEN <<>> ELSE <<Of("body", r.body)>>
             e == <<Of("complete", <<>>)>>
  <1>1. r.url \in Seq(Byte) /\ <<>> \in Seq(Byte) /\ r.headers \in Seq(HeaderPairs)
    BY WireType, ByteText
  <1>2. x \in Piece /\ y \in Piece /\ c \in Seq(Piece) /\ h \in Seq(Piece)
        /\ b \in Seq(Piece) /\ e \in Seq(Piece)
    <2>1. x \in Piece /\ y \in Piece
      BY <1>1, OfType DEF Callbacks
    <2>2. c \in Seq(Piece)
      BY <1>1, CellsOfType
    <2> QED BY <2>1, <2>2, EndingType
  <1>3. Spans(r) = (((<<x, y>> \o c) \o h) \o b) \o e
    BY DEF Spans, CellsOf, Cells, Of
  <1>4. From(r, r.headers) = c \o (h \o (b \o e))
    BY DEF From, Ending
  <1> HIDE DEF x, y, c, h, b, e
  <1>5. <<x, y>> = <<x>> \o <<y>> /\ <<x>> \in Seq(Piece) /\ <<y>> \in Seq(Piece)
        /\ <<x, y>> \in Seq(Piece)
    BY <1>2, PairIs
  <1>6. (((<<x, y>> \o c) \o h) \o b) \o e = <<x, y>> \o (c \o (h \o (b \o e)))
    <2> DEFINE p == <<x, y>>
               q == p \o c
               k == q \o h
               j == b \o e
               i == h \o j
    <2>1. p \in Seq(Piece) /\ q \in Seq(Piece) /\ k \in Seq(Piece)
          /\ j \in Seq(Piece) /\ i \in Seq(Piece)
      BY <1>2, <1>5, ConcatProperties
    <2> HIDE DEF p, q, k, j, i
    <2>2. (k \o b) \o e = k \o (b \o e)
      <3>1. k \in Seq(Piece) /\ b \in Seq(Piece) /\ e \in Seq(Piece)
        BY <1>2, <2>1
      <3> QED BY <3>1, ConcatAssociative, SMTT(60)
    <2>3. (q \o h) \o j = q \o (h \o j)
      <3>1. q \in Seq(Piece) /\ h \in Seq(Piece) /\ j \in Seq(Piece)
        BY <1>2, <2>1
      <3> QED BY <3>1, ConcatAssociative, SMTT(60)
    <2>4. (p \o c) \o i = p \o (c \o i)
      <3>1. p \in Seq(Piece) /\ c \in Seq(Piece) /\ i \in Seq(Piece)
        BY <1>2, <2>1
      <3> QED BY <3>1, ConcatAssociative, SMTT(60)
    <2>5. ((p \o c) \o h) \o b = k \o b /\ q \o i = (p \o c) \o i
      BY DEF q, k
    <2>6. (k \o b) \o e = q \o i
      BY <2>2, <2>3 DEF k, j, i
    <2> QED BY <2>4, <2>5, <2>6 DEF p, i, j
  <1>7. (<<x>> \o <<y>>) \o From(r, r.headers) = <<x>> \o (<<y>> \o From(r, r.headers))
    BY <1>1, <1>5, FromType, ConcatAssociative
  <1>8. Spans(r) = <<x>> \o (<<y>> \o From(r, r.headers))
    BY <1>3, <1>4, <1>5, <1>6, <1>7
  <1> QED BY <1>8 DEF x, y

\* The bytes of a list of headers, and the list as it is stored.
Size(hs) == Len(FlattenSeq([i \in DOMAIN hs |-> hs[i].name \o hs[i].value]))
Lowered(h) == [name |-> Lower(h.name), value |-> h.value]
Low(hs) == [i \in DOMAIN hs |-> Lowered(hs[i])]

\* Size adds up the bytes of names and values.
LEMMA SizeFacts ==
  /\ Size(<<>>) = 0
  /\ \A hs \in Seq(HeaderPairs) : Size(hs) \in Nat
  /\ \A h \in HeaderPairs : Size(<<h>>) = Len(h.name) + Len(h.value)
  /\ \A s \in Seq(HeaderPairs), t \in Seq(HeaderPairs) : Size(s \o t) = Size(s) + Size(t)
  <1> DEFINE f == [h \in HeaderPairs |-> h.name \o h.value]
             m(hs) == Map(f, hs)
  <1>1. ASSUME NEW h \in HeaderPairs
        PROVE  /\ h.name \o h.value \in Seq(HeadByte)
               /\ Len(h.name \o h.value) = Len(h.name) + Len(h.value)
    <2>1. h.name \in Seq(HeadByte) /\ h.value \in Seq(HeadByte)
      BY CellsType
    <2> QED BY <2>1
  <1>2. Maps(f, HeaderPairs, Seq(HeadByte))
    BY <1>1 DEF Maps
  <1>3. ASSUME NEW hs \in Seq(HeaderPairs)
        PROVE  m(hs) \in Seq(Seq(HeadByte)) /\ Size(hs) = Len(FlattenSeq(m(hs)))
    <2>1. [i \in DOMAIN hs |-> hs[i].name \o hs[i].value] = m(hs)
      <3>1. \A i \in DOMAIN hs : f[hs[i]] = hs[i].name \o hs[i].value
        <4>1. \A i \in DOMAIN hs : hs[i] \in HeaderPairs
          OBVIOUS
        <4> QED BY <4>1
      <3> HIDE DEF f
      <3> QED BY <3>1 DEF Map
    <2>2. m(hs) \in Seq(Seq(HeadByte))
      <3> HIDE DEF f
      <3> QED BY <1>2, MapType
    <2> QED BY <2>1, <2>2 DEF Size
  <1>4. Size(<<>>) = 0
    <2>1. [i \in DOMAIN <<>> |-> <<>>[i].name \o <<>>[i].value] = <<>>
      OBVIOUS
    <2> QED BY <2>1, FlatEmpty DEF Size
  <1>5. ASSUME NEW hs \in Seq(HeaderPairs) PROVE Size(hs) \in Nat
    <2>1. FlattenSeq(m(hs)) \in Seq(HeadByte)
      <3> HIDE DEF f
      <3> QED BY <1>3, FlatType
    <2> QED BY <1>3, <2>1, LenProperties
  <1>6. ASSUME NEW h \in HeaderPairs PROVE Size(<<h>>) = Len(h.name) + Len(h.value)
    <2>1. [i \in DOMAIN <<h>> |-> <<h>>[i].name \o <<h>>[i].value] = <<h.name \o h.value>>
      <3> DEFINE x == h.name \o h.value
                 w == [i \in DOMAIN <<h>> |-> <<h>>[i].name \o <<h>>[i].value]
      <3>1. DOMAIN <<h>> = {1} /\ <<h>>[1] = h
        OBVIOUS
      <3>2. w = [i \in {1} |-> x]
        BY <3>1
      <3> HIDE DEF x, w
      <3>3. <<x>> = [i \in {1} |-> x]
        OBVIOUS
      <3> QED BY <3>2, <3>3 DEF x, w
    <2>2. FlattenSeq(<<h.name \o h.value>>) = h.name \o h.value
      BY <1>1, FlatOne
    <2>3. Size(<<h>>) = Len(h.name \o h.value)
      BY <2>1, <2>2 DEF Size
    <2> QED BY <1>1, <2>3
  <1>7. ASSUME NEW s \in Seq(HeaderPairs), NEW t \in Seq(HeaderPairs)
        PROVE  Size(s \o t) = Size(s) + Size(t)
    <2>1. m(s \o t) = m(s) \o m(t)
      <3> HIDE DEF f
      <3> QED BY <1>2, MapConcat
    <2>2. s \o t \in Seq(HeaderPairs)
      OBVIOUS
    <2> HIDE DEF m
    <2>3. FlattenSeq(m(s) \o m(t)) = FlattenSeq(m(s)) \o FlattenSeq(m(t))
      BY <1>3, FlatConcat
    <2>4. FlattenSeq(m(s)) \in Seq(HeadByte) /\ FlattenSeq(m(t)) \in Seq(HeadByte)
      BY <1>3, FlatType
    <2>5. Len(FlattenSeq(m(s)) \o FlattenSeq(m(t)))
            = Len(FlattenSeq(m(s))) + Len(FlattenSeq(m(t)))
      BY <2>4, ConcatProperties
    <2> QED BY <1>3, <2>1, <2>2, <2>3, <2>5
  <1> QED BY <1>4, <1>5, <1>6, <1>7

\* Low stores the headers one by one.
LEMMA LowFacts ==
  /\ Low(<<>>) = <<>>
  /\ \A d \in Seq(HeaderPairs), h \in HeaderPairs :
       Low(d \o <<h>>) = Append(Low(d), Lowered(h))
  <1> DEFINE f == [h \in HeaderPairs |-> Lowered(h)]
             R == {Lowered(h) : h \in HeaderPairs}
             m(hs) == Map(f, hs)
  <1>1. Maps(f, HeaderPairs, R)
    BY DEF Maps
  <1>2. ASSUME NEW hs \in Seq(HeaderPairs) PROVE Low(hs) = m(hs)
    BY DEF Low, Map
  <1>3. Low(<<>>) = <<>>
    BY DEF Low
  <1>4. ASSUME NEW d \in Seq(HeaderPairs), NEW h \in HeaderPairs
        PROVE  Low(d \o <<h>>) = Append(Low(d), Lowered(h))
    <2>1. <<h>> \in Seq(HeaderPairs) /\ d \o <<h>> \in Seq(HeaderPairs)
      OBVIOUS
    <2>2. m(d \o <<h>>) = m(d) \o m(<<h>>) /\ m(d) \in Seq(R)
      <3> DEFINE x == <<h>>
      <3> HIDE DEF f, R, x
      <3>1. x \in Seq(HeaderPairs)
        BY <2>1 DEF x
      <3>2. Map(f, d \o x) = Map(f, d) \o Map(f, x)
        BY <1>1, <3>1, MapConcat
      <3>3. Map(f, d) \in Seq(R)
        BY <1>1, MapType
      <3> QED BY <3>2, <3>3 DEF x
    <2>3. m(<<h>>) = <<Lowered(h)>> /\ Lowered(h) \in R
      BY DEF Map
    <2> HIDE DEF m, R
    <2>4. Append(m(d), Lowered(h)) = m(d) \o <<Lowered(h)>>
      BY <2>2, <2>3, AppendIsConcat
    <2> QED BY <1>2, <2>1, <2>2, <2>3, <2>4
  <1> QED BY <1>3, <1>4

(***************************************************************************)
(* How far a request r has been assembled.                                 *)
(***************************************************************************)
Chunked(d) == \E i \in DOMAIN d : Lower(d[i].name) = TransferEncoding
Expects(h) == Lower(h.name) = Expect /\ AsciiIeq(h.value, ContinueValue)

Fields == DOMAIN EmptyRequest

\* The URL, the headers d and the body so far are in.
Base(c, url, d, body) ==
  /\ DOMAIN c = Fields
  /\ c.url = url /\ c.body = body /\ c.headers = Low(d)
  /\ c.headerBytes = Size(d) /\ c.headerCount = Len(d)
  /\ c.sawTransferEncoding = Chunked(d)
  /\ c.pipelined = FALSE /\ c.forceClose = FALSE

\* What has arrived of the header after them, and whether its value is next.
Part(c, field, value, reading) ==
  c.field = field /\ c.value = value /\ c.readingValue = reading

\* The request is not complete, and refused with x or (None) not refused.
Open(c, x) == c.ready = FALSE /\ c.reject = x

\* They are within the caps.
Fits(r, d) ==
  /\ Len(r.url) <= MaxUrlBytes
  /\ Len(d) <= MaxHeaderCount
  /\ Size(d) <= MaxHeaderBytes
  /\ \A i \in DOMAIN d : ~Expects(d[i])

\* A request conforms when all of it is within the caps.
LEMMA ConformingIs ==
  ASSUME NEW r
  PROVE  Conforming(r) <=> /\ Fits(r, r.headers)
                           /\ ~Chunked(r.headers)
                           /\ Len(r.body) <= MaxBodyBytes
  BY DEF Conforming, Fits, Chunked, Size, Expects

\* What fits in whole fits in part.
LEMMA FitsPrefix ==
  ASSUME NEW r, NEW d \in Seq(HeaderPairs), NEW rest \in Seq(HeaderPairs),
         Fits(r, d \o rest)
  PROVE  Fits(r, d)
  <1>1. Size(d \o rest) = Size(d) + Size(rest) /\ Size(d) \in Nat /\ Size(rest) \in Nat
    BY SizeFacts
  <1>2. Size(d) <= MaxHeaderBytes
    <2>1. Size(d \o rest) <= MaxHeaderBytes
      BY DEF Fits
    <2> QED BY <1>1, <2>1, CapsAssumption
  <1>3. Len(d) <= MaxHeaderCount
    <2>1. Len(d \o rest) <= MaxHeaderCount /\ Len(d \o rest) = Len(d) + Len(rest)
      BY DEF Fits
    <2>2. Len(d) \in Nat /\ Len(rest) \in Nat
      OBVIOUS
    <2> QED BY <2>1, <2>2, CapsAssumption
  <1>4. \A i \in DOMAIN d : ~Expects(d[i])
    <2> SUFFICES ASSUME NEW i \in DOMAIN d PROVE ~Expects(d[i])
      OBVIOUS
    <2>1. i \in DOMAIN (d \o rest) /\ (d \o rest)[i] = d[i]
      OBVIOUS
    <2>2. ~Expects((d \o rest)[i])
      BY <2>1 DEF Fits
    <2> QED BY <2>1, <2>2
  <1>5. Len(r.url) <= MaxUrlBytes
    BY DEF Fits
  <1> QED BY <1>2, <1>3, <1>4, <1>5 DEF Fits

\* One header more: the caps, and what FinishHeaderPair makes of it.
Over(d) == Size(d) > MaxHeaderBytes \/ Len(d) > MaxHeaderCount
Refusal(d, h) == IF Expects(h) THEN 417 ELSE IF Over(d \o <<h>>) THEN 431 ELSE None

\* What one header more adds to what is counted.
LEMMA OneMore ==
  ASSUME NEW d \in Seq(HeaderPairs), NEW h \in HeaderPairs
  PROVE  /\ d \o <<h>> \in Seq(HeaderPairs)
         /\ Len(d \o <<h>>) = Len(d) + 1 /\ Len(d) \in Nat
         /\ Size(d \o <<h>>) = Size(d) + Len(h.name) + Len(h.value)
         /\ Size(d) \in Nat /\ Size(d \o <<h>>) \in Nat
         /\ Low(d \o <<h>>) = Append(Low(d), Lowered(h))
         /\ Chunked(d \o <<h>>) <=> (Chunked(d) \/ Lower(h.name) = TransferEncoding)
         /\ (\A i \in DOMAIN (d \o <<h>>) : ~Expects((d \o <<h>>)[i]))
              <=> ((\A i \in DOMAIN d : ~Expects(d[i])) /\ ~Expects(h))
  <1> DEFINE e == d \o <<h>>
  <1>1. e \in Seq(HeaderPairs) /\ Len(e) = Len(d) + 1 /\ Len(d) \in Nat
    OBVIOUS
  <1>2. <<h>> \in Seq(HeaderPairs) /\ Len(h.name) \in Nat /\ Len(h.value) \in Nat
    <2>1. h.name \in Seq(HeadByte) /\ h.value \in Seq(HeadByte)
      BY CellsType
    <2> QED BY <2>1
  <1>3. Size(e) = Size(d) + Len(h.name) + Len(h.value) /\ Size(d) \in Nat /\ Size(e) \in Nat
    <2>1. Size(e) = Size(d) + Size(<<h>>) /\ Size(d) \in Nat /\ Size(<<h>>) \in Nat
      BY <1>2, SizeFacts
    <2>2. Size(<<h>>) = Len(h.name) + Len(h.value)
      BY SizeFacts
    <2> DEFINE one == Size(<<h>>)
               name == Len(h.name)
               value == Len(h.value)
    <2>3. name \in Nat /\ value \in Nat /\ one = name + value
      BY <1>2, <2>2
    <2> HIDE DEF e, one, name, value
    <2>4. Size(e) = Size(d) + one
      BY <2>1 DEF one
    <2>5. Size(e) = Size(d) + name + value /\ Size(e) \in Nat
      BY <2>1, <2>3, <2>4
    <2> QED BY <2>1, <2>5 DEF name, value
  <1>4. Low(e) = Append(Low(d), Lowered(h))
    BY LowFacts
  <1>5. DOMAIN d = 1..Len(d) /\ DOMAIN e = 1..(Len(d) + 1) /\ e[Len(d) + 1] = h
        /\ \A i \in 1..Len(d) : e[i] = d[i]
    OBVIOUS
  <1> HIDE DEF e
  <1>6. \A i \in DOMAIN e : i = Len(d) + 1 \/ i \in DOMAIN d
    BY <1>1, <1>5
  <1>7. DOMAIN d \subseteq DOMAIN e /\ Len(d) + 1 \in DOMAIN e
    BY <1>1, <1>5
  <1>8. Chunked(e) <=> (Chunked(d) \/ Lower(h.name) = TransferEncoding)
    BY <1>5, <1>6, <1>7 DEF Chunked
  <1>9. (\A i \in DOMAIN e : ~Expects(e[i]))
          <=> ((\A i \in DOMAIN d : ~Expects(d[i])) /\ ~Expects(h))
    BY <1>5, <1>6, <1>7
  <1> QED BY <1>1, <1>3, <1>4, <1>8, <1>9 DEF e

\* It still fits exactly when it is not refused.
LEMMA FitsMore ==
  ASSUME NEW r, NEW d \in Seq(HeaderPairs), NEW h \in HeaderPairs, Fits(r, d)
  PROVE  Fits(r, d \o <<h>>) <=> Refusal(d, h) = None
  <1>1. Over(d \o <<h>>) <=> ~(Len(d \o <<h>>) <= MaxHeaderCount
                               /\ Size(d \o <<h>>) <= MaxHeaderBytes)
    <2>1. Len(d \o <<h>>) \in Nat /\ Size(d \o <<h>>) \in Nat
      BY OneMore
    <2> QED BY <2>1, CapsAssumption DEF Over
  <1>2. Refusal(d, h) = None <=> (~Expects(h) /\ ~Over(d \o <<h>>))
    BY DEF Refusal, None
  <1>3. (\A i \in DOMAIN (d \o <<h>>) : ~Expects((d \o <<h>>)[i])) <=> ~Expects(h)
    BY OneMore DEF Fits
  <1> QED BY <1>1, <1>2, <1>3 DEF Fits

\* The callbacks, by what they do to these.
LEMMA EmptyIs ==
  /\ Base(EmptyRequest, <<>>, <<>>, <<>>)
  /\ Part(EmptyRequest, <<>>, <<>>, FALSE)
  /\ Open(EmptyRequest, None)
  <1>1. Size(<<>>) = 0 /\ Len(<<>>) = 0 /\ Low(<<>>) = <<>>
    BY SizeFacts, LowFacts
  <1>2. Chunked(<<>>) = FALSE
    BY DEF Chunked
  <1>3. Base(EmptyRequest, <<>>, <<>>, <<>>)
    BY <1>1, <1>2 DEF Base, EmptyRequest, Fields
  <1> QED BY <1>3 DEF EmptyRequest, Part, Open

\* The fields of a connection's request.
LEMMA FieldNames ==
  {"url", "field", "value", "readingValue", "headerBytes", "headerCount",
   "sawTransferEncoding", "headers", "body", "ready", "keepAlive", "reject"} \subseteq Fields
  BY DEF Fields, EmptyRequest

\* A piece of the URL is appended, or is too much.
LEMMA UrlIs ==
  ASSUME NEW c, NEW got, NEW text,
         Base(c, got, <<>>, <<>>), Part(c, <<>>, <<>>, FALSE), Open(c, None)
  PROVE  /\ Base(OnUrl(c, text), got \o text, <<>>, <<>>)
         /\ Part(OnUrl(c, text), <<>>, <<>>, FALSE)
         /\ Open(OnUrl(c, text), IF Len(got \o text) > MaxUrlBytes THEN 414 ELSE None)
  BY FieldNames DEF OnUrl, Base, Part, Open

\* A finished header is taken over, counted and judged.
LEMMA FinishIs ==
  ASSUME NEW c, NEW url, NEW d \in Seq(HeaderPairs), NEW body, NEW h \in HeaderPairs, NEW b,
         Base(c, url, d, body), Part(c, h.name, h.value, b), Open(c, None)
  PROVE  /\ Base(FinishHeaderPair(c), url, d \o <<h>>, body)
         /\ Part(FinishHeaderPair(c), <<>>, <<>>, FALSE)
         /\ Open(FinishHeaderPair(c), Refusal(d, h))
  <1> DEFINE bytes == c.headerBytes + Len(c.field) + Len(c.value)
             count == c.headerCount + 1
             te == c.sawTransferEncoding \/ Lower(c.field) = TransferEncoding
             hs == Append(c.headers, [name |-> Lower(c.field), value |-> c.value])
             rj == IF Lower(c.field) = Expect /\ AsciiIeq(c.value, ContinueValue) THEN 417
                   ELSE IF bytes > MaxHeaderBytes \/ count > MaxHeaderCount
                        THEN 431 ELSE c.reject
             f == [c EXCEPT !.headerBytes = bytes, !.headerCount = count,
                            !.sawTransferEncoding = te, !.reject = rj, !.headers = hs,
                            !.field = <<>>, !.value = <<>>, !.readingValue = FALSE]
  <1>1. bytes = Size(d \o <<h>>) /\ count = Len(d \o <<h>>)
    BY OneMore DEF Base, Part
  <1>2. te = Chunked(d \o <<h>>)
    BY OneMore DEF Base, Part, Chunked
  <1>3. hs = Low(d \o <<h>>)
    BY OneMore DEF Base, Part, Lowered
  <1>4. rj = Refusal(d, h)
    <2>1. c.field = h.name /\ c.value = h.value /\ c.reject = None
      BY DEF Part, Open
    <2> HIDE DEF bytes, count
    <2>2. rj = IF Expects(h) THEN 417
               ELSE IF bytes > MaxHeaderBytes \/ count > MaxHeaderCount THEN 431 ELSE None
      BY <2>1 DEF Expects
    <2> QED BY <1>1, <2>2 DEF Refusal, Over
  <1>5. FinishHeaderPair(c) = f
    BY CellsType DEF FinishHeaderPair, Part
  <1> HIDE DEF bytes, count, te, hs, rj
  <1>6. f.url = c.url /\ f.body = c.body /\ f.headers = hs /\ f.headerBytes = bytes
        /\ f.headerCount = count /\ f.sawTransferEncoding = te /\ f.pipelined = c.pipelined
        /\ f.forceClose = c.forceClose /\ DOMAIN f = DOMAIN c
    BY FieldNames DEF Base
  <1>7. f.field = <<>> /\ f.value = <<>> /\ f.readingValue = FALSE /\ f.ready = c.ready
        /\ f.reject = rj
    BY FieldNames DEF Base
  <1> HIDE DEF f
  <1>8. Base(f, url, d \o <<h>>, body)
    BY <1>1, <1>2, <1>3, <1>6 DEF Base
  <1>9. Part(f, <<>>, <<>>, FALSE) /\ Open(f, Refusal(d, h))
    BY <1>4, <1>7 DEF Part, Open
  <1> QED BY <1>5, <1>8, <1>9

\* A piece of a name counts towards the bytes of the headers.
LEMMA FieldIs ==
  ASSUME NEW c, NEW url, NEW d, NEW body, NEW got, NEW text, NEW x,
         Base(c, url, d, body), Part(c, got, <<>>, FALSE), Open(c, x), Size(d) \in Nat
  PROVE  /\ Base(WithinBudget([c EXCEPT !.field = @ \o text]), url, d, body)
         /\ Part(WithinBudget([c EXCEPT !.field = @ \o text]), got \o text, <<>>, FALSE)
         /\ Open(WithinBudget([c EXCEPT !.field = @ \o text]),
                 IF x = None /\ Size(d) + Len(got \o text) + Len(<<>>) > MaxHeaderBytes
                 THEN 431 ELSE x)
  <1> DEFINE e == [c EXCEPT !.field = @ \o text]
  <1>1. Base(e, url, d, body) /\ Part(e, got \o text, <<>>, FALSE) /\ Open(e, x)
    BY FieldNames DEF Base, Part, Open
  <1> HIDE DEF e
  <1>2. HeaderBudgetExceeded(e) <=> Size(d) + Len(got \o text) + Len(<<>>) > MaxHeaderBytes
    BY <1>1 DEF HeaderBudgetExceeded, Base, Part
  <1>3. CASE e.reject = None /\ HeaderBudgetExceeded(e)
    <2> DEFINE f == [e EXCEPT !.reject = 431]
    <2>1. WithinBudget(e) = f
      BY <1>3 DEF WithinBudget
    <2>2. Base(f, url, d, body) /\ Part(f, got \o text, <<>>, FALSE) /\ Open(f, 431)
      BY <1>1, FieldNames DEF Base, Part, Open
    <2> QED BY <1>1, <1>2, <1>3, <2>1, <2>2, ZenonT(60) DEF e, Open
  <1>4. CASE ~(e.reject = None /\ HeaderBudgetExceeded(e))
    <2>1. WithinBudget(e) = e
      BY <1>4 DEF WithinBudget
    <2> QED BY <1>1, <1>2, <1>4, <2>1, ZenonT(60) DEF e, Open
  <1> QED BY <1>3, <1>4

\* So does a piece of a value.
LEMMA ValueIs ==
  ASSUME NEW c, NEW url, NEW d, NEW body, NEW name, NEW got, NEW text, NEW b,
         Base(c, url, d, body), Part(c, name, got, b), Open(c, None)
  PROVE  /\ Base(OnHeaderValue(c, text), url, d, body)
         /\ Part(OnHeaderValue(c, text), name, got \o text, TRUE)
         /\ Open(OnHeaderValue(c, text),
                 IF Size(d) + Len(name) + Len(got \o text) > MaxHeaderBytes
                 THEN 431 ELSE None)
  <1> DEFINE e == [c EXCEPT !.readingValue = TRUE, !.value = @ \o text]
  <1>1. Base(e, url, d, body) /\ Part(e, name, got \o text, TRUE) /\ Open(e, None)
    BY FieldNames DEF Base, Part, Open
  <1>0. OnHeaderValue(c, text) = WithinBudget(e)
    BY DEF OnHeaderValue
  <1> HIDE DEF e
  <1>2. HeaderBudgetExceeded(e) <=> Size(d) + Len(name) + Len(got \o text) > MaxHeaderBytes
    BY <1>1 DEF HeaderBudgetExceeded, Base, Part
  <1>3. CASE HeaderBudgetExceeded(e)
    <2> DEFINE f == [e EXCEPT !.reject = 431]
    <2>1. WithinBudget(e) = f
      BY <1>1, <1>3 DEF WithinBudget, Open
    <2>2. Base(f, url, d, body) /\ Part(f, name, got \o text, TRUE) /\ Open(f, 431)
      BY <1>1, FieldNames DEF Base, Part, Open
    <2> QED BY <1>0, <1>1, <1>2, <1>3, <2>1, <2>2, ZenonT(60)
  <1>4. CASE ~HeaderBudgetExceeded(e)
    <2>1. WithinBudget(e) = e
      BY <1>4 DEF WithinBudget
    <2> QED BY <1>0, <1>1, <1>2, <1>4, <2>1
  <1> QED BY <1>3, <1>4

\* After the headers, whether or not a last one is still to be taken over.
LEMMA CompleteIs ==
  ASSUME NEW c, NEW n, NEW url, NEW d, NEW x,
         Base(FinishHeaderPair(c), url, d, <<>>),
         Part(FinishHeaderPair(c), <<>>, <<>>, FALSE), Open(FinishHeaderPair(c), x)
  PROVE  /\ Base(OnHeadersComplete(c, n), url, d, <<>>)
         /\ Part(OnHeadersComplete(c, n), <<>>, <<>>, FALSE)
         /\ Open(OnHeadersComplete(c, n),
                 IF x # None THEN x ELSE IF Chunked(d) THEN 400
                 ELSE IF n > MaxBodyBytes THEN 413 ELSE None)
  <1> DEFINE done == FinishHeaderPair(c)
             y == IF done.reject # None THEN done.reject
                  ELSE IF done.sawTransferEncoding THEN 400
                  ELSE IF n > MaxBodyBytes THEN 413 ELSE done.reject
             e == [done EXCEPT !.reject = y]
  <1>1. OnHeadersComplete(c, n) = e
    BY DEF OnHeadersComplete
  <1>2. y = IF x # None THEN x ELSE IF Chunked(d) THEN 400
            ELSE IF n > MaxBodyBytes THEN 413 ELSE None
    BY DEF Base, Open
  <1> HIDE DEF done, y
  <1>3. Base(e, url, d, <<>>) /\ Part(e, <<>>, <<>>, FALSE) /\ Open(e, y)
    <2>1. Base(done, url, d, <<>>) /\ Part(done, <<>>, <<>>, FALSE) /\ Open(done, x)
      BY DEF done
    <2>2. "reject" \in DOMAIN done
      BY <2>1, FieldNames DEF Base
    <2>3. /\ DOMAIN e = DOMAIN done /\ e.reject = y /\ e.url = done.url /\ e.body = done.body
          /\ e.headers = done.headers /\ e.headerBytes = done.headerBytes
          /\ e.headerCount = done.headerCount
      BY <2>2
    <2>4. /\ e.sawTransferEncoding = done.sawTransferEncoding /\ e.ready = done.ready
          /\ e.pipelined = done.pipelined /\ e.forceClose = done.forceClose
          /\ e.field = done.field /\ e.value = done.value
          /\ e.readingValue = done.readingValue
      BY <2>2
    <2> HIDE DEF e
    <2>5. Base(e, url, d, <<>>)
      BY <2>1, <2>3, <2>4 DEF Base
    <2> QED BY <2>1, <2>3, <2>4, <2>5 DEF Part, Open
  <1> QED BY <1>1, <1>2, <1>3, ZenonT(60)

\* A piece of the body is appended, or is too much.
LEMMA BodyIs ==
  ASSUME NEW c, NEW url, NEW d, NEW got, NEW text,
         Base(c, url, d, got), Open(c, None)
  PROVE  LET over == Len(got) + Len(text) > MaxBodyBytes
         IN  /\ ~over => Base(OnBody(c, text), url, d, got \o text)
             /\ Open(OnBody(c, text), IF over THEN 413 ELSE None)
  BY FieldNames DEF OnBody, Base, Open

\* The end of the message completes the request.
LEMMA MessageIs ==
  ASSUME NEW c, NEW url, NEW d, NEW body, NEW b, Base(c, url, d, body), Open(c, None)
  PROVE  /\ Base(OnMessageComplete(c, b), url, d, body)
         /\ OnMessageComplete(c, b).ready = TRUE
  BY FieldNames DEF OnMessageComplete, Base, Open

(***************************************************************************)
(* The states of a connection while r arrives: c is what the callbacks     *)
(* have made, f the pieces not handed over.                                *)
(***************************************************************************)
\* What the parts of a request are, under names of their own: the steps use
\* lemmas about them, not the definition of Seq.
Text == Seq(HeadByte)
Octets == Seq(BodyByte)
Headers == Seq(HeaderPairs)
Pieces == Seq(Piece)

\* The next piece is t for cb, and g comes after it.
Splits(f, cb, t, g) == f = <<Of(cb, t)>> \o g

\* Nothing has arrived.
AtBegin(r, c, f) == c = EmptyRequest /\ f = Spans(r)

\* In the URL: got has arrived, t has not; likewise below.
AtUrl(r, c, f) ==
  \E got \in Text, t \in Text :
    /\ got \o t = r.url /\ Splits(f, "url", t, From(r, r.headers))
    /\ Base(c, got, <<>>, <<>>) /\ Part(c, <<>>, <<>>, FALSE) /\ Open(c, None)

\* Between two headers the last one is still to be taken over.
Pending(r, c, d) ==
  \/ /\ d = <<>> /\ Fits(r, <<>>)
     /\ Base(c, r.url, <<>>, <<>>) /\ Part(c, <<>>, <<>>, FALSE)
  \/ \E e \in Headers, h \in HeaderPairs :
       /\ d = e \o <<h>> /\ Fits(r, e)
       /\ Base(c, r.url, e, <<>>) /\ Part(c, h.name, h.value, TRUE)

AtHeader(r, c, f) ==
  \E d \in Headers, rest \in Headers :
    /\ d \o rest = r.headers /\ f = From(r, rest)
    /\ Pending(r, c, d) /\ Open(c, None)

InName(r, c, f) ==
  \E d \in Headers, h \in HeaderPairs, rest \in Headers,
     got \in Text, t \in Text :
    /\ d \o (<<h>> \o rest) = r.headers /\ got \o t = h.name /\ Fits(r, d)
    /\ Splits(f, "field", t, (<<Of("value", h.value)>> \o From(r, rest)))
    /\ Base(c, r.url, d, <<>>) /\ Part(c, got, <<>>, FALSE) /\ Open(c, None)

InValue(r, c, f) ==
  \E d \in Headers, h \in HeaderPairs, rest \in Headers,
     got \in Text, t \in Text, b \in BOOLEAN :
    /\ d \o (<<h>> \o rest) = r.headers /\ got \o t = h.value /\ Fits(r, d)
    /\ Splits(f, "value", t, From(r, rest))
    /\ Base(c, r.url, d, <<>>) /\ Part(c, h.name, got, b) /\ Open(c, None)

InBody(r, c, f) ==
  \E got \in Octets, t \in Octets :
    /\ got \o t = r.body /\ Splits(f, "body", t, <<Of("complete", <<>>)>>)
    /\ Base(c, r.url, r.headers, got) /\ Open(c, None) /\ Conforming(r)

AtComplete(r, c, f) ==
  /\ f = <<Of("complete", <<>>)>>
  /\ Base(c, r.url, r.headers, r.body) /\ Open(c, None) /\ Conforming(r)

\* All of it is in.
Done(r, c, f) ==
  /\ f = <<>> /\ Base(c, r.url, r.headers, r.body) /\ Conforming(r)
  /\ c.ready = TRUE /\ c.keepAlive = r.keepAlive /\ c.reject = None

Arriving(r, c, f) ==
  \/ AtBegin(r, c, f) \/ AtUrl(r, c, f) \/ AtHeader(r, c, f)
  \/ InName(r, c, f) \/ InValue(r, c, f) \/ InBody(r, c, f) \/ AtComplete(r, c, f)

\* A refusal is owed to the request itself.
Outcome(r, c, f) ==
  IF c.reject = None THEN Arriving(r, c, f) \/ Done(r, c, f)
  ELSE c.ready = FALSE /\ ~Conforming(r)

\* The parser hands over n bytes of the first piece of f.
Takes(f, n) == n \in (IF Head(f).text = <<>> THEN {0} ELSE 1..Len(Head(f).text))
Taken(f, n) == SubSeq(Head(f).text, 1, n)
Left(f, n) ==
  IF n = Len(Head(f).text) THEN Tail(f)
  ELSE <<[Head(f) EXCEPT !.text = SubSeq(@, n + 1, Len(@))]>> \o Tail(f)

\* A text cut after n elements.
LEMMA CutText ==
  ASSUME NEW S, NEW t \in Seq(S), NEW n \in (IF t = <<>> THEN {0} ELSE 1..Len(t))
  PROVE  /\ SubSeq(t, 1, n) \in Seq(S) /\ SubSeq(t, n + 1, Len(t)) \in Seq(S)
         /\ SubSeq(t, 1, n) \o SubSeq(t, n + 1, Len(t)) = t
         /\ n = Len(t) => SubSeq(t, 1, n) = t
         /\ n \in 0..Len(t) /\ Len(t) \in Nat
  <1>1. n \in 0..Len(t) /\ Len(t) \in Nat
    OBVIOUS
  <1>2. SubSeq(t, 1, n) \in Seq(S) /\ SubSeq(t, n + 1, Len(t)) \in Seq(S)
        /\ Len(SubSeq(t, 1, n)) = n /\ Len(SubSeq(t, n + 1, Len(t))) = Len(t) - n
    BY <1>1
  <1>3. SubSeq(t, 1, n) \o SubSeq(t, n + 1, Len(t)) = t
    <2> DEFINE p == SubSeq(t, 1, n)
               q == SubSeq(t, n + 1, Len(t))
    <2>1. \A i \in 1..n : p[i] = t[i]
      BY <1>1
    <2>2. \A i \in 1..(Len(t) - n) : q[i] = t[n + i]
      BY <1>1
    <2>3. p \in Seq(S) /\ q \in Seq(S) /\ Len(p) = n /\ Len(q) = Len(t) - n
      BY <1>2
    <2> HIDE DEF p, q
    <2>4. p \o q \in Seq(S) /\ Len(p \o q) = Len(t)
      BY <1>1, <2>3, SMTT(60)
    <2>5. \A i \in 1..Len(t) : (p \o q)[i] = t[i]
      <3> SUFFICES ASSUME NEW i \in 1..Len(t) PROVE (p \o q)[i] = t[i]
        OBVIOUS
      <3>1. CASE i <= n
        BY <1>1, <2>1, <2>3, <3>1
      <3>2. CASE ~(i <= n)
        <4>1. (p \o q)[i] = q[i - n] /\ i - n \in 1..(Len(t) - n) /\ n + (i - n) = i
          BY <1>1, <2>3, <3>2
        <4> QED BY <2>2, <4>1
      <3> QED BY <3>1, <3>2
    <2>6. p \o q = t
      BY <2>4, <2>5, SeqEqual
    <2> QED BY <2>6 DEF p, q
  <1>4. n = Len(t) => SubSeq(t, 1, n) = t
    BY SubSeqFull
  <1> QED BY <1>1, <1>2, <1>3, <1>4

\* What is kept of a text.
After(t, n) == SubSeq(t, n + 1, Len(t))

\* The parser hands over n bytes of a piece and keeps the rest of it.
LEMMA Cut ==
  ASSUME NEW S, NEW cb \in Callbacks, NEW t \in Seq(S), t \in Seq(Byte),
         NEW g \in Seq(Piece), NEW f, Splits(f, cb, t, g), NEW n, Takes(f, n)
  PROVE  /\ f # <<>> /\ Head(f).cb = cb /\ Head(f).text = t
         /\ Taken(f, n) \in Seq(S) /\ After(t, n) \in Seq(S)
         /\ Taken(f, n) \o After(t, n) = t
         /\ n = Len(t) => Taken(f, n) = t /\ Left(f, n) = g
         /\ n # Len(t) => Splits(Left(f, n), cb, After(t, n), g)
  <1>1. Of(cb, t) \in Piece /\ Of(cb, t).cb = cb /\ Of(cb, t).text = t
    BY OfType
  <1>2. f # <<>> /\ Head(f) = Of(cb, t) /\ Tail(f) = g
    BY <1>1, FirstRest DEF Splits
  <1>3. n \in (IF t = <<>> THEN {0} ELSE 1..Len(t))
    BY <1>1, <1>2 DEF Takes
  <1> DEFINE p == SubSeq(t, 1, n)
             q == After(t, n)
  <1>4. p \in Seq(S) /\ q \in Seq(S) /\ p \o q = t /\ (n = Len(t) => p = t)
    BY <1>3, CutText DEF After
  <1>5. Taken(f, n) = p
    BY <1>1, <1>2 DEF Taken
  <1>6. n = Len(t) => Left(f, n) = g
    BY <1>1, <1>2 DEF Left
  <1>7. [Of(cb, t) EXCEPT !.text = q] = Of(cb, q)
    <2> HIDE DEF q
    <2> QED BY DEF Of
  <1>8. n # Len(t) => Left(f, n) = <<Of(cb, q)>> \o g
    <2>1. [Head(f) EXCEPT !.text = SubSeq(@, n + 1, Len(@))] = [Of(cb, t) EXCEPT !.text = q]
      BY <1>1, <1>2 DEF After
    <2> QED BY <1>1, <1>2, <1>7, <2>1 DEF Left
  <1> HIDE DEF p, q
  <1> QED BY <1>1, <1>2, <1>4, <1>5, <1>6, <1>8 DEF p, q, Splits

\* The same for the two kinds of text.
LEMMA CutHead ==
  ASSUME NEW cb \in Callbacks, NEW t \in Text,
         NEW g \in Pieces, NEW f, Splits(f, cb, t, g), NEW n, Takes(f, n)
  PROVE  /\ f # <<>> /\ Head(f).cb = cb /\ Head(f).text = t
         /\ Taken(f, n) \in Text /\ After(t, n) \in Text
         /\ Taken(f, n) \o After(t, n) = t
         /\ n = Len(t) => Taken(f, n) = t /\ Left(f, n) = g
         /\ n # Len(t) => Splits(Left(f, n), cb, After(t, n), g)
  <1>1. t \in Seq(Byte)
    BY ByteText DEF Text, Octets
  <1> QED BY <1>1, Cut DEF Text, Octets, Pieces

LEMMA CutBody ==
  ASSUME NEW cb \in Callbacks, NEW t \in Octets,
         NEW g \in Pieces, NEW f, Splits(f, cb, t, g), NEW n, Takes(f, n)
  PROVE  /\ f # <<>> /\ Head(f).cb = cb /\ Head(f).text = t
         /\ Taken(f, n) \in Octets /\ After(t, n) \in Octets
         /\ Taken(f, n) \o After(t, n) = t
         /\ n = Len(t) => Taken(f, n) = t /\ Left(f, n) = g
         /\ n # Len(t) => Splits(Left(f, n), cb, After(t, n), g)
  <1>1. t \in Seq(Byte)
    BY ByteText DEF Text, Octets
  <1> QED BY <1>1, Cut DEF Text, Octets, Pieces

\* Sequences as values: what the steps below use of them.
LEMMA TextFacts ==
  /\ <<>> \in Text /\ \A t \in Text : <<>> \o t = t
  /\ \A t \in Text : Len(t) \in Nat
  /\ \A s \in Text, t \in Text : s \o t \in Text /\ Len(s \o t) = Len(s) + Len(t)
  <1>1. <<>> \in Text /\ \A t \in Text : <<>> \o t = t
    BY ConcatEmptySeq, EmptySeq DEF Text
  <1>2. \A t \in Text : Len(t) \in Nat
    BY DEF Text
  <1>3. \A s \in Text, t \in Text : s \o t \in Text /\ Len(s \o t) = Len(s) + Len(t)
    BY DEF Text
  <1> QED BY <1>1, <1>2, <1>3

LEMMA TextAssoc ==
  ASSUME NEW s \in Text, NEW t \in Text, NEW u \in Text
  PROVE  (s \o t) \o u = s \o (t \o u)
  BY ConcatAssociative, SMTT(60) DEF Text

LEMMA OctetFacts ==
  /\ <<>> \in Octets /\ \A t \in Octets : <<>> \o t = t
  /\ \A t \in Octets : Len(t) \in Nat
  /\ \A s \in Octets, t \in Octets : s \o t \in Octets /\ Len(s \o t) = Len(s) + Len(t)
  <1>1. <<>> \in Octets /\ \A t \in Octets : <<>> \o t = t
    BY ConcatEmptySeq, EmptySeq DEF Octets
  <1>2. \A t \in Octets : Len(t) \in Nat
    BY DEF Octets
  <1>3. \A s \in Octets, t \in Octets : s \o t \in Octets /\ Len(s \o t) = Len(s) + Len(t)
    BY DEF Octets
  <1> QED BY <1>1, <1>2, <1>3

LEMMA OctetAssoc ==
  ASSUME NEW s \in Octets, NEW t \in Octets, NEW u \in Octets
  PROVE  (s \o t) \o u = s \o (t \o u)
  BY ConcatAssociative, SMTT(60) DEF Octets

LEMMA HeadersFacts ==
  /\ <<>> \in Headers /\ \A t \in Headers : <<>> \o t = t /\ t \o <<>> = t
  /\ \A h \in HeaderPairs : <<h>> \in Headers /\ h.name \in Text /\ h.value \in Text
  /\ \A s \in Headers, t \in Headers : s \o t \in Headers
  <1>1. <<>> \in Headers /\ \A t \in Headers : <<>> \o t = t /\ t \o <<>> = t
    BY ConcatEmptySeq, EmptySeq DEF Headers
  <1>2. \A h \in HeaderPairs : <<h>> \in Headers
    BY DEF Headers
  <1>3. \A h \in HeaderPairs : h.name \in Text /\ h.value \in Text
    BY CellsType DEF Text
  <1>4. \A s \in Headers, t \in Headers : s \o t \in Headers
    BY DEF Headers
  <1> QED BY <1>1, <1>2, <1>3, <1>4

LEMMA HeadersAssoc ==
  ASSUME NEW s \in Headers, NEW t \in Headers, NEW u \in Headers
  PROVE  (s \o t) \o u = s \o (t \o u)
  BY ConcatAssociative, SMTT(60) DEF Headers

\* A list of headers with a first one.
LEMMA HeadersCons ==
  ASSUME NEW t \in Headers, t # <<>>
  PROVE  \E h \in HeaderPairs, u \in Headers : t = <<h>> \o u
  <1> DEFINE h == Head(t)
             u == Tail(t)
  <1>1. h \in HeaderPairs /\ u \in Headers
    BY DEF Headers
  <1>2. t = <<h>> \o u
    BY DEF Headers
  <1> QED BY <1>1, <1>2

\* The parts of a request on the wire.
LEMMA WireFacts ==
  ASSUME NEW r \in WireRequests
  PROVE  /\ r.url \in Text /\ r.headers \in Headers /\ r.body \in Octets
         /\ r.keepAlive \in BOOLEAN
  BY WireType DEF Text, Headers, Octets

\* The caps along a list of headers.
LEMMA PrefixFits ==
  ASSUME NEW r, NEW d \in Headers, NEW rest \in Headers, Fits(r, d \o rest)
  PROVE  Fits(r, d)
  BY FitsPrefix DEF Headers

LEMMA NextFits ==
  ASSUME NEW r, NEW d \in Headers, NEW h \in HeaderPairs, Fits(r, d)
  PROVE  /\ Fits(r, d \o <<h>>) <=> Refusal(d, h) = None
  BY FitsMore DEF Headers

LEMMA NextSize ==
  ASSUME NEW d \in Headers, NEW h \in HeaderPairs
  PROVE  /\ Size(d \o <<h>>) = Size(d) + Len(h.name) + Len(h.value)
         /\ Size(d) \in Nat
  BY OneMore DEF Headers

\* FinishIs for a header that has arrived in full.
LEMMA PairFinishes ==
  ASSUME NEW c, NEW url, NEW d \in Headers, NEW body, NEW h \in HeaderPairs, NEW b,
         Base(c, url, d, body), Part(c, h.name, h.value, b), Open(c, None)
  PROVE  /\ Base(FinishHeaderPair(c), url, d \o <<h>>, body)
         /\ Part(FinishHeaderPair(c), <<>>, <<>>, FALSE)
         /\ Open(FinishHeaderPair(c), Refusal(d, h))
  BY FinishIs DEF Headers

\* The feed, from a list of headers on.
LEMMA FeedFacts ==
  ASSUME NEW r \in WireRequests
  PROVE  /\ \A hs \in Headers : From(r, hs) \in Pieces
         /\ \A h \in HeaderPairs, hs \in Headers :
              /\ <<Of("value", h.value)>> \o From(r, hs) \in Pieces
              /\ Splits(From(r, <<h>> \o hs), "field", h.name,
                        <<Of("value", h.value)>> \o From(r, hs))
         /\ Splits(From(r, <<>>), "headers", <<>>, Ending(r))
         /\ Ending(r) \in Pieces /\ <<Of("complete", <<>>)>> \in Pieces
         /\ <<Of("url", r.url)>> \o From(r, r.headers) \in Pieces
         /\ Splits(Spans(r), "begin", <<>>, <<Of("url", r.url)>> \o From(r, r.headers))
  <1>1. ASSUME NEW hs \in Headers PROVE From(r, hs) \in Pieces
    BY FromType DEF Headers, Pieces
  <1>2. ASSUME NEW h \in HeaderPairs, NEW hs \in Headers
        PROVE  /\ <<Of("value", h.value)>> \o From(r, hs) \in Pieces
               /\ Splits(From(r, <<h>> \o hs), "field", h.name,
                         <<Of("value", h.value)>> \o From(r, hs))
    <2>1. Of("value", h.value) \in Piece
      BY CellsType
    <2>2. <<Of("value", h.value)>> \o From(r, hs) \in Pieces
      BY <1>1, <2>1, FirstRest DEF Pieces
    <2>3. From(r, <<h>> \o hs)
            = <<Of("field", h.name)>> \o (<<Of("value", h.value)>> \o From(r, hs))
      BY FromCons DEF Headers
    <2> QED BY <2>2, <2>3 DEF Splits
  <1>3. Splits(From(r, <<>>), "headers", <<>>, Ending(r))
    BY FromEmpty DEF Splits
  <1>4. Ending(r) \in Pieces /\ <<Of("complete", <<>>)>> \in Pieces
    BY EndingType DEF Pieces
  <1>5. <<Of("url", r.url)>> \o From(r, r.headers) \in Pieces
    <2>1. Of("url", r.url) \in Piece
      BY WireType, ByteText, OfType DEF Callbacks
    <2>2. r.headers \in Headers
      BY WireFacts
    <2> QED BY <1>1, <2>1, <2>2, FirstRest DEF Pieces
  <1>6. Splits(Spans(r), "begin", <<>>, <<Of("url", r.url)>> \o From(r, r.headers))
    BY SpansFrom DEF Splits
  <1> QED BY <1>1, <1>2, <1>3, <1>4, <1>5, <1>6

(***************************************************************************)
(* One callback from each of these states.                                 *)
(***************************************************************************)
\* What every prefix of a conforming request has.
LEMMA ConformingPrefix ==
  ASSUME NEW r, NEW d \in Headers, NEW rest \in Headers,
         d \o rest = r.headers, Conforming(r)
  PROVE  Fits(r, d)
  <1>1. Fits(r, d \o rest)
    BY ConformingIs
  <1> QED BY <1>1, PrefixFits

LEMMA ConformingNext ==
  ASSUME NEW r, NEW d \in Headers, NEW h \in HeaderPairs,
         NEW rest \in Headers, d \o (<<h>> \o rest) = r.headers
  PROVE  /\ d \o <<h>> \in Headers /\ (d \o <<h>>) \o rest = r.headers
         /\ Conforming(r) => Fits(r, d \o <<h>>)
  <1>1. <<h>> \in Headers
    BY HeadersFacts
  <1>2. d \o <<h>> \in Headers /\ (d \o <<h>>) \o rest = d \o (<<h>> \o rest)
    BY <1>1, HeadersFacts, HeadersAssoc, ZenonT(60)
  <1> QED BY <1>2, ConformingPrefix

\* The start of a request, on a connection that is clean.
LEMMA BeginStep ==
  ASSUME NEW r \in WireRequests, NEW c, NEW f, NEW n, AtBegin(r, c, f), Takes(f, n)
  PROVE  f # <<>> /\ Outcome(r, Callback(c, r, Head(f).cb, Taken(f, n)), Left(f, n))
  <1> DEFINE g == <<Of("url", r.url)>> \o From(r, r.headers)
  <1>1. r.url \in Text /\ r.headers \in Headers
    BY WireFacts
  <1>2. g \in Pieces /\ Splits(f, "begin", <<>>, g)
    BY FeedFacts DEF AtBegin
  <1>3. <<>> \in Text /\ "begin" \in Callbacks
    BY TextFacts DEF Callbacks
  <1>4. AtUrl(r, EmptyRequest, g)
    BY <1>1, <1>3, TextFacts, EmptyIs DEF AtUrl, Splits
  <1> HIDE DEF g
  <1>5. f # <<>> /\ Head(f).cb = "begin" /\ Head(f).text = <<>>
    BY <1>2, <1>3, CutHead
  <1>6. n = Len(<<>>)
    BY <1>5 DEF Takes
  <1>7. Left(f, n) = g
    BY <1>2, <1>3, <1>6, CutHead
  <1>8. Callback(c, r, "begin", Taken(f, n)) = EmptyRequest
    BY DEF Callback, OnMessageBegin, AtBegin, EmptyRequest
  <1>9. EmptyRequest.reject = None
    BY EmptyIs DEF Open
  <1> QED BY <1>4, <1>5, <1>7, <1>8, <1>9 DEF Outcome, Arriving

\* A piece of the URL.
LEMMA UrlStep ==
  ASSUME NEW r \in WireRequests, NEW c, NEW f, NEW n, AtUrl(r, c, f), Takes(f, n)
  PROVE  f # <<>> /\ Outcome(r, Callback(c, r, Head(f).cb, Taken(f, n)), Left(f, n))
  <1> DEFINE g == From(r, r.headers)
  <1>1. PICK got \in Text, t \in Text :
          /\ got \o t = r.url /\ Splits(f, "url", t, g)
          /\ Base(c, got, <<>>, <<>>) /\ Part(c, <<>>, <<>>, FALSE) /\ Open(c, None)
    BY DEF AtUrl
  <1>2. r.headers \in Headers /\ g \in Pieces
    BY WireFacts, FeedFacts
  <1>3. "url" \in Callbacks
    BY DEF Callbacks
  <1> HIDE DEF g
  <1>4. f # <<>> /\ Head(f).cb = "url" /\ Head(f).text = t
    BY <1>1, <1>2, <1>3, CutHead
  <1> DEFINE p == Taken(f, n)
             q == After(t, n)
  <1>5. /\ p \in Text /\ q \in Text /\ p \o q = t
        /\ n = Len(t) => p = t /\ Left(f, n) = g
        /\ n # Len(t) => Splits(Left(f, n), "url", q, g)
    BY <1>1, <1>2, <1>3, CutHead
  <1> DEFINE e == OnUrl(c, p)
             u == got \o p
  <1>6. Callback(c, r, "url", Taken(f, n)) = e
    BY DEF Callback
  <1> HIDE DEF p, q
  <1>7. Base(e, u, <<>>, <<>>) /\ Part(e, <<>>, <<>>, FALSE)
        /\ Open(e, IF Len(u) > MaxUrlBytes THEN 414 ELSE None)
    BY <1>1, UrlIs
  <1>8. u \in Text /\ u \o q = r.url
    BY <1>1, <1>5, TextFacts, TextAssoc, ZenonT(60)
  <1>9. n = Len(t) => u = r.url
    BY <1>1, <1>5
  <1> HIDE DEF e, u
  <1>10. Len(u) \in Nat /\ Len(r.url) \in Nat /\ Len(u) <= Len(r.url)
    <2>1. Len(u) \in Nat /\ Len(q) \in Nat /\ Len(u \o q) = Len(u) + Len(q)
      BY <1>5, <1>8, TextFacts
    <2> QED BY <1>8, <2>1
  <1>11. CASE Len(u) > MaxUrlBytes
    <2>1. ~Conforming(r)
      BY <1>10, <1>11, CapsAssumption DEF Conforming
    <2>2. e.reject # None /\ e.ready = FALSE
      BY <1>7, <1>11 DEF Open, None
    <2> QED BY <1>4, <1>6, <2>1, <2>2 DEF Outcome
  <1>12. CASE ~(Len(u) > MaxUrlBytes) /\ n # Len(t)
    <2>1. Open(e, None) /\ e.reject = None
      BY <1>7, <1>12 DEF Open
    <2>2. AtUrl(r, e, Left(f, n))
      BY <1>5, <1>7, <1>8, <1>12, <2>1 DEF AtUrl, g
    <2> QED BY <1>4, <1>6, <2>1, <2>2 DEF Outcome, Arriving
  <1>13. CASE ~(Len(u) > MaxUrlBytes) /\ n = Len(t)
    <2>1. Open(e, None) /\ e.reject = None
      BY <1>7, <1>13 DEF Open
    <2>2. Fits(r, <<>>)
      <3>1. Size(<<>>) = 0 /\ Len(<<>>) = 0
        BY SizeFacts
      <3>2. Len(r.url) <= MaxUrlBytes
        BY <1>9, <1>10, <1>13, CapsAssumption
      <3> QED BY <3>1, <3>2, CapsAssumption DEF Fits
    <2>3. Pending(r, e, <<>>)
      BY <1>7, <1>9, <1>13, <2>2 DEF Pending
    <2>4. <<>> \o r.headers = r.headers /\ <<>> \in Headers
      BY <1>2, HeadersFacts
    <2>5. AtHeader(r, e, Left(f, n))
      BY <1>2, <1>5, <1>13, <2>1, <2>3, <2>4 DEF AtHeader, g
    <2> QED BY <1>4, <1>6, <2>1, <2>5 DEF Outcome, Arriving
  <1> QED BY <1>11, <1>12, <1>13

\* A piece of a name, on a connection that has taken over the headers before.
LEMMA NameTaken ==
  ASSUME NEW r \in WireRequests, NEW d \in Headers, NEW h \in HeaderPairs,
         NEW rest \in Headers, d \o (<<h>> \o rest) = r.headers,
         NEW got \in Text, NEW t \in Text, got \o t = h.name,
         NEW f, Splits(f, "field", t, <<Of("value", h.value)>> \o From(r, rest)),
         NEW n, Takes(f, n),
         NEW c, NEW x, Base(c, r.url, d, <<>>), Part(c, got, <<>>, FALSE), Open(c, x),
         x = None => Fits(r, d), x # None => ~Fits(r, d)
  PROVE  /\ f # <<>> /\ Head(f).cb = "field"
         /\ Outcome(r, WithinBudget([c EXCEPT !.field = @ \o Taken(f, n)]), Left(f, n))
  <1> DEFINE g == <<Of("value", h.value)>> \o From(r, rest)
             p == Taken(f, n)
             q == After(t, n)
             u == got \o p
             e == WithinBudget([c EXCEPT !.field = @ \o p])
             y == IF x = None /\ Size(d) + Len(u) + Len(<<>>) > MaxHeaderBytes THEN 431 ELSE x
  <1>1. g \in Pieces /\ "field" \in Callbacks
    BY FeedFacts DEF Callbacks
  <1>2. Splits(Left(f, n), "value", h.value, From(r, rest)) <=> Left(f, n) = g
    BY DEF Splits
  <1>3. Size(d) \in Nat /\ Size(d \o <<h>>) = Size(d) + Len(h.name) + Len(h.value)
    BY NextSize
  <1>4. Base(e, r.url, d, <<>>) /\ Part(e, u, <<>>, FALSE) /\ Open(e, y)
    BY <1>3, FieldIs, ZenonT(60)
  <1> HIDE DEF g, e
  <1>5. Splits(f, "field", t, g)
    BY DEF g
  <1>6. /\ f # <<>> /\ Head(f).cb = "field"
        /\ p \in Text /\ q \in Text /\ p \o q = t
        /\ n = Len(t) => p = t /\ Left(f, n) = g
        /\ n # Len(t) => Splits(Left(f, n), "field", q, g)
    BY <1>1, <1>5, CutHead
  <1> HIDE DEF p, q
  <1>7. u \in Text /\ u \o q = h.name /\ (n = Len(t) => u = h.name)
    BY <1>6, TextFacts, TextAssoc, ZenonT(60)
  <1> HIDE DEF u
  <1>8. Conforming(r) => Fits(r, d) /\ Fits(r, d \o <<h>>)
    <2>1. <<h>> \o rest \in Headers
      BY HeadersFacts
    <2> QED BY <2>1, ConformingPrefix, ConformingNext
  <1>9. CASE y # None
    <2>1. e.reject # None /\ e.ready = FALSE
      BY <1>4, <1>9 DEF Open
    <2>2. ~Conforming(r)
      <3>1. CASE x # None
        BY <1>8, <3>1
      <3>2. CASE x = None
        <4>1. Size(d) + Len(u) + Len(<<>>) > MaxHeaderBytes
          BY <1>9, <3>2
        <4>2. Len(u) \in Nat /\ Len(q) \in Nat /\ Len(u \o q) = Len(u) + Len(q)
              /\ Len(h.value) \in Nat /\ h.value \in Text /\ Len(<<>>) = 0
          BY <1>6, <1>7, TextFacts, HeadersFacts
        <4>3. Size(d \o <<h>>) > MaxHeaderBytes /\ Size(d \o <<h>>) \in Nat
          BY <1>3, <1>7, <4>1, <4>2, CapsAssumption, SMTT(60)
        <4>4. ~Fits(r, d \o <<h>>)
          BY <4>3, CapsAssumption DEF Fits
        <4> QED BY <1>8, <4>4
      <3> QED BY <3>1, <3>2
    <2> QED BY <1>6, <2>1, <2>2 DEF Outcome, e, p
  <1>10. CASE y = None
    <2>1. Open(e, None) /\ e.reject = None
      BY <1>4, <1>10 DEF Open
    <2>2. Fits(r, d)
      BY <1>10 DEF None
    <2> HIDE DEF y
    <2>3. CASE n # Len(t)
      <3>1. InName(r, e, Left(f, n))
        BY <1>4, <1>6, <1>7, <2>1, <2>2, <2>3 DEF InName, g
      <3> QED BY <1>6, <2>1, <3>1 DEF Outcome, Arriving, e, p
    <2>4. CASE n = Len(t)
      <3>1. Splits(Left(f, n), "value", h.value, From(r, rest))
        BY <1>2, <1>6, <2>4 DEF g
      <3>2. <<>> \in Text /\ h.value \in Text /\ <<>> \o h.value = h.value
        BY TextFacts, HeadersFacts
      <3>3. InValue(r, e, Left(f, n))
        BY <1>4, <1>7, <2>1, <2>2, <2>4, <3>1, <3>2 DEF InValue
      <3> QED BY <1>6, <2>1, <3>3 DEF Outcome, Arriving, e, p
    <2> QED BY <2>3, <2>4
  <1> QED BY <1>9, <1>10

\* A piece of a header's name, the first one's or a later one's.
LEMMA NameStep ==
  ASSUME NEW r \in WireRequests, NEW c, NEW f, NEW n, InName(r, c, f), Takes(f, n)
  PROVE  f # <<>> /\ Outcome(r, Callback(c, r, Head(f).cb, Taken(f, n)), Left(f, n))
  <1>1. PICK d \in Headers, h \in HeaderPairs, rest \in Headers, got \in Text, t \in Text :
          /\ d \o (<<h>> \o rest) = r.headers /\ got \o t = h.name /\ Fits(r, d)
          /\ Splits(f, "field", t, (<<Of("value", h.value)>> \o From(r, rest)))
          /\ Base(c, r.url, d, <<>>) /\ Part(c, got, <<>>, FALSE) /\ Open(c, None)
    BY DEF InName
  <1> DEFINE p == Taken(f, n)
             e == WithinBudget([c EXCEPT !.field = @ \o p])
  <1>2. f # <<>> /\ Head(f).cb = "field" /\ Outcome(r, e, Left(f, n))
    BY <1>1, NameTaken
  <1>3. Callback(c, r, "field", p) = e
    BY <1>1 DEF Callback, OnHeaderField, Part
  <1> QED BY <1>2, <1>3

\* The pair that is still to be taken over: after it, d is in or too much.
LEMMA PendingTaken ==
  ASSUME NEW r, NEW c, NEW d \in Headers, Pending(r, c, d), Open(c, None)
  PROVE  /\ c.readingValue => \E x :
              /\ Base(FinishHeaderPair(c), r.url, d, <<>>)
              /\ Part(FinishHeaderPair(c), <<>>, <<>>, FALSE)
              /\ Open(FinishHeaderPair(c), x)
              /\ x = None => Fits(r, d)
              /\ x # None => ~Fits(r, d)
         /\ ~c.readingValue =>
              /\ Base(c, r.url, d, <<>>) /\ Part(c, <<>>, <<>>, FALSE) /\ Fits(r, d)
              /\ FinishHeaderPair(c) = c
         /\ c.readingValue \in BOOLEAN
  <1>1. CASE d = <<>> /\ Fits(r, <<>>) /\ Base(c, r.url, <<>>, <<>>) /\ Part(c, <<>>, <<>>, FALSE)
    BY <1>1 DEF Part, FinishHeaderPair
  <1>2. ASSUME NEW e \in Headers, NEW h \in HeaderPairs, d = e \o <<h>>, Fits(r, e),
               Base(c, r.url, e, <<>>), Part(c, h.name, h.value, TRUE)
        PROVE  /\ Base(FinishHeaderPair(c), r.url, d, <<>>)
               /\ Part(FinishHeaderPair(c), <<>>, <<>>, FALSE)
               /\ Open(FinishHeaderPair(c), Refusal(e, h))
               /\ Refusal(e, h) = None <=> Fits(r, d)
               /\ c.readingValue = TRUE
    <2>1. /\ Base(FinishHeaderPair(c), r.url, e \o <<h>>, <<>>)
          /\ Part(FinishHeaderPair(c), <<>>, <<>>, FALSE)
          /\ Open(FinishHeaderPair(c), Refusal(e, h))
      BY <1>2, PairFinishes
    <2>2. Fits(r, e \o <<h>>) <=> Refusal(e, h) = None
      BY <1>2, NextFits
    <2>3. c.readingValue = TRUE
      BY <1>2 DEF Part
    <2> QED BY <1>2, <2>1, <2>2, <2>3
  <1> QED BY <1>1, <1>2 DEF Pending

\* After a header: the next one's name, or the end of the headers.
LEMMA HeaderStep ==
  ASSUME NEW r \in WireRequests, NEW c, NEW f, NEW n, AtHeader(r, c, f), Takes(f, n)
  PROVE  f # <<>> /\ Outcome(r, Callback(c, r, Head(f).cb, Taken(f, n)), Left(f, n))
  <1>1. PICK d \in Headers, rest \in Headers :
          /\ d \o rest = r.headers /\ f = From(r, rest)
          /\ Pending(r, c, d) /\ Open(c, None)
    BY DEF AtHeader
  <1> DEFINE p == Taken(f, n)
  <1>2. ASSUME rest # <<>>
        PROVE  f # <<>> /\ Outcome(r, Callback(c, r, Head(f).cb, p), Left(f, n))
    <2>1. PICK h \in HeaderPairs, u \in Headers : rest = <<h>> \o u
      BY <1>1, <1>2, HeadersCons
    <2>2. d \o (<<h>> \o u) = r.headers
      BY <1>1, <2>1
    <2>3. Splits(f, "field", h.name, <<Of("value", h.value)>> \o From(r, u))
      BY <1>1, <2>1, FeedFacts
    <2>4. <<>> \in Text /\ h.name \in Text /\ <<>> \o h.name = h.name
      BY TextFacts, HeadersFacts
    <2> DEFINE before == IF c.readingValue THEN FinishHeaderPair(c) ELSE c
               e == WithinBudget([before EXCEPT !.field = @ \o p])
    <2>5. PICK x : /\ Base(before, r.url, d, <<>>) /\ Part(before, <<>>, <<>>, FALSE)
                   /\ Open(before, x) /\ (x = None => Fits(r, d)) /\ (x # None => ~Fits(r, d))
      BY <1>1, PendingTaken
    <2>6. Callback(c, r, "field", p) = e
      BY DEF Callback, OnHeaderField
    <2> HIDE DEF before
    <2>7. d \in Headers /\ u \in Headers /\ h \in HeaderPairs
      BY <1>1, <2>1
    <2>8. f # <<>> /\ Head(f).cb = "field" /\ Outcome(r, e, Left(f, n))
      BY <2>2, <2>3, <2>4, <2>5, <2>7, NameTaken
    <2> QED BY <2>6, <2>8
  <1>3. ASSUME rest = <<>>
        PROVE  f # <<>> /\ Outcome(r, Callback(c, r, Head(f).cb, p), Left(f, n))
    <2> DEFINE g == Ending(r)
               e == OnHeadersComplete(c, Len(r.body))
    <2>1. d = r.headers
      BY <1>1, <1>3, HeadersFacts
    <2>2. Splits(f, "headers", <<>>, g) /\ g \in Pieces
      BY <1>1, <1>3, FeedFacts
    <2>3. <<>> \in Text /\ "headers" \in Callbacks
      BY TextFacts DEF Callbacks
    <2> HIDE DEF g
    <2>4. f # <<>> /\ Head(f).cb = "headers" /\ Head(f).text = <<>>
      BY <2>2, <2>3, CutHead
    <2>5. n = Len(<<>>)
      BY <2>4 DEF Takes
    <2>6. Left(f, n) = g
      BY <2>2, <2>3, <2>5, CutHead
    <2>7. Callback(c, r, "headers", p) = e
      BY DEF Callback
    <2>8. PICK x : /\ Base(FinishHeaderPair(c), r.url, d, <<>>)
                   /\ Part(FinishHeaderPair(c), <<>>, <<>>, FALSE)
                   /\ Open(FinishHeaderPair(c), x)
                   /\ (x = None => Fits(r, d)) /\ (x # None => ~Fits(r, d))
      BY <1>1, PendingTaken
    <2> DEFINE y == IF x # None THEN x ELSE IF Chunked(d) THEN 400
                    ELSE IF Len(r.body) > MaxBodyBytes THEN 413 ELSE None
    <2>9. Base(e, r.url, r.headers, <<>>) /\ Open(e, y)
      <3>1. Base(e, r.url, d, <<>>) /\ Open(e, y)
        BY <2>8, CompleteIs
      <3> QED BY <2>1, <3>1
    <2> HIDE DEF e, p
    <2>10. r.body \in Octets /\ Len(r.body) \in Nat
      BY WireFacts, OctetFacts
    <2>11. CASE y # None
      <3>1. e.reject # None /\ e.ready = FALSE
        BY <2>9, <2>11 DEF Open
      <3>2. ~Conforming(r)
        BY <2>1, <2>8, <2>10, <2>11, ConformingIs, CapsAssumption
      <3> QED BY <2>4, <2>7, <3>1, <3>2 DEF Outcome
    <2>12. CASE y = None
      <3>1. Open(e, None) /\ e.reject = None
        BY <2>9, <2>12 DEF Open
      <3>2. Fits(r, r.headers) /\ ~Chunked(r.headers) /\ ~(Len(r.body) > MaxBodyBytes)
        BY <2>1, <2>8, <2>12 DEF None
      <3>3. Conforming(r)
        BY <2>10, <3>2, ConformingIs, CapsAssumption
      <3>4. CASE r.body = <<>>
        <4>1. Left(f, n) = <<Of("complete", <<>>)>>
          <5>1. <<>> \o <<Of("complete", <<>>)>> = <<Of("complete", <<>>)>>
            BY FeedFacts, ConcatEmptySeq DEF Pieces
          <5> QED BY <2>6, <3>4, <5>1 DEF g, Ending
        <4>2. AtComplete(r, e, Left(f, n))
          BY <2>9, <3>1, <3>3, <3>4, <4>1 DEF AtComplete
        <4> QED BY <2>4, <2>7, <3>1, <4>2 DEF Outcome, Arriving
      <3>5. CASE r.body # <<>>
        <4>1. Splits(Left(f, n), "body", r.body, <<Of("complete", <<>>)>>)
          BY <2>6, <3>5 DEF g, Ending, Splits
        <4>2. <<>> \in Octets /\ <<>> \o r.body = r.body
          BY <2>10, OctetFacts
        <4>3. InBody(r, e, Left(f, n))
          BY <2>9, <2>10, <3>1, <3>3, <4>1, <4>2 DEF InBody
        <4> QED BY <2>4, <2>7, <3>1, <4>3 DEF Outcome, Arriving
      <3> QED BY <3>4, <3>5
    <2> QED BY <2>11, <2>12
  <1> QED BY <1>2, <1>3

\* A piece of a value.
LEMMA ValueStep ==
  ASSUME NEW r \in WireRequests, NEW c, NEW f, NEW n, InValue(r, c, f), Takes(f, n)
  PROVE  f # <<>> /\ Outcome(r, Callback(c, r, Head(f).cb, Taken(f, n)), Left(f, n))
  <1>1. PICK d \in Headers, h \in HeaderPairs, rest \in Headers, got \in Text, t \in Text,
             b \in BOOLEAN :
          /\ d \o (<<h>> \o rest) = r.headers /\ got \o t = h.value /\ Fits(r, d)
          /\ Splits(f, "value", t, From(r, rest))
          /\ Base(c, r.url, d, <<>>) /\ Part(c, h.name, got, b) /\ Open(c, None)
    BY DEF InValue
  <1> DEFINE g == From(r, rest)
             p == Taken(f, n)
             q == After(t, n)
             u == got \o p
             e == OnHeaderValue(c, p)
             y == IF Size(d) + Len(h.name) + Len(u) > MaxHeaderBytes THEN 431 ELSE None
  <1>2. g \in Pieces /\ "value" \in Callbacks
    BY <1>1, FeedFacts DEF Callbacks
  <1>3. Size(d) \in Nat /\ Size(d \o <<h>>) = Size(d) + Len(h.name) + Len(h.value)
    BY <1>1, NextSize
  <1>4. Base(e, r.url, d, <<>>) /\ Part(e, h.name, u, TRUE) /\ Open(e, y)
    BY <1>1, ValueIs, ZenonT(60)
  <1>5. Callback(c, r, "value", Taken(f, n)) = e
    BY DEF Callback
  <1> HIDE DEF g, e
  <1>6. Splits(f, "value", t, g)
    BY <1>1 DEF g
  <1>7. /\ f # <<>> /\ Head(f).cb = "value"
        /\ p \in Text /\ q \in Text /\ p \o q = t
        /\ n = Len(t) => p = t /\ Left(f, n) = g
        /\ n # Len(t) => Splits(Left(f, n), "value", q, g)
    BY <1>1, <1>2, <1>6, CutHead
  <1> HIDE DEF p, q
  <1>8. u \in Text /\ u \o q = h.value /\ (n = Len(t) => u = h.value)
    BY <1>1, <1>7, TextFacts, TextAssoc, ZenonT(60)
  <1> HIDE DEF u
  <1>9. /\ d \o <<h>> \in Headers /\ (d \o <<h>>) \o rest = r.headers
        /\ Conforming(r) => Fits(r, d \o <<h>>)
    BY <1>1, ConformingNext
  <1>10. CASE y # None
    <2>1. e.reject # None /\ e.ready = FALSE
      BY <1>4, <1>10 DEF Open
    <2>2. Size(d) + Len(h.name) + Len(u) > MaxHeaderBytes
      BY <1>10
    <2>3. Len(u) \in Nat /\ Len(q) \in Nat /\ Len(u \o q) = Len(u) + Len(q)
          /\ h.name \in Text /\ Len(h.name) \in Nat
      BY <1>1, <1>7, <1>8, TextFacts, HeadersFacts
    <2>4. Size(d \o <<h>>) > MaxHeaderBytes /\ Size(d \o <<h>>) \in Nat
      BY <1>3, <1>8, <2>2, <2>3, CapsAssumption, SMTT(60)
    <2>5. ~Fits(r, d \o <<h>>)
      BY <2>4, CapsAssumption DEF Fits
    <2> QED BY <1>5, <1>7, <1>9, <2>1, <2>5 DEF Outcome
  <1>11. CASE y = None
    <2>1. Open(e, None) /\ e.reject = None
      BY <1>4, <1>11 DEF Open
    <2> HIDE DEF y
    <2>2. CASE n # Len(t)
      <3>1. InValue(r, e, Left(f, n))
        BY <1>1, <1>4, <1>7, <1>8, <2>1, <2>2 DEF InValue, g
      <3> QED BY <1>5, <1>7, <2>1, <3>1 DEF Outcome, Arriving
    <2>3. CASE n = Len(t)
      <3>1. Pending(r, e, d \o <<h>>)
        BY <1>1, <1>4, <1>8, <2>3 DEF Pending
      <3>2. AtHeader(r, e, Left(f, n))
        BY <1>1, <1>7, <1>9, <2>1, <2>3, <3>1 DEF AtHeader, g
      <3> QED BY <1>5, <1>7, <2>1, <3>2 DEF Outcome, Arriving
    <2> QED BY <2>2, <2>3
  <1> QED BY <1>10, <1>11

\* A piece of the body.
LEMMA BodyStep ==
  ASSUME NEW r \in WireRequests, NEW c, NEW f, NEW n, InBody(r, c, f), Takes(f, n)
  PROVE  f # <<>> /\ Outcome(r, Callback(c, r, Head(f).cb, Taken(f, n)), Left(f, n))
  <1> DEFINE g == <<Of("complete", <<>>)>>
  <1>1. PICK got \in Octets, t \in Octets :
          /\ got \o t = r.body /\ Splits(f, "body", t, g)
          /\ Base(c, r.url, r.headers, got) /\ Open(c, None) /\ Conforming(r)
    BY DEF InBody
  <1>2. g \in Pieces /\ "body" \in Callbacks
    BY FeedFacts DEF Callbacks
  <1> DEFINE p == Taken(f, n)
             q == After(t, n)
             u == got \o p
             e == OnBody(c, p)
  <1>3. Callback(c, r, "body", Taken(f, n)) = e
    BY DEF Callback
  <1> HIDE DEF g, e
  <1>4. /\ f # <<>> /\ Head(f).cb = "body"
        /\ p \in Octets /\ q \in Octets /\ p \o q = t
        /\ n = Len(t) => p = t /\ Left(f, n) = g
        /\ n # Len(t) => Splits(Left(f, n), "body", q, g)
    <2>1. t \in Octets /\ Splits(f, "body", t, g)
      BY <1>1
    <2> QED BY <1>2, <2>1, CutBody
  <1> HIDE DEF p, q
  <1>5. u \in Octets /\ u \o q = r.body /\ (n = Len(t) => u = r.body)
    BY <1>1, <1>4, OctetFacts, OctetAssoc, ZenonT(60)
  <1>6. ~(Len(got) + Len(p) > MaxBodyBytes)
    <2>1. Len(u) = Len(got) + Len(p) /\ Len(got) \in Nat /\ Len(p) \in Nat
          /\ Len(q) \in Nat /\ Len(u) \in Nat /\ Len(u \o q) = Len(u) + Len(q)
      BY <1>1, <1>4, <1>5, OctetFacts
    <2>2. Len(r.body) <= MaxBodyBytes
      BY <1>1, ConformingIs
    <2> HIDE DEF u
    <2> QED BY <1>5, <2>1, <2>2, CapsAssumption
  <1>7. Base(e, r.url, r.headers, u) /\ Open(e, None)
    BY <1>1, <1>6, BodyIs DEF e
  <1>8. e.reject = None
    BY <1>7 DEF Open
  <1> HIDE DEF u
  <1>9. CASE n # Len(t)
    <2>1. InBody(r, e, Left(f, n))
      BY <1>1, <1>4, <1>5, <1>7, <1>9 DEF InBody, g
    <2> QED BY <1>3, <1>4, <1>8, <2>1 DEF Outcome, Arriving
  <1>10. CASE n = Len(t)
    <2>1. AtComplete(r, e, Left(f, n))
      BY <1>1, <1>4, <1>5, <1>7, <1>10 DEF AtComplete, g
    <2> QED BY <1>3, <1>4, <1>8, <2>1 DEF Outcome, Arriving
  <1> QED BY <1>9, <1>10

\* The end of the request.
LEMMA MessageStep ==
  ASSUME NEW r \in WireRequests, NEW c, NEW f, NEW n, AtComplete(r, c, f), Takes(f, n)
  PROVE  f # <<>> /\ Outcome(r, Callback(c, r, Head(f).cb, Taken(f, n)), Left(f, n))
  <1> DEFINE g == Of("complete", <<>>)
             p == Taken(f, n)
             e == OnMessageComplete(c, r.keepAlive)
  <1>1. f # <<>> /\ Head(f) = g /\ Tail(f) = <<>>
    BY DEF AtComplete
  <1>2. g.cb = "complete" /\ g.text = <<>>
    BY DEF Of
  <1> HIDE DEF g
  <1>3. n = Len(<<>>)
    BY <1>1, <1>2 DEF Takes
  <1>4. Left(f, n) = <<>>
    BY <1>1, <1>2, <1>3 DEF Left
  <1>5. Callback(c, r, "complete", p) = e
    BY DEF Callback
  <1>6. /\ Base(e, r.url, r.headers, r.body)
        /\ e.ready = TRUE /\ e.keepAlive = r.keepAlive /\ e.reject = None
    <2>1. Base(c, r.url, r.headers, r.body) /\ Open(c, None)
      BY DEF AtComplete
    <2>2. Base(e, r.url, r.headers, r.body)
      BY <2>1, MessageIs
    <2>3. e.ready = TRUE
      BY <2>1, MessageIs
    <2>4. e.keepAlive = r.keepAlive /\ e.reject = None
      BY <2>1, FieldNames DEF OnMessageComplete, Base, Open
    <2> QED BY <2>2, <2>3, <2>4
  <1> HIDE DEF e
  <1>7. Done(r, e, Left(f, n))
    BY <1>4, <1>6 DEF Done, AtComplete
  <1> QED BY <1>1, <1>2, <1>5, <1>6, <1>7 DEF Outcome

\* Whatever part of a piece the parser hands over.
LEMMA ParseStep ==
  ASSUME NEW r \in WireRequests, NEW c, NEW f, NEW n, Arriving(r, c, f), Takes(f, n)
  PROVE  f # <<>> /\ Outcome(r, Callback(c, r, Head(f).cb, Taken(f, n)), Left(f, n))
  BY BeginStep, UrlStep, HeaderStep, NameStep, ValueStep, BodyStep, MessageStep DEF Arriving

(***************************************************************************)
(* The request the handler is given.                                       *)
(***************************************************************************)
\* Where a byte first occurs in a text, or 0.
FirstAt(s, x) == SelectInSeq(s, LAMBDA b : b = x)

\* FirstAt is the place of the first x, and 0 if there is none.
LEMMA FirstAtIs ==
  ASSUME NEW S, NEW s \in Seq(S), NEW x
  PROVE  /\ FirstAt(s, x) = 0 => \A i \in 1..Len(s) : s[i] # x
         /\ FirstAt(s, x) # 0 =>
              /\ FirstAt(s, x) \in 1..Len(s) /\ s[FirstAt(s, x)] = x
              /\ \A i \in 1..(FirstAt(s, x) - 1) : s[i] # x
  <1> DEFINE I == {i \in 1..Len(s) : s[i] = x}
             m == CHOOSE i \in I : \A j \in I : i <= j
  <1>1. FirstAt(s, x) = IF I # {} THEN m ELSE 0
    BY DEF FirstAt, SelectInSeq, Min
  <1>2. I \in SUBSET Nat
    OBVIOUS
  <1>3. I # {} => m \in I /\ \A j \in I : m <= j
    <2> HIDE DEF I
    <2>1. I # {} => \E i \in I : \A j \in I : i <= j
      BY <1>2, LeastNat
    <2> QED BY <2>1
  <1> HIDE DEF m
  <1>4. CASE I = {}
    BY <1>1, <1>4
  <1>5. CASE I # {}
    <2>1. FirstAt(s, x) = m /\ m \in 1..Len(s) /\ s[m] = x /\ m # 0
      BY <1>1, <1>3, <1>5
    <2>2. \A i \in 1..(m - 1) : s[i] # x
      <3> SUFFICES ASSUME NEW i \in 1..(m - 1), s[i] = x PROVE FALSE
        OBVIOUS
      <3>1. i \in I
        BY <2>1
      <3> HIDE DEF I
      <3>2. m <= i
        BY <1>3, <1>5, <3>1
      <3> QED BY <2>1, <3>2
    <2> QED BY <2>1, <2>2
  <1> QED BY <1>4, <1>5

\* A text is what stands before its first x, x, and what stands after it.
LEMMA CutAt ==
  ASSUME NEW s \in Text, NEW x, FirstAt(s, x) # 0
  PROVE  s = SubSeq(s, 1, FirstAt(s, x) - 1) \o <<x>> \o SubSeq(s, FirstAt(s, x) + 1, Len(s))
  <1> DEFINE q == FirstAt(s, x)
             p == SubSeq(s, 1, q - 1)
             u == SubSeq(s, q + 1, Len(s))
  <1>1. s \in Seq(HeadByte)
    BY DEF Text
  <1>2. q \in 1..Len(s) /\ s[q] = x
    BY <1>1, FirstAtIs
  <1>3. x \in HeadByte /\ Len(s) \in Nat
    BY <1>1, <1>2
  <1> HIDE DEF q
  <1>4. /\ p \in Seq(HeadByte) /\ Len(p) = q - 1 /\ \A i \in 1..(q - 1) : p[i] = s[i]
        /\ u \in Seq(HeadByte) /\ Len(u) = Len(s) - q
        /\ \A i \in 1..(Len(s) - q) : u[i] = s[q + i]
    BY <1>1, <1>2, <1>3
  <1> HIDE DEF p, u
  <1> DEFINE v == p \o <<x>> \o u
  <1>5. v \in Seq(HeadByte) /\ Len(v) = Len(s)
    BY <1>2, <1>3, <1>4
  <1>6. ASSUME NEW i \in 1..Len(s) PROVE v[i] = s[i]
    <2>1. CASE i < q
      <3>1. v[i] = p[i] /\ i \in 1..(q - 1)
        BY <1>2, <1>3, <1>4, <2>1
      <3> QED BY <1>4, <3>1
    <2>2. CASE i = q
      <3>1. v[i] = x
        BY <1>2, <1>3, <1>4, <2>2
      <3> QED BY <1>2, <2>2, <3>1
    <2>3. CASE i > q
      <3>1. v[i] = u[i - q] /\ i - q \in 1..(Len(s) - q) /\ q + (i - q) = i
        BY <1>2, <1>3, <1>4, <2>3
      <3> QED BY <1>4, <3>1
    <2> HIDE DEF v
    <2> QED BY <1>2, <1>3, <2>1, <2>2, <2>3
  <1> HIDE DEF v
  <1>7. v = s
    BY <1>1, <1>5, <1>6, SeqEqual
  <1> QED BY <1>7 DEF v, p, u, q

\* What the handler is given of a request: its own parts, with the URL cut at "?".
LEMMA DispatchIs ==
  ASSUME NEW c, NEW method, c.url \in Text
  PROVE  LET h == Dispatch(c, method, "?")
         IN  /\ h.method = method /\ h.body = c.body /\ h.headers = c.headers
             /\ h.keepAlive = c.keepAlive
             /\ c.url \in {h.path, h.path \o <<"?">> \o h.query}
             /\ h # Nothing
  <1> DEFINE q == FirstAt(c.url, "?")
             path == IF q = 0 THEN c.url ELSE SubSeq(c.url, 1, q - 1)
             query == IF q = 0 THEN <<>> ELSE SubSeq(c.url, q + 1, Len(c.url))
             h == [method |-> method, path |-> path, query |-> query,
                   headers |-> c.headers, body |-> c.body, keepAlive |-> c.keepAlive]
  <1>1. Dispatch(c, method, "?") = h
    BY DEF Dispatch, FirstAt
  <1>2. q # 0 => c.url = path \o <<"?">> \o query
    BY CutAt
  <1>3. q = 0 => c.url = path
    OBVIOUS
  <1> HIDE DEF path, query
  <1>4. h.path = path /\ h.query = query /\ h.method = method /\ h.body = c.body
        /\ h.headers = c.headers /\ h.keepAlive = c.keepAlive
    OBVIOUS
  <1>5. h # Nothing
    <2>1. "none" \notin DOMAIN h /\ "none" \in DOMAIN Nothing
      BY DEF Nothing
    <2> QED BY <2>1
  <1> HIDE DEF h
  <1> QED BY <1>1, <1>2, <1>3, <1>4, <1>5

(***************************************************************************)
(* The connection: which request it is on, how far it has come, and what   *)
(* has been done about it.                                                 *)
(***************************************************************************)
\* What the connection holds is the request r, all of it, and r conforms.
Delivered(r, c) ==
  /\ c.url = r.url /\ c.body = r.body /\ c.headers = Low(r.headers)
  /\ c.reject = None /\ Conforming(r)
  /\ c.keepAlive = TRUE => r.keepAlive = TRUE /\ c.pipelined = FALSE

\* Between two requests nothing is left of the last one.
IdleInv ==
  ~Is(sent) => /\ asm = EmptyRequest /\ feed = <<>>
               /\ ~Is(handled) /\ ~Is(work) /\ ~Is(frame)
SentInv == Is(sent) => sent \in WireRequests

\* A refusal is owed to the request; until the handler has it, no reply is.
RefusedInv ==
  (Is(sent) /\ asm.reject # None) =>
     asm.ready = FALSE /\ ~Conforming(sent) /\ ~Is(handled) /\ ~Is(work)
ArrivingInv ==
  (Is(sent) /\ asm.reject = None /\ ~Is(handled)) =>
     /\ Arriving(sent, asm, feed) \/ Done(sent, asm, feed)
     /\ ~Is(frame) /\ ~Is(work)
HandledInv ==
  Is(handled) => /\ Is(sent) /\ feed = <<>> /\ Delivered(sent, asm)
                 /\ handled = Dispatch(asm, sent.method, "?")
WorkInv ==
  Is(work) => /\ Is(handled) /\ ~Is(frame) /\ handled.method = "POST"
              /\ Parses(handled.body) /\ work = Parsed(handled.body)
              /\ work.kind # "scalar"

\* The inductive invariant of the HTTP transport.
AssemblyInv ==
  IdleInv /\ SentInv /\ RefusedInv /\ ArrivingInv /\ HandledInv /\ WorkInv

\* A request is complete only when all of it is in.
LEMMA ReadyIsDone ==
  ASSUME NEW r, NEW c, NEW f, Arriving(r, c, f)
  PROVE  c.ready = FALSE
  <1>1. EmptyRequest.ready = FALSE
    BY DEF EmptyRequest
  <1> QED BY <1>1 DEF Arriving, AtBegin, AtUrl, AtHeader, InName, InValue, InBody, AtComplete,
                     Open

\* A new connection is between two requests.
LEMMA InitAssembly == Init => AssemblyInv
  <1> SUFFICES ASSUME Init PROVE AssemblyInv
    OBVIOUS
  <1>1. ~Is(sent) /\ asm = EmptyRequest /\ feed = <<>> /\ ~Is(handled) /\ ~Is(work) /\ ~Is(frame)
    BY DEF Init, Is
  <1> QED BY <1>1 DEF AssemblyInv, IdleInv, SentInv, RefusedInv, ArrivingInv, HandledInv, WorkInv

\* A request put on the wire begins to arrive.
LEMMA SendKeeps ==
  ASSUME AssemblyInv, NEW r \in Requests, Send(r)
  PROVE  AssemblyInv'
  <1>1. sent' = r /\ feed' = Spans(r) /\ asm' = asm /\ handled' = handled /\ work' = work
        /\ frame' = frame /\ ~Is(sent)
    BY DEF Send
  <1>2. asm' = EmptyRequest /\ ~Is(handled)' /\ ~Is(work)' /\ ~Is(frame)'
    BY <1>1 DEF AssemblyInv, IdleInv, Is
  <1>3. r \in WireRequests /\ r # Nothing
    BY WireType, ServerAssumption
  <1>4. AtBegin(sent', asm', feed')
    BY <1>1, <1>2 DEF AtBegin
  <1>5. asm'.reject = None
    BY <1>2 DEF EmptyRequest
  <1> QED BY <1>1, <1>2, <1>3, <1>4, <1>5
      DEF AssemblyInv, IdleInv, SentInv, RefusedInv, ArrivingInv, HandledInv, WorkInv, Is, Arriving

\* Every part of a piece the parser hands over takes it one state further.
LEMMA ParseKeeps ==
  ASSUME AssemblyInv, NEW n, Parse(n)
  PROVE  AssemblyInv'
  <1>1. /\ feed # <<>> /\ asm.reject = None /\ Takes(feed, n)
        /\ asm' = Callback(asm, sent, Head(feed).cb, Taken(feed, n))
        /\ feed' = Left(feed, n)
        /\ sent' = sent /\ handled' = handled /\ work' = work /\ frame' = frame
    BY DEF Parse, Takes, Taken, Left
  <1>2. Is(sent) /\ ~Is(handled)
    BY <1>1 DEF AssemblyInv, IdleInv, HandledInv
  <1>3. Arriving(sent, asm, feed) /\ ~Is(work) /\ ~Is(frame)
    BY <1>1, <1>2 DEF AssemblyInv, ArrivingInv, Done
  <1>4. sent \in WireRequests
    BY <1>2 DEF AssemblyInv, SentInv
  <1>5. Outcome(sent, asm', feed')
    BY <1>1, <1>3, <1>4, ParseStep
  <1>6. Is(sent)' /\ ~Is(handled)' /\ ~Is(work)' /\ ~Is(frame)' /\ sent' \in WireRequests
    BY <1>1, <1>2, <1>3, <1>4 DEF Is
  <1> QED BY <1>1, <1>5, <1>6
      DEF AssemblyInv, IdleInv, SentInv, RefusedInv, ArrivingInv, HandledInv, WorkInv, Outcome

\* A refusal is written only for a request that is owed one.
LEMMA RefuseKeeps ==
  ASSUME AssemblyInv, Refuse
  PROVE  AssemblyInv'
  <1>1. asm.reject # None /\ sent' = sent /\ asm' = asm /\ handled' = handled /\ work' = work
    BY DEF Refuse
  <1>2. EmptyRequest.reject = None
    BY DEF EmptyRequest
  <1>3. Is(sent)
    BY <1>1, <1>2 DEF AssemblyInv, IdleInv
  <1>4. asm.ready = FALSE /\ ~Conforming(sent) /\ ~Is(handled) /\ ~Is(work)
        /\ sent \in WireRequests
    BY <1>1, <1>3 DEF AssemblyInv, RefusedInv, SentInv
  <1> QED BY <1>1, <1>3, <1>4
      DEF AssemblyInv, IdleInv, SentInv, RefusedInv, ArrivingInv, HandledInv, WorkInv, Is

\* When the reply is written nothing of the request is left.
LEMMA WriteKeeps ==
  ASSUME AssemblyInv, OnWriteDone
  PROVE  AssemblyInv'
  <1>1. Is(frame) /\ work' = work /\ asm' = EmptyRequest /\ sent' = Nothing /\ feed' = <<>>
        /\ handled' = Nothing /\ frame' = Nothing
    BY DEF OnWriteDone, ResetForNextRequest
  <1>2. ~Is(work)
    BY <1>1 DEF AssemblyInv, WorkInv
  <1> QED BY <1>1, <1>2
      DEF AssemblyInv, IdleInv, SentInv, RefusedInv, ArrivingInv, HandledInv, WorkInv, Is

\* The end of the work changes nothing about the request.
LEMMA WorkKeeps ==
  ASSUME AssemblyInv, WorkDone
  PROVE  AssemblyInv'
  <1>1. Is(work) /\ work' = Nothing /\ sent' = sent /\ feed' = feed /\ asm' = asm
        /\ handled' = handled
    BY DEF WorkDone
  <1>2. Is(handled) /\ Is(sent)
    BY <1>1 DEF AssemblyInv, WorkInv, HandledInv
  <1>3. SentInv' /\ HandledInv'
    BY <1>1 DEF AssemblyInv, SentInv, HandledInv, Is
  <1>4. RefusedInv'
    BY <1>1, <1>2 DEF AssemblyInv, RefusedInv, Is
  <1> QED BY <1>1, <1>2, <1>3, <1>4 DEF AssemblyInv, IdleInv, ArrivingInv, WorkInv, Is

\* AfterExecute keeps what has been assembled.
LEMMA AfterIs ==
  ASSUME NEW r, NEW c, NEW f, Done(r, c, f), NEW trailing, NEW d,
         d = AfterExecute(IF trailing = "request" THEN OnMessageBegin(c) ELSE c,
                          trailing = "bytes")
  PROVE  Delivered(r, d)
  <1> DEFINE b == IF trailing = "request" THEN OnMessageBegin(c) ELSE c
  <1>1. /\ DOMAIN c = Fields /\ c.url = r.url /\ c.body = r.body /\ c.headers = Low(r.headers)
        /\ c.pipelined = FALSE /\ c.reject = None /\ c.keepAlive = r.keepAlive /\ c.ready = TRUE
        /\ Conforming(r)
    BY DEF Done, Base
  <1>0. {"keepAlive", "forceClose", "pipelined"} \subseteq Fields
    BY DEF Fields, EmptyRequest
  <1>2. b = c \/ b = [c EXCEPT !.pipelined = TRUE]
    BY DEF OnMessageBegin
  <1>3. /\ DOMAIN b = Fields /\ b.url = r.url /\ b.body = r.body /\ b.headers = Low(r.headers)
        /\ b.reject = None
    BY <1>1, <1>2, FieldNames
  <1>4. d = IF b.pipelined \/ trailing = "bytes"
            THEN [b EXCEPT !.keepAlive = FALSE, !.forceClose = TRUE] ELSE b
    BY DEF AfterExecute
  <1>5. b = c => d = c \/ d = [b EXCEPT !.keepAlive = FALSE, !.forceClose = TRUE]
    BY <1>4
  <1>6. b = [c EXCEPT !.pipelined = TRUE] => d = [b EXCEPT !.keepAlive = FALSE, !.forceClose = TRUE]
    BY <1>0, <1>1, <1>4
  <1> HIDE DEF b
  <1>7. CASE d = c
    BY <1>1, <1>7 DEF Delivered
  <1>8. CASE d = [b EXCEPT !.keepAlive = FALSE, !.forceClose = TRUE]
    <2>1. d.url = r.url /\ d.body = r.body /\ d.headers = Low(r.headers) /\ d.reject = None
      BY <1>3, <1>8, FieldNames
    <2>2. d.keepAlive = FALSE
      BY <1>0, <1>3, <1>8
    <2> QED BY <1>1, <2>1, <2>2 DEF Delivered
  <1> QED BY <1>2, <1>5, <1>6, <1>7, <1>8

\* The handler answers at once, or puts the message it was given to work.
LEMMA HandleIs ==
  ASSUME NEW c, NEW req, Handle(c, req)
  PROVE  \/ work' = work
         \/ /\ frame' = frame /\ work' = Parsed(req.body) /\ req.method = "POST"
            /\ Parses(req.body) /\ Parsed(req.body).kind # "scalar"
  BY ZenonT(60) DEF Handle, HandlePost

\* A request is dispatched once, when all of it is in.
LEMMA BeforeDispatch ==
  ASSUME AssemblyInv, NEW trailing, DispatchRequest(trailing)
  PROVE  /\ ~Is(handled) /\ ~Is(frame) /\ ~Is(work) /\ Is(sent)
         /\ Done(sent, asm, feed) /\ sent \in WireRequests
  <1>1. asm.ready /\ ~Is(handled)
    BY DEF DispatchRequest
  <1>2. Is(sent)
    BY <1>1 DEF AssemblyInv, IdleInv, EmptyRequest
  <1>3. asm.reject = None /\ sent \in WireRequests
    BY <1>1, <1>2 DEF AssemblyInv, RefusedInv, SentInv
  <1>4. Done(sent, asm, feed) /\ ~Is(frame) /\ ~Is(work)
    BY <1>1, <1>2, <1>3, ReadyIsDone DEF AssemblyInv, ArrivingInv
  <1> QED BY <1>1, <1>2, <1>3, <1>4

\* A request that is dispatched is the one that was sent.
LEMMA DispatchKeeps ==
  ASSUME AssemblyInv, NEW trailing, DispatchRequest(trailing)
  PROVE  AssemblyInv'
  <1>1. /\ sent' = sent /\ feed' = feed
        /\ asm' = AfterExecute(IF trailing = "request" THEN OnMessageBegin(asm) ELSE asm,
                               trailing = "bytes")
        /\ handled' = Dispatch(asm', sent.method, "?")
        /\ Handle(asm', handled')
    BY DEF DispatchRequest
  <1>2. Is(sent)
    BY BeforeDispatch
  <1>3. sent \in WireRequests
    BY BeforeDispatch
  <1>4. Done(sent, asm, feed) /\ ~Is(frame) /\ ~Is(work)
    BY BeforeDispatch
  <1>5. feed = <<>>
    BY <1>4 DEF Done
  <1>6. Delivered(sent, asm')
    BY <1>1, <1>4, AfterIs
  <1>7. asm'.url \in Text
    BY <1>3, <1>6, WireFacts DEF Delivered
  <1>8. handled' # Nothing /\ handled'.method = sent.method
    <2> DEFINE a == asm'
               h == Dispatch(a, sent.method, "?")
    <2>1. handled' = h
      BY <1>1
    <2> HIDE DEF a
    <2>2. a.url \in Text
      BY <1>7 DEF a
    <2>3. h # Nothing /\ h.method = sent.method
      BY <2>2, DispatchIs, ZenonT(60)
    <2> QED BY <2>1, <2>3
  <1>9. Is(sent)' /\ SentInv' /\ IdleInv'
    BY <1>1, <1>2, <1>3 DEF SentInv, IdleInv, Is
  <1>10. HandledInv'
    BY <1>1, <1>5, <1>6, <1>9 DEF HandledInv
  <1>11. RefusedInv' /\ ArrivingInv'
    BY <1>6, <1>8 DEF RefusedInv, ArrivingInv, Delivered, Is
  <1>12. WorkInv'
    <2>1. CASE work' = work
      BY <1>4, <2>1 DEF WorkInv, Is
    <2>2. CASE /\ frame' = frame /\ work' = Parsed(handled'.body) /\ handled'.method = "POST"
               /\ Parses(handled'.body) /\ Parsed(handled'.body).kind # "scalar"
      BY <1>4, <1>8, <2>2 DEF WorkInv, Is, Parses, Named
    <2> QED BY <1>1, <2>1, <2>2, HandleIs
  <1> QED BY <1>9, <1>10, <1>11, <1>12 DEF AssemblyInv

\* Everything else leaves the connection alone.
LEMMA OthersKeep ==
  ASSUME AssemblyInv,
         UNCHANGED <<sent, feed, asm, handled, work, frame>>
  PROVE  AssemblyInv'
  BY DEF AssemblyInv, IdleInv, SentInv, RefusedInv, ArrivingInv, HandledInv, WorkInv, Is, Parses,
         Named

\* So every step keeps the invariant.
LEMMA StepAssembly == AssemblyInv /\ [Next]_svars => AssemblyInv'
  <1> SUFFICES ASSUME AssemblyInv, [Next]_svars PROVE AssemblyInv'
    OBVIOUS
  <1>1. CASE UNCHANGED svars
    BY <1>1, OthersKeep DEF svars, conn
  <1>2. CASE RunLine
    BY <1>2, OthersKeep DEF RunLine, conn
  <1>3. CASE Http
    <2>1. CASE \E r \in Requests : Send(r)
      BY <2>1, SendKeeps
    <2>2. CASE feed # <<>> /\ \E n \in 0..Len(Head(feed).text) : Parse(n)
      BY <2>2, ParseKeeps
    <2>3. CASE Refuse
      BY <2>3, RefuseKeeps
    <2>4. CASE \E trailing \in {"none", "bytes", "request"} : DispatchRequest(trailing)
      BY <2>4, DispatchKeeps
    <2>5. CASE WorkDone
      BY <2>5, WorkKeeps
    <2>6. CASE OnWriteDone
      BY <2>6, WriteKeeps
    <2>7. CASE OthersWork \/ OthersDone
      BY <2>7, OthersKeep DEF OthersWork, OthersDone
    <2> QED BY <1>3, <2>1, <2>2, <2>3, <2>4, <2>5, <2>6, <2>7 DEF Http
  <1> QED BY <1>1, <1>2, <1>3 DEF Next

\* On every reachable state of the HTTP transport, what the llhttp callbacks have
\* stored is exactly the part of the request that has arrived, however the bytes
\* were cut, and nothing of the request before it
\* (conn.cc:441-465, 600-735).
THEOREM AssemblyHolds == Spec => []AssemblyInv
  BY InitAssembly, StepAssembly, PTL DEF Spec

\* What the handler is given, from the state of the connection.
LEMMA GivenIsSent == AssemblyInv => HandledIsSent
  <1> SUFFICES ASSUME AssemblyInv PROVE HandledIsSent
    OBVIOUS
  <1>1. ASSUME Is(handled)
        PROVE  /\ Conforming(sent)
               /\ handled.method = sent.method /\ handled.body = sent.body
               /\ sent.url \in {handled.path, handled.path \o <<"?">> \o handled.query}
               /\ handled.headers = [i \in DOMAIN sent.headers |->
                    [name |-> Lower(sent.headers[i].name), value |-> sent.headers[i].value]]
    <2>1. Delivered(sent, asm) /\ handled = Dispatch(asm, sent.method, "?") /\ Is(sent)
      BY <1>1 DEF AssemblyInv, HandledInv
    <2>2. asm.url = sent.url /\ asm.url \in Text
      BY <2>1, WireFacts DEF AssemblyInv, SentInv, Delivered
    <2>3. /\ handled.method = sent.method /\ handled.body = asm.body
          /\ handled.headers = asm.headers
          /\ asm.url \in {handled.path, handled.path \o <<"?">> \o handled.query}
      BY <2>1, <2>2, DispatchIs, ZenonT(60)
    <2>4. Conforming(sent) /\ asm.body = sent.body /\ asm.headers = Low(sent.headers)
      BY <2>1 DEF Delivered
    <2> QED BY <2>2, <2>3, <2>4 DEF Low, Lowered
  <1>2. ASSUME asm.reject # None PROVE ~Conforming(sent)
    <2>1. Is(sent)
      BY <1>2 DEF AssemblyInv, IdleInv, EmptyRequest
    <2> QED BY <1>2, <2>1 DEF AssemblyInv, RefusedInv
  <1> QED BY <1>1, <1>2 DEF HandledIsSent

\* The handler is given the request the client sent: its method, URL, headers and
\* body, no piece lost, doubled or left over from another request; and only a request
\* that breaks a cap, sends a chunked body or expects 100-continue is refused
\* (conn.cc:600-768).
THEOREM HandledIsAlwaysSent == Spec => []HandledIsSent
  BY AssemblyHolds, GivenIsSent, PTL

(***************************************************************************)
(* The replies of a message, and the ids it is owed.                       *)
(***************************************************************************)
\* Whatever a call is answered with, it is under the id of the call.
LEMMA CallKeepsId ==
  ASSUME NEW id, NEW params
  PROVE  HandleToolsCall(id, params).id = id
  BY DEF HandleToolsCall, HandleListCycles, AdaptHandler, MakeToolResult, MakeError

LEMMA AnswerKeepsId ==
  ASSUME NEW id, NEW code, NEW data, NEW params
  PROVE  /\ MakeError(id, code).id = id /\ MakeResult(id, data).id = id
         /\ HandleInitialize(id, params).id = id /\ HandleToolsList(id).id = id
  BY DEF MakeError, MakeResult, HandleInitialize, HandleToolsList

\* An object is answered once, under the id it is owed, or not at all.
LEMMA OneIs ==
  ASSUME NEW x, x.kind = "object", NEW b \in BOOLEAN
  PROVE  \/ DispatchOne(x, b) = NoResponse /\ OwedTo(x, b) = <<>>
         \/ \E m : DispatchOne(x, b) = Reply(m) /\ OwedTo(x, b) = <<m.id>>
  <1> DEFINE hasId == x.id # Absent
             id == IF hasId THEN x.id ELSE Null
             r == DispatchOne(x, b)
  <1>1. CASE x.id = Wrong
    <2>1. r = Reply(MakeError(Null, InvalidRequest)) /\ OwedTo(x, b) = <<Null>>
      BY <1>1 DEF DispatchOne, IsEchoableId, OwedTo, Absent, Wrong
    <2> QED BY <2>1, AnswerKeepsId
  <1>2. CASE x.id # Wrong /\ x.version # "2.0"
    <2>1. r = Reply(MakeError(id, InvalidRequest)) /\ OwedTo(x, b) = <<id>>
      BY <1>2 DEF DispatchOne, IsEchoableId, OwedTo
    <2> QED BY <2>1, AnswerKeepsId
  <1>3. CASE x.id # Wrong /\ x.version = "2.0" /\ x.method = "initialize" /\ b = TRUE
    <2>1. r = Reply(MakeError(id, InvalidRequest)) /\ OwedTo(x, b) = <<id>>
      BY <1>3 DEF DispatchOne, IsEchoableId, OwedTo, Absent, Wrong
    <2> QED BY <2>1, AnswerKeepsId
  <1>4. CASE x.id # Wrong /\ x.version = "2.0" /\ ~(x.method = "initialize" /\ b = TRUE)
    <2>1. \E m : m.id = id /\ r = IF hasId THEN Reply(m) ELSE NoResponse
      <3>1. CASE x.method \in {Absent, Wrong}
        <4>1. r = IF hasId THEN Reply(MakeError(id, InvalidRequest)) ELSE NoResponse
          BY <1>4, <3>1 DEF DispatchOne, IsEchoableId, Absent, Wrong
        <4> QED BY <4>1, AnswerKeepsId
      <3>2. CASE x.method = "initialize"
        <4>1. r = IF hasId THEN Reply(HandleInitialize(id, x.params)) ELSE NoResponse
          BY <1>4, <3>2 DEF DispatchOne, IsEchoableId, Absent, Wrong
        <4> QED BY <4>1, AnswerKeepsId
      <3>3. CASE x.method = "ping"
        <4>1. r = IF hasId THEN Reply(MakeResult(id, <<>>)) ELSE NoResponse
          BY <1>4, <3>3 DEF DispatchOne, IsEchoableId, Absent, Wrong
        <4> QED BY <4>1, AnswerKeepsId
      <3>4. CASE x.method = "tools/list"
        <4>1. r = IF hasId THEN Reply(HandleToolsList(id)) ELSE NoResponse
          BY <1>4, <3>4 DEF DispatchOne, IsEchoableId, Absent, Wrong
        <4> QED BY <4>1, AnswerKeepsId
      <3>5. CASE x.method = "tools/call"
        <4> DEFINE m == IF x.params.object THEN HandleToolsCall(id, x.params)
                        ELSE MakeError(id, InvalidParams)
        <4>1. r = IF hasId THEN Reply(m) ELSE NoResponse
          BY <1>4, <3>5 DEF DispatchOne, IsEchoableId, Absent, Wrong
        <4>2. m.id = id
          BY AnswerKeepsId, CallKeepsId
        <4> QED BY <4>1, <4>2
      <3>6. CASE x.method \notin {Absent, Wrong, "initialize", "ping", "tools/list", "tools/call"}
        <4>1. r = IF hasId THEN Reply(MakeError(id, MethodNotFound)) ELSE NoResponse
          BY <1>4, <3>6 DEF DispatchOne, IsEchoableId
        <4> QED BY <4>1, AnswerKeepsId
      <3> QED BY <3>1, <3>2, <3>3, <3>4, <3>5, <3>6
    <2>2. OwedTo(x, b) = IF hasId THEN <<id>> ELSE <<>>
      BY <1>4 DEF OwedTo
    <2> QED BY <2>1, <2>2
  <1> QED BY <1>1, <1>2, <1>3, <1>4

\* Mapping the elements of the sequences that are put together.
MapEach(f, v) == [i \in DOMAIN v |-> Map(f, v[i])]

\* A function on 1..n is a sequence.
LEMMA SeqIs ==
  ASSUME NEW S, NEW n \in Nat, NEW s, s = [i \in 1..n |-> s[i]], \A i \in 1..n : s[i] \in S
  PROVE  s \in Seq(S) /\ Len(s) = n
  OBVIOUS

\* Mapped before they are put together, or after.
LEMMA MapFlat ==
  ASSUME NEW S, NEW R, NEW f, Maps(f, S, R), NEW v \in Seq(Seq(S))
  PROVE  FlattenSeq(MapEach(f, v)) = Map(f, FlattenSeq(v))
  <1>a. ASSUME NEW w \in Seq(Seq(S))
        PROVE  MapEach(f, w) \in Seq(Seq(R)) /\ Len(MapEach(f, w)) = Len(w)
    <2>1. \A i \in DOMAIN w : w[i] \in Seq(S)
      OBVIOUS
    <2>2. \A i \in DOMAIN w : Map(f, w[i]) \in Seq(R)
      BY <2>1, MapType
    <2>3. Len(w) \in Nat /\ DOMAIN w = 1..Len(w)
      OBVIOUS
    <2> QED BY <2>2, <2>3, SeqIs DEF MapEach
  <1>b. Map(f, <<>>) = <<>>
    BY DEF Map
  <1> DEFINE T == {k \in Nat : \A w \in Seq(Seq(S)) : Len(w) = k =>
                     FlattenSeq(MapEach(f, w)) = Map(f, FlattenSeq(w))}
  <1>1. 0 \in T
    <2>1. ASSUME NEW w \in Seq(Seq(S)), Len(w) = 0
          PROVE  FlattenSeq(MapEach(f, w)) = Map(f, FlattenSeq(w))
      <3>1. w = <<>>
        BY <2>1, EmptySeq
      <3>2. MapEach(f, <<>>) = <<>>
        BY DEF MapEach
      <3> QED BY <1>b, <3>1, <3>2, FlatEmpty
    <2> QED BY <2>1
  <1>2. ASSUME NEW k \in Nat, k \in T PROVE k + 1 \in T
    <2>1. ASSUME NEW w \in Seq(Seq(S)), Len(w) = k + 1
          PROVE  FlattenSeq(MapEach(f, w)) = Map(f, FlattenSeq(w))
      <3> DEFINE t == SubSeq(w, 1, k)
                 x == w[k + 1]
      <3>1. t \in Seq(Seq(S)) /\ x \in Seq(S) /\ Len(t) = k /\ w = Append(t, x)
        BY <2>1, SplitLast
      <3> HIDE DEF t, x
      <3>2. MapEach(f, w) = Append(MapEach(f, t), Map(f, x))
        <4> DEFINE m == MapEach(f, t)
                   y == Map(f, x)
                   n == MapEach(f, w)
        <4>1. m \in Seq(Seq(R)) /\ Len(m) = k /\ y \in Seq(R)
          BY <1>a, <3>1, MapType
        <4>2. n \in Seq(Seq(R)) /\ Len(n) = k + 1
          BY <1>a, <2>1
        <4>3. \A i \in 1..k : n[i] = m[i]
          <5>1. \A i \in 1..k : i \in DOMAIN w /\ i \in DOMAIN t /\ w[i] = t[i]
            BY <3>1
          <5> QED BY <5>1 DEF MapEach
        <4>4. n[k + 1] = y
          <5>1. k + 1 \in DOMAIN w /\ w[k + 1] = x
            BY <3>1
          <5> QED BY <5>1 DEF MapEach
        <4> HIDE DEF m, n, y
        <4>5. /\ Append(m, y) \in Seq(Seq(R)) /\ Len(Append(m, y)) = k + 1
              /\ \A i \in 1..(k + 1) : n[i] = Append(m, y)[i]
          BY <4>1, <4>3, <4>4
        <4>6. n = Append(m, y)
          BY <4>2, <4>5, SeqEqual
        <4> QED BY <4>6 DEF m, n, y
      <3>3. FlattenSeq(MapEach(f, t)) = Map(f, FlattenSeq(t))
        BY <1>2, <3>1
      <3>4. FlattenSeq(MapEach(f, w)) = FlattenSeq(MapEach(f, t)) \o Map(f, x)
        BY <1>a, <3>1, <3>2, MapType, FlatAppend
      <3>5. FlattenSeq(w) = FlattenSeq(t) \o x
        BY <3>1, FlatAppend
      <3>6. Map(f, FlattenSeq(t) \o x) = Map(f, FlattenSeq(t)) \o Map(f, x)
        BY <3>1, FlatType, MapConcat, SMTT(60)
      <3> QED BY <3>3, <3>4, <3>5, <3>6
    <2> QED BY <2>1
  <1> HIDE DEF T
  <1>3. Nat \subseteq T
    BY <1>1, <1>2, NatSetInduction
  <1>4. Len(v) \in T
    BY <1>3, LenProperties
  <1> QED BY <1>4 DEF T

\* The members of a batch are answered in order, each as it is owed.
LEMMA BatchIs ==
  ASSUME NEW items, items \in Seq(ToSet(items))
  PROVE  /\ Ids(BatchReplies(items))
              = FlattenSeq([i \in DOMAIN items |-> OwedTo(items[i], TRUE)])
         /\ BatchReplies(items) = <<>> <=> Ids(BatchReplies(items)) = <<>>
  <1> DEFINE v == [i \in DOMAIN items |->
                     IF items[i].kind # "object" THEN <<MakeError(Null, InvalidRequest)>>
                     ELSE DispatchOne(items[i], TRUE).envelopes]
             w == [i \in DOMAIN items |-> OwedTo(items[i], TRUE)]
  <1>1. ASSUME NEW i \in DOMAIN items
        PROVE  \/ v[i] = <<>> /\ w[i] = <<>>
               \/ \E m : v[i] = <<m>> /\ w[i] = <<m.id>>
    <2>1. CASE items[i].kind # "object"
      <3> DEFINE m == MakeError(Null, InvalidRequest)
      <3>1. v[i] = <<m>> /\ w[i] = <<Null>>
        BY <2>1 DEF OwedTo
      <3>2. m.id = Null
        BY AnswerKeepsId
      <3> HIDE DEF m, v, w
      <3> QED BY <3>1, <3>2
    <2>2. CASE items[i].kind = "object"
      <3>1. v[i] = DispatchOne(items[i], TRUE).envelopes /\ w[i] = OwedTo(items[i], TRUE)
        BY <2>2
      <3>2. NoResponse.envelopes = <<>> /\ \A m : Reply(m).envelopes = <<m>>
        BY DEF NoResponse, Reply
      <3> HIDE DEF v, w
      <3>3. \/ DispatchOne(items[i], TRUE) = NoResponse /\ OwedTo(items[i], TRUE) = <<>>
            \/ \E m : DispatchOne(items[i], TRUE) = Reply(m)
                     /\ OwedTo(items[i], TRUE) = <<m.id>>
        BY <2>2, OneIs
      <3> QED BY <3>1, <3>2, <3>3
    <2> QED BY <2>1, <2>2
  <1>2. BatchReplies(items) = FlattenSeq(v)
    BY DEF BatchReplies
  <1>3. Len(items) \in Nat /\ DOMAIN items = 1..Len(items)
    OBVIOUS
  <1>4. v = [i \in 1..Len(items) |-> v[i]] /\ w = [i \in 1..Len(items) |-> w[i]]
    BY <1>3
  <1> HIDE DEF v, w
  <1> DEFINE S == {v[i][1] : i \in DOMAIN items}
             R == {e.id : e \in S}
             f == [e \in S |-> e.id]
  <1>5. Maps(f, S, R)
    BY DEF Maps
  <1>6. ASSUME NEW i \in DOMAIN items PROVE v[i] \in Seq(S) /\ Map(f, v[i]) = w[i]
    <2>1. CASE v[i] = <<>> /\ w[i] = <<>>
      BY <2>1 DEF Map
    <2>2. ASSUME NEW m, v[i] = <<m>>, w[i] = <<m.id>>
          PROVE  v[i] \in Seq(S) /\ Map(f, v[i]) = w[i]
      <3>1. m \in S
        <4>1. v[i][1] = m
          BY <2>2
        <4> QED BY <4>1
      <3>2. f[m] = m.id
        BY <3>1
      <3> HIDE DEF S, f
      <3>3. <<m>> \in Seq(S)
        BY <3>1
      <3>4. Map(f, <<m>>) = <<m.id>>
        BY <3>2 DEF Map
      <3> QED BY <2>2, <3>3, <3>4
    <2> QED BY <1>1, <2>1, <2>2
  <1> HIDE DEF S, R, f
  <1>7. v \in Seq(Seq(S))
    BY <1>3, <1>4, <1>6, SeqIs
  <1>8. MapEach(f, v) = w
    BY <1>3, <1>4, <1>6 DEF MapEach
  <1>9. FlattenSeq(w) = Map(f, FlattenSeq(v)) /\ FlattenSeq(v) \in Seq(S)
    BY <1>5, <1>7, <1>8, MapFlat, FlatType
  <1> DEFINE F == FlattenSeq(v)
  <1>10. Ids(F) = Map(f, F)
    <2>1. \A i \in DOMAIN F : f[F[i]] = F[i].id
      <3>1. \A i \in DOMAIN F : F[i] \in S
        BY <1>9
      <3> QED BY <3>1 DEF f
    <2> QED BY <2>1 DEF Ids, Map
  <1>11. F = <<>> <=> Ids(F) = <<>>
    <2> HIDE DEF F
    <2>1. F \in Seq(S)
      BY <1>9 DEF F
    <2>2. DOMAIN Ids(F) = DOMAIN F /\ (Len(F) # 0 => 1 \in DOMAIN F) /\ (Len(F) = 0 => F = <<>>)
      BY <2>1, EmptySeq DEF Ids
    <2>3. Ids(<<>>) = <<>>
      BY DEF Ids
    <2>4. DOMAIN <<>> = {}
      OBVIOUS
    <2> QED BY <2>2, <2>3, <2>4
  <1> QED BY <1>2, <1>9, <1>10, <1>11 DEF w

\* The ids of a reply, and of none.
LEMMA ReplyIs ==
  ASSUME NEW m
  PROVE  /\ Ids(Reply(m).envelopes) = <<m.id>> /\ Reply(m).has = TRUE
         /\ Ids(NoResponse.envelopes) = <<>> /\ NoResponse.has = FALSE
         /\ NoResponse.envelopes = <<>> /\ <<m.id>> # <<>>
  BY DEF Ids, Reply, NoResponse

\* A message is answered under the ids it is owed, and not at all if it is owed none.
LEMMA DispatchedIs ==
  ASSUME NEW doc, IsDocument(doc), doc.kind # "scalar"
  PROVE  LET r == Dispatched(doc)
         IN  /\ Ids(r.envelopes) = OwedIds(doc)
             /\ \/ r.has = TRUE /\ OwedIds(doc) # <<>>
                \/ r.has = FALSE /\ OwedIds(doc) = <<>>
  <1>1. CASE doc.kind = "object"
    <2>1. Dispatched(doc) = DispatchOne(doc, FALSE) /\ OwedIds(doc) = OwedTo(doc, FALSE)
      BY <1>1 DEF Dispatched, OwedIds
    <2>2. CASE DispatchOne(doc, FALSE) = NoResponse /\ OwedTo(doc, FALSE) = <<>>
      BY <2>1, <2>2, ReplyIs
    <2>3. ASSUME NEW m, DispatchOne(doc, FALSE) = Reply(m), OwedTo(doc, FALSE) = <<m.id>>
          PROVE  LET r == Dispatched(doc)
                 IN  Ids(r.envelopes) = OwedIds(doc) /\ r.has = TRUE /\ OwedIds(doc) # <<>>
      BY <2>1, <2>3, ReplyIs
    <2> QED BY <1>1, <2>2, <2>3, OneIs
  <1>2. CASE doc.kind = "array"
    <2> DEFINE items == doc.items
               w == FlattenSeq([i \in DOMAIN items |-> OwedTo(items[i], TRUE)])
    <2>1. items \in Seq(ToSet(items))
      BY <1>2 DEF IsDocument
    <2>2. Len(items) \in Nat /\ (items = <<>> <=> Len(items) = 0)
      BY <2>1, EmptySeq
    <2>3. Dispatched(doc) = DispatchBatch(items)
          /\ OwedIds(doc) = IF Len(items) \in 1..MaxBatchSize THEN w ELSE <<Null>>
      BY <1>2 DEF Dispatched, OwedIds
    <2>4. Ids(BatchReplies(items)) = w /\ (BatchReplies(items) = <<>> <=> w = <<>>)
      BY <2>1, BatchIs
    <2> HIDE DEF items, w
    <2>5. CASE items = <<>> \/ Len(items) > MaxBatchSize
      <3>1. Dispatched(doc) = Reply(MakeError(Null, InvalidRequest)) /\ OwedIds(doc) = <<Null>>
        BY <2>2, <2>3, <2>5, DispatchAssumption DEF DispatchBatch
      <3> DEFINE m == MakeError(Null, InvalidRequest)
      <3>2. m.id = Null
        BY AnswerKeepsId
      <3> HIDE DEF m
      <3>3. Ids(Reply(m).envelopes) = <<Null>> /\ Reply(m).has = TRUE /\ <<Null>> # <<>>
        BY <3>2, ReplyIs
      <3> QED BY <3>1, <3>3 DEF m
    <2>6. CASE ~(items = <<>> \/ Len(items) > MaxBatchSize)
      <3>1. OwedIds(doc) = w
        BY <2>2, <2>3, <2>6, DispatchAssumption
      <3>2. CASE BatchReplies(items) = <<>>
        <4>1. Dispatched(doc) = NoResponse
          BY <2>3, <2>6, <3>2 DEF DispatchBatch
        <4> QED BY <2>4, <3>1, <3>2, <4>1, ReplyIs
      <3>3. CASE BatchReplies(items) # <<>>
        <4>1. Dispatched(doc) = [has |-> TRUE, array |-> TRUE, envelopes |-> BatchReplies(items)]
          BY <2>3, <2>6, <3>3 DEF DispatchBatch
        <4>2. Dispatched(doc).envelopes = BatchReplies(items) /\ Dispatched(doc).has = TRUE
          BY <4>1
        <4> QED BY <2>4, <3>1, <3>3, <4>2
      <3> QED BY <3>2, <3>3
    <2> QED BY <2>5, <2>6
  <1> QED BY <1>1, <1>2 DEF IsDocument

\* The document of a text.
LEMMA ParsedIs ==
  ASSUME NEW text, Parses(text)
  PROVE  IsDocument(Parsed(text))
  <1> DEFINE n == CHOOSE n \in Named(text) : TRUE
  <1>1. n \in Named(text)
    BY DEF Parses
  <1> HIDE DEF n
  <1>2. n \in DOMAIN Docs
    BY <1>1 DEF Named
  <1>3. Parsed(text) = Docs[n]
    BY DEF Parsed, n
  <1> QED BY <1>2, <1>3, ServerAssumption

(***************************************************************************)
(* The reply over HTTP.                                                    *)
(***************************************************************************)
LEMMA WriteIs ==
  ASSUME NEW c, NEW method, NEW status, NEW body, NEW keepAlive, NEW type, NEW extra
  PROVE  LET w == WriteResponse(c, method, status, body, keepAlive, type, extra)
         IN  /\ w.status = status
             /\ method # "HEAD" => w.body = body
             /\ w.keepAlive => keepAlive
  BY DEF WriteResponse, BuildResponse

\* The frames that answer a POST: some with no regard to its message, some
\* because it is none.
PostFrame(c, req, st, body) ==
  WriteResponse(c, "POST", st, body, req.keepAlive, "application/json", {})
NoMessage(text) == ~Parses(text) \/ Parsed(text).kind = "scalar"

\* What the handler does with a POST: it writes one of these frames, or starts the work.
LEMMA PostIs ==
  ASSUME NEW c, NEW req, req.method = "POST", Handle(c, req)
  PROVE  \/ frame' = frame
         \/ \E st, body :
              /\ frame' = PostFrame(c, req, st, body)
              /\ \/ st = 404 /\ ~McpPath(req.path)
                 \/ st = 403 /\ ~OriginAllowed(req)
                 \/ st = 503
                 \/ /\ st = 400 /\ McpPath(req.path) /\ OriginAllowed(req) /\ NoMessage(req.body)
                    /\ \E code : body.response = Reply(MakeError(Null, code))
  <1>1. CASE ~McpPath(req.path)
    BY <1>1 DEF Handle, PostFrame
  <1>2. CASE McpPath(req.path) /\ ~OriginAllowed(req)
    BY <1>2 DEF Handle, PostFrame
  <1>3. CASE McpPath(req.path) /\ OriginAllowed(req)
    <2>1. HandlePost(c, req)
      BY <1>3 DEF Handle
    <2>2. CASE inflight >= MaxInflightWork
      BY <2>1, <2>2 DEF HandlePost, PostFrame
    <2>3. CASE ~(inflight >= MaxInflightWork) /\ ~Parses(req.body)
      <3> DEFINE body == [sse |-> FALSE, response |-> FramingError(ParseError)]
      <3>1. frame' = PostFrame(c, req, 400, body)
        BY <2>1, <2>3 DEF HandlePost, PostFrame
      <3>2. body.response = Reply(MakeError(Null, ParseError))
        BY DEF FramingError
      <3> HIDE DEF body
      <3> QED BY <1>3, <2>3, <3>1, <3>2 DEF NoMessage
    <2>4. CASE ~(inflight >= MaxInflightWork) /\ Parses(req.body) /\ Parsed(req.body).kind = "scalar"
      <3> DEFINE body == [sse |-> FALSE, response |-> FramingError(InvalidRequest)]
      <3>1. frame' = PostFrame(c, req, 400, body)
        BY <2>1, <2>4 DEF HandlePost, PostFrame
      <3>2. body.response = Reply(MakeError(Null, InvalidRequest))
        BY DEF FramingError
      <3> HIDE DEF body
      <3> QED BY <1>3, <2>4, <3>1, <3>2 DEF NoMessage
    <2>5. CASE ~(inflight >= MaxInflightWork) /\ Parses(req.body) /\ Parsed(req.body).kind # "scalar"
      BY <2>1, <2>5 DEF HandlePost
    <2> QED BY <2>2, <2>3, <2>4, <2>5
  <1> QED BY <1>1, <1>2, <1>3

\* What is owed for a text that is no message.
LEMMA NoMessageOwed ==
  ASSUME NEW text, NoMessage(text)
  PROVE  OwedForText(text) = <<Null>>
  BY DEF NoMessage, OwedForText, OwedIds, OwedTo

\* The request in the handler's hands, and the connection's promise to stay.
LEMMA HandedOver ==
  ASSUME NEW r \in WireRequests, NEW c, NEW h,
         Delivered(r, c), h = Dispatch(c, r.method, "?")
  PROVE  /\ h.body = r.body
         /\ h.keepAlive => r.keepAlive /\ ~c.pipelined
  <1>1. c.url \in Text
    BY WireFacts DEF Delivered
  <1>2. h.body = c.body /\ h.keepAlive = c.keepAlive
    BY <1>1, DispatchIs
  <1>3. c.body = r.body
    BY DEF Delivered
  <1>4. h.keepAlive => r.keepAlive /\ ~c.pipelined
    BY <1>2 DEF Delivered
  <1> QED BY <1>2, <1>3, <1>4

\* A frame on its own, and the property as a frame's.
Answers(fr, req, r, c) ==
  LET owed == OwedForText(r.body)
      ids == Ids(fr.body.response.envelopes)
  IN  /\ fr.status \in {200, 400} => ids = owed /\ ids # <<>>
      /\ fr.status = 202 => owed = <<>> /\ ids = <<>>
      /\ fr.status = 400 <=> (fr.status # 503 /\ McpPath(req.path)
            /\ OriginAllowed(req) /\ NoMessage(r.body))
      /\ fr.keepAlive => r.keepAlive /\ ~c.pipelined

LEMMA RepliesAnswer ==
  HttpRepliesOwed
    <=> ((Is(frame) /\ Is(handled) /\ handled.method = "POST") => Answers(frame, handled, sent, asm))
  BY DEF HttpRepliesOwed, Answers, NoMessage

\* A reply written when the request is dispatched answers it.
LEMMA DispatchAnswers ==
  ASSUME AssemblyInv, AssemblyInv', NEW trailing, DispatchRequest(trailing),
         Is(frame)', handled'.method = "POST"
  PROVE  Answers(frame', handled', sent', asm')
  <1>1. Handle(asm', handled') /\ ~Is(frame) /\ frame' # frame
    BY BeforeDispatch DEF DispatchRequest, Is
  <1>2. /\ asm' = AfterExecute(IF trailing = "request" THEN OnMessageBegin(asm) ELSE asm,
                               trailing = "bytes")
        /\ handled' = Dispatch(asm', sent.method, "?") /\ sent' = sent
    BY DEF DispatchRequest
  <1>3. handled'.body = sent'.body /\ (handled'.keepAlive => sent'.keepAlive /\ ~asm'.pipelined)
    <2>1. sent \in WireRequests /\ Delivered(sent, asm')
      BY <1>2, BeforeDispatch, AfterIs
    <2> QED BY <1>2, <2>1, HandedOver
  <1>4. PICK st, body :
              /\ frame' = PostFrame(asm', handled', st, body)
              /\ \/ st = 404 /\ ~McpPath(handled'.path)
                 \/ st = 403 /\ ~OriginAllowed(handled')
                 \/ st = 503
                 \/ /\ st = 400 /\ McpPath(handled'.path) /\ OriginAllowed(handled')
                    /\ NoMessage(handled'.body)
                    /\ \E code : body.response = Reply(MakeError(Null, code))
    BY <1>1, PostIs
  <1>5. frame'.status = st /\ frame'.body = body /\ (frame'.keepAlive => handled'.keepAlive)
    BY <1>4, WriteIs DEF PostFrame
  <1>6. frame'.keepAlive => sent'.keepAlive /\ ~asm'.pipelined
    BY <1>3, <1>5
  <1>7. CASE st = 400 /\ McpPath(handled'.path) /\ OriginAllowed(handled')
             /\ NoMessage(handled'.body) /\ \E code : body.response = Reply(MakeError(Null, code))
    <2>1. OwedForText(sent'.body) = <<Null>>
      BY <1>3, <1>7, NoMessageOwed
    <2>2. Ids(frame'.body.response.envelopes) = <<Null>> /\ <<Null>> # <<>>
      <3>1. PICK code : body.response = Reply(MakeError(Null, code))
        BY <1>7
      <3> DEFINE m == MakeError(Null, code)
      <3>2. m.id = Null
        BY AnswerKeepsId
      <3> HIDE DEF m
      <3>3. Ids(Reply(m).envelopes) = <<m.id>> /\ <<m.id>> # <<>>
        BY ReplyIs
      <3>4. frame'.body.response = Reply(m)
        BY <1>5, <3>1 DEF m
      <3> QED BY <3>2, <3>3, <3>4
    <2>3. frame'.status = 400 /\ NoMessage(sent'.body)
      BY <1>3, <1>5, <1>7
    <2> QED BY <1>6, <1>7, <2>1, <2>2, <2>3 DEF Answers
  <1>8. CASE st # 400 /\ st # 200 /\ st # 202
             /\ (st = 503 \/ ~McpPath(handled'.path) \/ ~OriginAllowed(handled'))
    BY <1>5, <1>6, <1>8 DEF Answers
  <1> QED BY <1>4, <1>7, <1>8

\* So does the one the work ends with.
LEMMA WorkAnswers ==
  ASSUME AssemblyInv, WorkDone
  PROVE  Answers(frame', handled', sent', asm')
  <1> DEFINE r == BuildMcpWorkResult(work, WantsSse(handled))
             d == Dispatched(work)
  <1>1. /\ Is(work) /\ handled' = handled /\ sent' = sent /\ asm' = asm
        /\ frame' = WriteResponse(asm, handled.method, r.status, r.body, handled.keepAlive,
                                  r.type, r.extra)
    BY DEF WorkDone
  <1>2. Is(handled) /\ handled.method = "POST" /\ Parses(handled.body)
        /\ work = Parsed(handled.body) /\ work.kind # "scalar"
    BY <1>1 DEF AssemblyInv, WorkInv
  <1>3. handled.body = sent.body /\ (handled.keepAlive => sent.keepAlive /\ ~asm.pipelined)
    <2>1. Delivered(sent, asm) /\ handled = Dispatch(asm, sent.method, "?") /\ Is(sent)
      BY <1>2 DEF AssemblyInv, HandledInv
    <2>2. sent \in WireRequests
      BY <2>1 DEF AssemblyInv, SentInv
    <2> QED BY <2>1, <2>2, HandedOver
  <1>4. OwedForText(sent.body) = OwedIds(work) /\ ~NoMessage(sent.body)
    BY <1>2, <1>3 DEF OwedForText, NoMessage
  <1>5. /\ Ids(d.envelopes) = OwedIds(work)
        /\ \/ d.has = TRUE /\ OwedIds(work) # <<>>
           \/ d.has = FALSE /\ OwedIds(work) = <<>>
    BY <1>2, ParsedIs, DispatchedIs
  <1>6. CASE d.has = TRUE
    <2>1. r.status = 200 /\ r.body.response = d
      BY <1>6 DEF BuildMcpWorkResult
    <2> HIDE DEF r, d
    <2>2. frame'.status = 200 /\ frame'.body = r.body /\ (frame'.keepAlive => handled.keepAlive)
      BY <1>1, <1>2, <2>1, WriteIs
    <2>3. Ids(frame'.body.response.envelopes) = OwedForText(sent.body)
          /\ OwedForText(sent.body) # <<>>
      BY <1>4, <1>5, <1>6, <2>1, <2>2
    <2> QED BY <1>1, <1>3, <1>4, <2>2, <2>3 DEF Answers
  <1>7. CASE d.has = FALSE
    <2>1. r.status = 202 /\ r.body = NoBody
      BY <1>7 DEF BuildMcpWorkResult
    <2> HIDE DEF r, d
    <2>2. frame'.status = 202 /\ frame'.body = NoBody /\ (frame'.keepAlive => handled.keepAlive)
      BY <1>1, <1>2, <2>1, WriteIs
    <2>3. NoBody.response = NoResponse
      BY DEF NoBody
    <2>4. Ids(frame'.body.response.envelopes) = <<>> /\ OwedForText(sent.body) = <<>>
      BY <1>4, <1>5, <1>7, <2>2, <2>3, ReplyIs
    <2> QED BY <1>1, <1>3, <1>4, <2>2, <2>4 DEF Answers
  <1> QED BY <1>5, <1>6, <1>7

\* At first there is no reply.
LEMMA InitReplies == Init => HttpRepliesOwed
  BY DEF Init, HttpRepliesOwed, Is

\* A reply is only ever written by these two, and kept until its request goes.
LEMMA StepReplies == AssemblyInv /\ AssemblyInv' /\ HttpRepliesOwed /\ [Next]_svars => HttpRepliesOwed'
  <1> SUFFICES ASSUME AssemblyInv, AssemblyInv', HttpRepliesOwed, [Next]_svars,
                      Is(frame)', Is(handled)', handled'.method = "POST"
               PROVE  Answers(frame', handled', sent', asm')
    BY DEF HttpRepliesOwed, Answers, NoMessage
  <1>1. ASSUME UNCHANGED <<sent, asm, handled, frame>>
        PROVE  Answers(frame', handled', sent', asm')
    <2>1. Is(frame) /\ Is(handled) /\ handled.method = "POST"
      BY <1>1 DEF Is
    <2>2. Answers(frame, handled, sent, asm)
      BY <2>1, RepliesAnswer
    <2> QED BY <1>1, <2>2
  <1>2. CASE UNCHANGED svars \/ RunLine
    BY <1>1, <1>2 DEF svars, conn, RunLine
  <1>3. CASE Http
    <2>1. CASE \E r \in Requests : Send(r)
      <3>1. ~Is(sent) /\ handled' = handled
        BY <2>1 DEF Send
      <3> QED BY <3>1 DEF AssemblyInv, IdleInv, Is
    <2>2. CASE feed # <<>> /\ \E n \in 0..Len(Head(feed).text) : Parse(n)
      <3>1. handled' = handled
        BY <2>2 DEF Parse
      <3> QED BY <2>2, <3>1 DEF AssemblyInv, HandledInv, Is
    <2>3. CASE Refuse
      <3>1. asm.reject # None /\ handled' = handled /\ EmptyRequest.reject = None
        BY <2>3 DEF Refuse, EmptyRequest
      <3> QED BY <3>1 DEF AssemblyInv, IdleInv, RefusedInv, Is
    <2>4. CASE \E trailing \in {"none", "bytes", "request"} : DispatchRequest(trailing)
      BY <2>4, DispatchAnswers
    <2>5. CASE WorkDone
      BY <2>5, WorkAnswers
    <2>6. CASE OnWriteDone
      BY <2>6 DEF OnWriteDone, Is
    <2>7. CASE OthersWork \/ OthersDone
      BY <1>1, <2>7 DEF OthersWork, OthersDone
    <2> QED BY <1>3, <2>1, <2>2, <2>3, <2>4, <2>5, <2>6, <2>7 DEF Http
  <1> QED BY <1>2, <1>3 DEF Next

\* The reply to a POST holds one envelope per request it carried, in order and under
\* its id, a 202 says that none was owed, a 400 that there was no message, and the
\* connection stays open only if the client may use it (mcp_http.cc:148-275).
THEOREM HttpAlwaysRepliesOwed == Spec => []HttpRepliesOwed
  <1>1. AssemblyInv /\ HttpRepliesOwed /\ [Next]_svars => (AssemblyInv /\ HttpRepliesOwed)'
    BY StepAssembly, StepReplies
  <1> QED BY InitAssembly, InitReplies, <1>1, PTL DEF Spec

(***************************************************************************)
(* The lines of a stdio client.                                            *)
(***************************************************************************)
\* A byte of the input.
Octet == BodyByte \cup {CR, LF}

\* The first newline is where the line ends.
LEMMA NewlineAt ==
  ASSUME NEW s \in Seq(Octet), \A i \in 1..Len(s) : s[i] # LF, NEW u \in Seq(Octet)
  PROVE  /\ FirstAt(s, LF) = 0
         /\ LET in == s \o (<<LF>> \o u)
            IN  /\ in \in Seq(Octet) /\ in # <<>> /\ FirstAt(in, LF) = Len(s) + 1
                /\ SubSeq(in, 1, Len(s)) = s
                /\ SubSeq(in, Len(s) + 2, Len(in)) = u
  <1> DEFINE t == <<LF>> \o u
             in == s \o t
             n == Len(s)
  <1>1. t \in Seq(Octet) /\ Len(t) = Len(u) + 1 /\ t[1] = LF /\ Len(u) \in Nat
        /\ \A i \in 1..Len(u) : t[i + 1] = u[i]
    <2>1. LF \in Octet
      BY DEF Octet
    <2> QED BY <2>1
  <1>2. n \in Nat
    OBVIOUS
  <1> HIDE DEF t
  <1>3. in \in Seq(Octet) /\ Len(in) = n + Len(u) + 1
        /\ (\A i \in 1..n : in[i] = s[i]) /\ in[n + 1] = LF
        /\ \A i \in 1..Len(u) : in[n + 1 + i] = u[i]
    <2>1. in \in Seq(Octet) /\ Len(in) = n + Len(u) + 1
      <3>1. in \in Seq(Octet) /\ Len(in) = n + Len(t)
        BY <1>1, ConcatProperties
      <3> HIDE DEF in, n
      <3> QED BY <1>1, <1>2, <3>1
    <2>2. \A i \in 1..n : in[i] = s[i]
      BY <1>1, <1>2
    <2>3. \A i \in 1..(Len(u) + 1) : in[n + i] = t[i]
      BY <1>1, <1>2
    <2>4. in[n + 1] = LF
      BY <1>1, <1>2, <2>3
    <2>5. ASSUME NEW i \in 1..Len(u) PROVE in[n + 1 + i] = u[i]
      <3>1. i + 1 \in 1..(Len(u) + 1) /\ n + 1 + i = n + (i + 1)
        BY <1>1, <1>2
      <3> QED BY <1>1, <2>3, <3>1
    <2> QED BY <2>1, <2>2, <2>4, <2>5
  <1>a. n = Len(s) /\ \A i \in 1..n : s[i] # LF
    OBVIOUS
  <1>4. FirstAt(s, LF) = 0
    BY FirstAtIs
  <1> HIDE DEF in, n
  <1>5. FirstAt(in, LF) = n + 1
    <2> DEFINE q == FirstAt(in, LF)
    <2>1. /\ q = 0 => \A i \in 1..Len(in) : in[i] # LF
          /\ q # 0 => /\ q \in 1..Len(in) /\ in[q] = LF
                      /\ \A i \in 1..(q - 1) : in[i] # LF
      BY <1>3, FirstAtIs
    <2> HIDE DEF q
    <2>2. n + 1 \in 1..Len(in)
      BY <1>1, <1>2, <1>3
    <2>3. q # 0 /\ q \in 1..Len(in)
      BY <1>3, <2>1, <2>2
    <2>4. ~(n + 1 < q)
      BY <1>2, <1>3, <2>1, <2>3
    <2>5. ~(q < n + 1)
      BY <1>2, <1>3, <1>a, <2>1, <2>3, SMTT(60)
    <2>6. q = n + 1
      BY <1>2, <2>3, <2>4, <2>5, <2>2
    <2> QED BY <2>6 DEF q
  <1>6. SubSeq(in, 1, n) = s
    <2> DEFINE p == SubSeq(in, 1, n)
    <2>1. p \in Seq(Octet) /\ Len(p) = n /\ \A i \in 1..n : p[i] = in[i]
      BY <1>1, <1>2, <1>3
    <2> HIDE DEF p
    <2>2. p = s
      BY <1>3, <1>a, <2>1, SeqEqual
    <2> QED BY <2>2 DEF p
  <1>7. SubSeq(in, n + 2, Len(in)) = u
    <2> DEFINE p == SubSeq(in, n + 2, Len(in))
    <2>1. p \in Seq(Octet) /\ Len(p) = Len(u) /\ \A i \in 1..Len(u) : p[i] = in[n + 1 + i]
      BY <1>1, <1>2, <1>3, SMTT(60)
    <2> HIDE DEF p
    <2>2. p = u
      BY <1>3, <2>1, SeqEqual
    <2> QED BY <2>2 DEF p
  <1>8. in # <<>>
    BY <1>1, <1>2, <1>3
  <1> QED BY <1>3, <1>4, <1>5, <1>6, <1>7, <1>8 DEF in, n, t

\* Reading a line that ends, and the last one that does not.
LEMMA ReadIs ==
  ASSUME NEW s \in Seq(Octet), \A i \in 1..Len(s) : s[i] # LF, NEW u \in Seq(Octet)
  PROVE  LET r == ReadBoundedLine(s \o (<<LF>> \o u), MaxLineLen)
         IN  /\ r.result = IF Len(s) > MaxLineLen THEN "oversized" ELSE "ok"
             /\ r.rest = u
             /\ ~(Len(s) > MaxLineLen) => r.line = StripCR(s)
  <1> DEFINE in == s \o (<<LF>> \o u)
             kept == SubSeq(s, 1, IF Len(s) < MaxLineLen THEN Len(s) ELSE MaxLineLen)
             r == [result |-> IF Len(s) > MaxLineLen THEN "oversized" ELSE "ok",
                   line |-> StripCR(kept), rest |-> u]
  <1>1. in # <<>> /\ FirstAt(in, LF) = Len(s) + 1 /\ SubSeq(in, 1, Len(s)) = s
        /\ SubSeq(in, Len(s) + 2, Len(in)) = u
    BY NewlineAt
  <1>2. Len(s) \in Nat /\ Len(s) + 1 # 0 /\ (Len(s) + 1) - 1 = Len(s)
        /\ (Len(s) + 1) + 1 = Len(s) + 2
    OBVIOUS
  <1> HIDE DEF in
  <1>3. ReadBoundedLine(in, MaxLineLen) = r
    <2>1. SelectInSeq(in, LAMBDA b : b = LF) = Len(s) + 1
      BY <1>1 DEF FirstAt
    <2> QED BY <1>1, <1>2, <2>1 DEF ReadBoundedLine
  <1>4. ~(Len(s) > MaxLineLen) => kept = s
    <2> SUFFICES ASSUME ~(Len(s) > MaxLineLen) PROVE kept = s
      OBVIOUS
    <2>1. (IF Len(s) < MaxLineLen THEN Len(s) ELSE MaxLineLen) = Len(s)
      <3> DEFINE n == Len(s)
      <3>1. n \in Nat /\ MaxLineLen \in Nat /\ ~(n > MaxLineLen)
        BY <1>2, ServerAssumption
      <3> HIDE DEF n
      <3>2. (IF n < MaxLineLen THEN n ELSE MaxLineLen) = n
        BY <3>1
      <3> QED BY <3>2 DEF n
    <2> QED BY <2>1, SubSeqFull
  <1> HIDE DEF kept
  <1> QED BY <1>3, <1>4 DEF in

LEMMA ReadLastIs ==
  ASSUME NEW s \in Seq(Octet), \A i \in 1..Len(s) : s[i] # LF, s # <<>>
  PROVE  LET r == ReadBoundedLine(s, MaxLineLen)
         IN  /\ r.result = IF Len(s) > MaxLineLen THEN "oversized" ELSE "ok"
             /\ r.rest = <<>>
             /\ ~(Len(s) > MaxLineLen) => r.line = s
  <1> DEFINE kept == SubSeq(s, 1, IF Len(s) < MaxLineLen THEN Len(s) ELSE MaxLineLen)
             r == [result |-> IF Len(s) > MaxLineLen THEN "oversized" ELSE "ok",
                   line |-> kept, rest |-> <<>>]
  <1>1. FirstAt(s, LF) = 0
    BY FirstAtIs
  <1>2. Len(s) \in Nat
    OBVIOUS
  <1>3. ReadBoundedLine(s, MaxLineLen) = r
    <2>1. SelectInSeq(s, LAMBDA b : b = LF) = 0
      BY <1>1 DEF FirstAt
    <2> QED BY <2>1 DEF ReadBoundedLine
  <1>4. ~(Len(s) > MaxLineLen) => kept = s
    <2> SUFFICES ASSUME ~(Len(s) > MaxLineLen) PROVE kept = s
      OBVIOUS
    <2>1. (IF Len(s) < MaxLineLen THEN Len(s) ELSE MaxLineLen) = Len(s)
      <3> DEFINE n == Len(s)
      <3>1. n \in Nat /\ MaxLineLen \in Nat /\ ~(n > MaxLineLen)
        BY <1>2, ServerAssumption
      <3> HIDE DEF n
      <3>2. (IF n < MaxLineLen THEN n ELSE MaxLineLen) = n
        BY <3>1
      <3> QED BY <3>2 DEF n
    <2> QED BY <2>1, SubSeqFull
  <1> HIDE DEF kept
  <1> QED BY <1>3, <1>4

\* The bytes of a line, and the same without its carriage return.
Lines == [text : Seq(BodyByte), cr : BOOLEAN]

\* The line endings are bytes of their own.
LEMMA EndingBytes == CR # LF /\ CR \in Octet /\ LF \in Octet /\ BodyByte \subseteq Octet
                     /\ CR \notin BodyByte /\ LF \notin BodyByte
  BY ServerAssumption DEF CR, LF, Octet

\* A line as it is sent, and with its carriage return stripped.
LEMMA EndedIs ==
  ASSUME NEW line \in Lines
  PROVE  /\ line.text \in Seq(BodyByte)
         /\ Ended(line) \in Seq(Octet) /\ \A i \in 1..Len(Ended(line)) : Ended(line)[i] # LF
         /\ Ended(line) = line.text \/ Ended(line) = Append(line.text, CR)
         /\ StripCR(Ended(line)) = line.text
  <1> DEFINE t == line.text
  <1>1. t \in Seq(BodyByte) /\ line.cr \in BOOLEAN
    BY DEF Lines
  <1> HIDE DEF t
  <1>2. t \in Seq(Octet) /\ \A i \in 1..Len(t) : t[i] # LF /\ t[i] # CR
    <2>1. t \in Seq(Octet)
      BY <1>1, EndingBytes, SeqMonotonic
    <2>2. \A i \in 1..Len(t) : t[i] \in BodyByte
      BY <1>1
    <2> QED BY <2>1, <2>2, EndingBytes
  <1>3. CASE line.cr = FALSE
    <2>1. Ended(line) = t
      <3>1. t \o <<>> = t
        BY <1>1, ConcatEmptySeq
      <3> QED BY <1>3, <3>1 DEF Ended, t
    <2>2. t # <<>> => Last(t) # CR
      <3>1. t # <<>> => Len(t) \in 1..Len(t)
        BY <1>1, EmptySeq
      <3> QED BY <1>2, <3>1 DEF Last
    <2>3. StripCR(t) = t
      BY <2>2 DEF StripCR
    <2> QED BY <1>1, <1>2, <2>1, <2>3 DEF t
  <1>4. CASE line.cr = TRUE
    <2> DEFINE e == Append(t, CR)
    <2>1. Ended(line) = e
      <3>1. t \o <<CR>> = Append(t, CR)
        BY <1>2, EndingBytes, AppendIsConcat
      <3> QED BY <1>4, <3>1 DEF Ended, t
    <2>2. e \in Seq(Octet) /\ Len(e) = Len(t) + 1 /\ Len(t) \in Nat /\ e[Len(t) + 1] = CR
          /\ \A i \in 1..Len(t) : e[i] = t[i]
      BY <1>2, EndingBytes
    <2>3. \A i \in 1..Len(e) : e[i] # LF
      <3> HIDE DEF e
      <3> QED BY <1>2, <2>2, EndingBytes
    <2>4. StripCR(e) = t
      <3> DEFINE p == SubSeq(e, 1, Len(t))
      <3>1. p \in Seq(Octet) /\ Len(p) = Len(t) /\ \A i \in 1..Len(t) : p[i] = t[i]
        BY <2>2
      <3>2. e # <<>> /\ Last(e) = CR /\ Front(e) = p
        <4> HIDE DEF e
        <4>1. e # <<>> /\ Len(e) - 1 = Len(t)
          BY <2>2
        <4> QED BY <2>2, <4>1 DEF Last, Front
      <3> HIDE DEF p, e
      <3>3. p = t
        BY <1>2, <3>1, SeqEqual
      <3> QED BY <3>2, <3>3 DEF StripCR
    <2> QED BY <1>1, <2>1, <2>2, <2>3, <2>4 DEF t
  <1> QED BY <1>1, <1>3, <1>4

\* The carriage return of a cut-off line does not change what it says.
LEMMA SameDocument ==
  ASSUME NEW text \in Seq(BodyByte)
  PROVE  Named(Append(text, CR)) = Named(text)
  <1> SUFFICES ASSUME NEW n \in DOMAIN Docs
               PROVE  Append(text, CR) \in {TextOf(n), Append(TextOf(n), CR)}
                        <=> text \in {TextOf(n), Append(TextOf(n), CR)}
    BY DEF Named
  <1> DEFINE T == TextOf(n)
             S == BodyByte \cup {CR} \cup {<<n, k>> : k \in Nat}
             l == TextLength[n]
  <1>1. l \in Nat \ {0}
    BY ServerAssumption
  <1>2. T \in Seq(S) /\ Len(T) = l /\ T[l] = <<n, l>>
    <2>1. T = [k \in 1..l |-> <<n, k>>]
      BY DEF TextOf
    <2> HIDE DEF l, T
    <2>2. \A k \in 1..l : T[k] = <<n, k>> /\ T[k] \in S
      BY <2>1
    <2> HIDE DEF S
    <2>3. T = [k \in 1..l |-> T[k]]
      BY <2>1
    <2> QED BY <1>1, <2>2, <2>3, SeqIs, SMTT(60)
  <1>3. T[l] # CR
    BY <1>1, <1>2 DEF CR
  <1>4. text \in Seq(S) /\ CR \in S
    <2>1. BodyByte \subseteq S
      OBVIOUS
    <2> QED BY <2>1, SeqMonotonic
  <1> HIDE DEF T, S, l
  <1>5. Append(text, CR) # T
    <2>1. Len(Append(text, CR)) = Len(text) + 1 /\ Append(text, CR)[Len(text) + 1] = CR
      BY <1>4
    <2> QED BY <1>2, <1>3, <2>1
  <1>6. text # Append(T, CR)
    <2>1. Len(Append(T, CR)) = l + 1 /\ Append(T, CR)[l + 1] = CR
      BY <1>2, <1>4
    <2>2. \A i \in 1..Len(text) : text[i] # CR
      BY EndingBytes
    <2>3. Len(text) = l + 1 => l + 1 \in 1..Len(text)
      BY <1>1
    <2> QED BY <2>1, <2>2, <2>3
  <1>7. Append(text, CR) = Append(T, CR) <=> text = T
    <2>1. \A s, t \in Seq(S) : Append(s, CR) = Append(t, CR) => s = t
      BY <1>4, AppendInjective
    <2> QED BY <1>2, <1>4, <2>1
  <1> QED BY <1>5, <1>6, <1>7 DEF T

\* What is owed for a line, read with or without its carriage return.
LEMMA LineOwed ==
  ASSUME NEW line \in Lines, NEW read, read \in {line.text, Ended(line)}
  PROVE  /\ Parses(read) <=> Parses(line.text)
         /\ Parsed(read) = Parsed(line.text)
         /\ OwedForText(read) = OwedForText(line.text)
  <1>1. Named(read) = Named(line.text)
    BY EndedIs, SameDocument
  <1>2. (Parses(read) <=> Parses(line.text)) /\ Parsed(read) = Parsed(line.text)
    BY <1>1 DEF Parses, Parsed
  <1> QED BY <1>2 DEF OwedForText

\* The k-th of the sequences that are put together, between the others.
LEMMA FlatAt ==
  ASSUME NEW S, NEW v \in Seq(Seq(S)), NEW n, n = Len(v), NEW k \in 0..(n - 1)
  PROVE  /\ FlattenSeq(SubSeq(v, k + 1, n)) = v[k + 1] \o FlattenSeq(SubSeq(v, k + 2, n))
         /\ FlattenSeq(SubSeq(v, 1, k + 1)) = FlattenSeq(SubSeq(v, 1, k)) \o v[k + 1]
         /\ FlattenSeq(SubSeq(v, k + 2, n)) \in Seq(S) /\ v[k + 1] \in Seq(S)
  <1> DEFINE x == v[k + 1]
             p == SubSeq(v, 1, k)
             p1 == SubSeq(v, 1, k + 1)
             q == SubSeq(v, k + 2, n)
             q1 == SubSeq(v, k + 1, n)
  <1>1. n \in Nat /\ k \in Nat /\ k + 1 \in 1..n /\ k + 1 \in Nat /\ k + 2 \in 1..(n + 1)
    OBVIOUS
  <1>2. x \in Seq(S)
    BY <1>1
  <1>3. p \in Seq(Seq(S)) /\ Len(p) = k /\ \A i \in 1..k : p[i] = v[i]
    BY <1>1
  <1>4. p1 \in Seq(Seq(S)) /\ Len(p1) = k + 1 /\ \A i \in 1..(k + 1) : p1[i] = v[i]
    BY <1>1
  <1>5. q \in Seq(Seq(S)) /\ Len(q) = n - (k + 1)
        /\ \A i \in 1..(n - (k + 1)) : q[i] = v[k + 1 + i]
    BY <1>1
  <1>6. q1 \in Seq(Seq(S)) /\ Len(q1) = n - k /\ \A i \in 1..(n - k) : q1[i] = v[k + i]
    BY <1>1
  <1> HIDE DEF p, p1, q, q1
  <1>7. p1 = Append(p, x)
    <2> DEFINE a == Append(p, x)
    <2>0. x = v[k + 1]
      OBVIOUS
    <2> HIDE DEF x
    <2>1. a \in Seq(Seq(S)) /\ Len(a) = k + 1 /\ a[k + 1] = x /\ \A i \in 1..k : a[i] = p[i]
      BY <1>1, <1>2, <1>3
    <2> HIDE DEF a
    <2>2. \A i \in 1..(k + 1) : a[i] = p1[i]
      BY <1>1, <1>3, <1>4, <2>0, <2>1, SMTT(60)
    <2>3. a = p1
      BY <1>4, <2>1, <2>2, SeqEqual
    <2> QED BY <2>3 DEF a
  <1>8. q1 = <<x>> \o q
    <2> DEFINE a == <<x>> \o q
    <2>0. x = v[k + 1]
      OBVIOUS
    <2> HIDE DEF x
    <2>1. a \in Seq(Seq(S)) /\ Len(a) = 1 + Len(q) /\ a[1] = x
          /\ \A i \in 1..Len(q) : a[i + 1] = q[i]
      BY <1>2, <1>5
    <2> HIDE DEF a
    <2>2. ASSUME NEW i \in 1..(n - k) PROVE a[i] = q1[i]
      <3>1. CASE i = 1
        <4>1. q1[1] = v[k + 1]
          BY <1>6, <3>1
        <4> QED BY <2>0, <2>1, <3>1, <4>1
      <3>2. CASE i # 1
        <4> DEFINE j == i - 1
        <4>1. j \in 1..(n - (k + 1)) /\ j + 1 = i /\ k + 1 + j = k + i
          BY <1>1, <3>2
        <4> HIDE DEF j
        <4>2. a[j + 1] = q[j] /\ q[j] = v[k + 1 + j] /\ q1[i] = v[k + i]
          BY <1>5, <1>6, <2>1, <4>1
        <4> QED BY <4>1, <4>2
      <3> QED BY <3>1, <3>2
    <2>3. Len(a) = Len(q1) /\ Len(q1) = n - k
      BY <1>1, <1>5, <1>6, <2>1
    <2>4. a = q1
      BY <1>6, <2>1, <2>2, <2>3, SeqEqual
    <2> QED BY <2>4 DEF a
  <1> HIDE DEF x
  <1>9. FlattenSeq(q1) = x \o FlattenSeq(q) /\ FlattenSeq(q) \in Seq(S)
    BY <1>2, <1>5, <1>8, FlatCons, FlatType
  <1>10. FlattenSeq(p1) = FlattenSeq(p) \o x
    BY <1>2, <1>3, <1>7, FlatAppend
  <1> QED BY <1>2, <1>9, <1>10 DEF x, p, p1, q, q1

(***************************************************************************)
(* The stdio loop: how many lines it has read, and answered.               *)
(***************************************************************************)
\* The input, line by line; what the client is owed for a line, and in all; the
\* ids of what has been written.
Wire(g) ==
  [i \in DOMAIN g.lines |->
     Ended(g.lines[i]) \o (IF i < Len(g.lines) \/ g.terminated THEN <<LF>> ELSE <<>>)]
LineOwes(line) ==
  IF Len(Ended(line)) > MaxLineLen THEN <<Null>> ELSE OwedForText(line.text)
Owing(g) ==
  [i \in DOMAIN g.lines |->
     IF LineOwes(g.lines[i]) = <<>> THEN <<>> ELSE <<LineOwes(g.lines[i])>>]
OutIds(o) == [i \in DOMAIN o |-> Ids(o[i])]
Owed(g) == {LineOwes(g.lines[i]) : i \in DOMAIN g.lines}

\* k lines have been read: the input is the others, and the output answers these.
LineInv ==
  (transport = "stdio") =>
    /\ given \in StdioInputs
    /\ \E S : out \in Seq(S)
    /\ \E k \in 0..Len(given.lines) :
         /\ input = FlattenSeq(SubSeq(Wire(given), k + 1, Len(given.lines)))
         /\ OutIds(out) = FlattenSeq(SubSeq(Owing(given), 1, k))

\* What is sent for a client's lines, and what they are owed, line by line.
LEMMA WireIs ==
  ASSUME NEW g \in StdioInputs
  PROVE  /\ Len(g.lines) \in Nat /\ \A i \in 1..Len(g.lines) : g.lines[i] \in Lines
         /\ Wire(g) \in Seq(Seq(Octet)) /\ Len(Wire(g)) = Len(g.lines)
         /\ Owing(g) \in Seq(Seq(Owed(g))) /\ Len(Owing(g)) = Len(g.lines)
         /\ \A i \in 1..Len(g.lines) : Wire(g)[i] # <<>>
  <1> DEFINE ls == g.lines
             n == Len(ls)
             x(i) == Ended(ls[i]) \o (IF i < n \/ g.terminated THEN <<LF>> ELSE <<>>)
  <1>1. g.lines \in Seq(Lines) /\ (g.terminated \/ (g.lines # <<>> /\ Ended(Last(g.lines)) # <<>>))
    BY DEF StdioInputs, Lines
  <1>2. n \in Nat /\ DOMAIN ls = 1..n /\ \A i \in 1..n : ls[i] \in Lines
    BY <1>1
  <1>3. ASSUME NEW i \in 1..n PROVE x(i) \in Seq(Octet) /\ x(i) # <<>>
    <2>1. Ended(ls[i]) \in Seq(Octet)
      BY <1>2, EndedIs
    <2>2. CASE i < n \/ g.terminated
      <3>1. x(i) = Ended(ls[i]) \o <<LF>>
        BY <2>2
      <3> DEFINE e == Ended(ls[i])
      <3>2. e \in Seq(Octet) /\ <<LF>> \in Seq(Octet)
        BY <2>1, EndingBytes
      <3> HIDE DEF e
      <3>3. e \o <<LF>> \in Seq(Octet) /\ e \o <<LF>> # <<>>
        BY <3>2
      <3> QED BY <3>1, <3>3 DEF e
    <2>3. CASE ~(i < n \/ g.terminated)
      <3>1. i = n
        BY <1>2, <2>3
      <3>2. x(i) = Ended(ls[i])
        BY <2>1, <2>3, ConcatEmptySeq
      <3>3. Ended(ls[i]) # <<>>
        BY <1>1, <2>3, <3>1 DEF Last
      <3> QED BY <2>1, <3>2, <3>3
    <2> QED BY <2>2, <2>3
  <1>4. ASSUME NEW i \in 1..n PROVE Owing(g)[i] \in Seq(Owed(g))
    <2>1. LineOwes(ls[i]) \in Owed(g)
      BY <1>2 DEF Owed
    <2>2. <<>> \in Seq(Owed(g)) /\ <<LineOwes(ls[i])>> \in Seq(Owed(g))
      BY <2>1, SMTT(60)
    <2> QED BY <1>2, <2>2 DEF Owing
  <1>5. Wire(g) = [i \in 1..n |-> Wire(g)[i]] /\ \A i \in 1..n : Wire(g)[i] = x(i)
    BY <1>2 DEF Wire
  <1>6. Owing(g) = [i \in 1..n |-> Owing(g)[i]]
    BY <1>2 DEF Owing
  <1> HIDE DEF x
  <1>7. \A i \in 1..n : Wire(g)[i] \in Seq(Octet) /\ Wire(g)[i] # <<>>
    BY <1>3, <1>5
  <1>8. Wire(g) \in Seq(Seq(Octet)) /\ Len(Wire(g)) = n
    BY <1>2, <1>5, <1>7, SeqIs
  <1>9. Owing(g) \in Seq(Seq(Owed(g))) /\ Len(Owing(g)) = n
    BY <1>2, <1>4, <1>6, SeqIs
  <1> QED BY <1>2, <1>7, <1>8, <1>9

\* The reply of one turn of the loop.
TurnReply(result, read) ==
  LET e == IF result = "oversized" THEN FramingError(ParseError) ELSE ParseRequest(read)
  IN  IF e.has THEN e ELSE Dispatched(Parsed(read))

\* It answers the line that was read with what the line is owed.
LEMMA TurnIs ==
  ASSUME NEW line \in Lines, NEW result, NEW read,
         result = IF Len(Ended(line)) > MaxLineLen THEN "oversized" ELSE "ok",
         ~(Len(Ended(line)) > MaxLineLen) => read \in {line.text, Ended(line)}
  PROVE  LET r == TurnReply(result, read)
         IN  /\ Ids(r.envelopes) = LineOwes(line)
             /\ \/ r.has = TRUE /\ LineOwes(line) # <<>>
                \/ r.has = FALSE /\ LineOwes(line) = <<>>
  <1> DEFINE r == TurnReply(result, read)
  <1>1. ASSUME NEW code, r = FramingError(code), LineOwes(line) = <<Null>>
        PROVE  Ids(r.envelopes) = LineOwes(line) /\ r.has = TRUE /\ LineOwes(line) # <<>>
    <2> DEFINE m == MakeError(Null, code)
    <2>1. r = Reply(m)
      BY <1>1 DEF FramingError
    <2>2. m.id = Null
      BY AnswerKeepsId
    <2> HIDE DEF m, r
    <2>3. Ids(Reply(m).envelopes) = <<m.id>> /\ Reply(m).has = TRUE /\ <<m.id>> # <<>>
      BY ReplyIs
    <2> QED BY <1>1, <2>1, <2>2, <2>3
  <1>2. \A code : FramingError(code).has = TRUE
    BY DEF FramingError, Reply
  <1>3. CASE Len(Ended(line)) > MaxLineLen
    <2>1. r = FramingError(ParseError) /\ LineOwes(line) = <<Null>>
      BY <1>2, <1>3 DEF TurnReply, LineOwes
    <2> HIDE DEF r
    <2> QED BY <1>1, <2>1 DEF r
  <1>4. CASE ~(Len(Ended(line)) > MaxLineLen)
    <2>1. result # "oversized" /\ LineOwes(line) = OwedForText(read)
      BY <1>4, LineOwed DEF LineOwes
    <2>2. CASE NoMessage(read)
      <3>1. LineOwes(line) = <<Null>>
        BY <2>1, <2>2, NoMessageOwed
      <3>2. \E code : r = FramingError(code)
        BY <1>2, <2>1, <2>2 DEF TurnReply, ParseRequest, NoMessage
      <3> HIDE DEF r
      <3> QED BY <1>1, <3>1, <3>2 DEF r
    <2>3. CASE ~NoMessage(read)
      <3>1. ParseRequest(read) = NoResponse /\ Parses(read) /\ Parsed(read).kind # "scalar"
        BY <2>3 DEF ParseRequest, NoMessage
      <3>2. r = Dispatched(Parsed(read))
        BY <2>1, <3>1, ReplyIs DEF TurnReply
      <3>3. LineOwes(line) = OwedIds(Parsed(read))
        BY <2>1, <3>1 DEF OwedForText
      <3> HIDE DEF r
      <3> DEFINE d == Dispatched(Parsed(read))
      <3>4. /\ Ids(d.envelopes) = OwedIds(Parsed(read))
            /\ \/ d.has = TRUE /\ OwedIds(Parsed(read)) # <<>>
               \/ d.has = FALSE /\ OwedIds(Parsed(read)) = <<>>
        BY <3>1, ParsedIs, DispatchedIs
      <3> HIDE DEF d
      <3> QED BY <3>2, <3>3, <3>4 DEF d, r
    <2> QED BY <2>2, <2>3
  <1> QED BY <1>3, <1>4

\* What one turn does to the output.
LEMMA OutGrows ==
  ASSUME NEW S, NEW o \in Seq(S), NEW r, NEW ids, Ids(r.envelopes) = ids,
         \/ r.has = TRUE /\ ids # <<>>
         \/ r.has = FALSE /\ ids = <<>>
  PROVE  LET p == IF r.has THEN Append(o, r.envelopes) ELSE o
         IN  /\ p \in Seq(S \cup {r.envelopes})
             /\ OutIds(p) = OutIds(o) \o (IF ids = <<>> THEN <<>> ELSE <<ids>>)
  <1> DEFINE R == S \cup {r.envelopes}
             T == {Ids(x) : x \in R}
             f == [x \in R |-> Ids(x)]
  <1>1. o \in Seq(R)
    BY SeqMonotonic
  <1>2. Maps(f, R, T)
    BY DEF Maps
  <1>3. ASSUME NEW u \in Seq(R) PROVE OutIds(u) = Map(f, u)
    <2>1. \A i \in DOMAIN u : u[i] \in R
      OBVIOUS
    <2> QED BY <2>1 DEF OutIds, Map
  <1>4. CASE r.has = TRUE /\ ids # <<>>
    <2> DEFINE e == r.envelopes
    <2>1. e \in R /\ f[e] = ids
      OBVIOUS
    <2> HIDE DEF R, T, f, e
    <2>2. <<e>> \in Seq(R) /\ Append(o, e) = o \o <<e>> /\ Append(o, e) \in Seq(R)
      BY <1>1, <2>1, AppendIsConcat, AppendProperties
    <2>3. Map(f, o \o <<e>>) = Map(f, o) \o Map(f, <<e>>)
      <3> DEFINE u == <<e>>
      <3>1. u \in Seq(R)
        BY <2>2
      <3> HIDE DEF u
      <3>2. Map(f, o \o u) = Map(f, o) \o Map(f, u)
        BY <1>1, <1>2, <3>1, MapConcat
      <3> QED BY <3>2 DEF u
    <2>4. Map(f, <<e>>) = <<ids>>
      BY <2>1 DEF Map
    <2>5. OutIds(Append(o, e)) = OutIds(o) \o <<ids>>
      BY <1>1, <1>3, <2>2, <2>3, <2>4
    <2> QED BY <1>4, <2>2, <2>5 DEF e, R
  <1>5. CASE r.has = FALSE /\ ids = <<>>
    <2>1. OutIds(o) \in Seq(T)
      BY <1>1, <1>2, <1>3, MapType, ZenonT(60)
    <2>2. OutIds(o) \o <<>> = OutIds(o)
      BY <2>1, ConcatEmptySeq
    <2> QED BY <1>1, <1>5, <2>2
  <1> QED BY <1>4, <1>5

\* At first no line has been read.
LEMMA InitLines == Init => LineInv
  <1> SUFFICES ASSUME Init, transport = "stdio"
               PROVE  /\ given \in StdioInputs
                      /\ \E S : out \in Seq(S)
                      /\ \E k \in 0..Len(given.lines) :
                           /\ input = FlattenSeq(SubSeq(Wire(given), k + 1, Len(given.lines)))
                           /\ OutIds(out) = FlattenSeq(SubSeq(Owing(given), 1, k))
    BY DEF LineInv
  <1>1. given \in Inputs /\ input = BytesOf(given) /\ out = <<>>
    BY DEF Init
  <1>2. given \in StdioInputs
    BY <1>1, ServerAssumption
  <1> DEFINE n == Len(given.lines)
             v == Wire(given)
             w == Owing(given)
  <1>3. n \in Nat /\ v \in Seq(Seq(Octet)) /\ Len(v) = n /\ w \in Seq(Seq(Owed(given)))
    BY <1>2, WireIs
  <1>4. BytesOf(given) = FlattenSeq(v)
    BY DEF BytesOf, Wire
  <1> HIDE DEF n, v, w
  <1>5. SubSeq(v, 0 + 1, n) = v
    BY <1>3, SubSeqFull
  <1>6. SubSeq(w, 1, 0) = <<>>
    <2>1. SubSeq(w, 1, 0) \in Seq(Seq(Owed(given))) /\ Len(SubSeq(w, 1, 0)) = 0
      BY <1>3
    <2> QED BY <2>1, EmptySeq
  <1>7. OutIds(<<>>) = <<>>
    BY DEF OutIds
  <1>8. 0 \in 0..n
    BY <1>3
  <1>9. out \in Seq({})
    BY <1>1, EmptySeq
  <1> QED BY <1>1, <1>2, <1>4, <1>5, <1>6, <1>7, <1>8, <1>9, FlatEmpty DEF n, v, w

\* The line the loop reads, and what it leaves.
LEMMA ReadLine ==
  ASSUME NEW g \in StdioInputs, NEW k \in 0..(Len(g.lines) - 1), NEW in,
         in = FlattenSeq(SubSeq(Wire(g), k + 1, Len(g.lines)))
  PROVE  LET r == ReadBoundedLine(in, MaxLineLen)
             line == g.lines[k + 1]
         IN  /\ r.result = IF Len(Ended(line)) > MaxLineLen THEN "oversized" ELSE "ok"
             /\ ~(Len(Ended(line)) > MaxLineLen) => r.line \in {line.text, Ended(line)}
             /\ r.rest = FlattenSeq(SubSeq(Wire(g), k + 2, Len(g.lines)))
  <1> DEFINE n == Len(g.lines)
             v == Wire(g)
             line == g.lines[k + 1]
             e == Ended(line)
             u == FlattenSeq(SubSeq(v, k + 2, n))
             r == ReadBoundedLine(in, MaxLineLen)
  <1>1. n \in Nat /\ v \in Seq(Seq(Octet)) /\ Len(v) = n /\ k + 1 \in 1..n
        /\ line \in Lines /\ v[k + 1] # <<>>
    BY WireIs
  <1>2. v[k + 1] = e \o (IF k + 1 < n \/ g.terminated THEN <<LF>> ELSE <<>>)
    <2>1. DOMAIN g.lines = 1..n
      BY DEF StdioInputs
    <2> QED BY <1>1, <2>1 DEF Wire
  <1>3. /\ e \in Seq(Octet) /\ \A i \in 1..Len(e) : e[i] # LF
        /\ StripCR(e) = line.text
    BY <1>1, EndedIs
  <1> HIDE DEF v, e, line
  <1>4. in = v[k + 1] \o u /\ u \in Seq(Octet)
    <2>1. k \in 0..(n - 1)
      OBVIOUS
    <2> HIDE DEF n
    <2> QED BY <1>1, <2>1, FlatAt, ZenonT(60) DEF n, v
  <1>5. CASE k + 1 < n \/ g.terminated
    <2>1. in = e \o (<<LF>> \o u)
      <3>1. v[k + 1] = e \o <<LF>> /\ <<LF>> \in Seq(Octet)
        BY <1>2, <1>5, EndingBytes
      <3> HIDE DEF u
      <3>2. (e \o <<LF>>) \o u = e \o (<<LF>> \o u)
        BY <1>3, <1>4, <3>1, ConcatAssociative, SMTT(60)
      <3> QED BY <1>4, <3>1, <3>2
    <2> HIDE DEF u
    <2>2. /\ r.result = IF Len(e) > MaxLineLen THEN "oversized" ELSE "ok"
          /\ r.rest = u
          /\ ~(Len(e) > MaxLineLen) => r.line = StripCR(e)
      <3> DEFINE z == ReadBoundedLine(e \o (<<LF>> \o u), MaxLineLen)
      <3>1. u \in Seq(Octet) /\ e \in Seq(Octet) /\ \A i \in 1..Len(e) : e[i] # LF
        BY <1>3, <1>4
      <3>2. /\ z.result = IF Len(e) > MaxLineLen THEN "oversized" ELSE "ok"
            /\ z.rest = u
            /\ ~(Len(e) > MaxLineLen) => z.line = StripCR(e)
        BY <3>1, ReadIs
      <3>3. r = z
        BY <2>1
      <3> QED BY <3>2, <3>3
    <2> QED BY <1>3, <2>2 DEF e, line, u, v
  <1>6. CASE ~(k + 1 < n \/ g.terminated)
    <2>1. v[k + 1] = e
      BY <1>2, <1>3, <1>6, ConcatEmptySeq
    <2>2. u = <<>>
      <3>1. k + 2 = n + 1
        BY <1>1, <1>6
      <3>2. SubSeq(v, k + 2, n) \in Seq(Seq(Octet)) /\ Len(SubSeq(v, k + 2, n)) = 0
        BY <1>1, <3>1
      <3>3. SubSeq(v, k + 2, n) = <<>>
        BY <3>2, EmptySeq
      <3> QED BY <3>3, FlatEmpty
    <2>3. in = e /\ e # <<>>
      BY <1>1, <1>3, <1>4, <2>1, <2>2, ConcatEmptySeq
    <2>4. /\ r.result = IF Len(e) > MaxLineLen THEN "oversized" ELSE "ok"
          /\ r.rest = <<>>
          /\ ~(Len(e) > MaxLineLen) => r.line = e
      BY <1>3, <2>3, ReadLastIs
    <2> QED BY <2>2, <2>4 DEF e, line, v
  <1> QED BY <1>5, <1>6

\* A turn of the loop reads one line more and answers it.
LEMMA RunLineKeeps ==
  ASSUME LineInv, RunLine
  PROVE  LineInv'
  <1> DEFINE g == given
             n == Len(g.lines)
             r == ReadBoundedLine(input, MaxLineLen)
             reply == TurnReply(r.result, r.line)
  <1>1. /\ transport = "stdio" /\ transport' = transport /\ given' = given
        /\ r.result # "eof" /\ input' = r.rest
        /\ out' = IF reply.has THEN Append(out, reply.envelopes) ELSE out
    BY DEF RunLine, TurnReply
  <1>2. g \in StdioInputs
    BY <1>1 DEF LineInv
  <1>3. PICK S : out \in Seq(S)
    BY <1>1 DEF LineInv
  <1>4. PICK k \in 0..n : /\ input = FlattenSeq(SubSeq(Wire(g), k + 1, n))
                          /\ OutIds(out) = FlattenSeq(SubSeq(Owing(g), 1, k))
    BY <1>1 DEF LineInv
  <1>5. /\ n \in Nat /\ Wire(g) \in Seq(Seq(Octet)) /\ Len(Wire(g)) = n
        /\ Owing(g) \in Seq(Seq(Owed(g))) /\ Len(Owing(g)) = n
    BY <1>2, WireIs
  <1>6. k \in 0..(n - 1)
    <2>1. ASSUME k = n PROVE FALSE
      <3>1. SubSeq(Wire(g), n + 1, n) \in Seq(Seq(Octet)) /\ Len(SubSeq(Wire(g), n + 1, n)) = 0
        BY <1>5
      <3>2. SubSeq(Wire(g), n + 1, n) = <<>>
        BY <3>1, EmptySeq
      <3>3. input = <<>>
        BY <1>4, <2>1, <3>2, FlatEmpty
      <3>4. r.result = "eof"
        BY <3>3 DEF ReadBoundedLine
      <3> QED BY <1>1, <3>4
    <2> HIDE DEF n
    <2> QED BY <1>5, <2>1
  <1> DEFINE line == g.lines[k + 1]
  <1>7. /\ r.result = IF Len(Ended(line)) > MaxLineLen THEN "oversized" ELSE "ok"
        /\ ~(Len(Ended(line)) > MaxLineLen) => r.line \in {line.text, Ended(line)}
        /\ r.rest = FlattenSeq(SubSeq(Wire(g), k + 2, n))
    BY <1>2, <1>4, <1>6, ReadLine
  <1>8. line \in Lines /\ k + 1 \in 1..n /\ k + 1 \in 0..n /\ (k + 1) + 1 = k + 2
    <2>1. k + 1 \in 1..n /\ k + 1 \in 0..n /\ (k + 1) + 1 = k + 2
      <3> HIDE DEF n
      <3> QED BY <1>5, <1>6
    <2> QED BY <1>2, <2>1, WireIs
  <1> HIDE DEF r, line
  <1> DEFINE ids == LineOwes(line)
             row == IF ids = <<>> THEN <<>> ELSE <<ids>>
  <1>9. /\ Ids(reply.envelopes) = ids
        /\ \/ reply.has = TRUE /\ ids # <<>>
           \/ reply.has = FALSE /\ ids = <<>>
    BY <1>7, <1>8, TurnIs
  <1> HIDE DEF reply, ids
  <1>10. out' \in Seq(S \cup {reply.envelopes}) /\ OutIds(out') = OutIds(out) \o row
    BY <1>1, <1>3, <1>9, OutGrows
  <1>11. Owing(g)[k + 1] = row
    <2>1. DOMAIN g.lines = 1..n
      BY <1>2 DEF StdioInputs
    <2> QED BY <1>8, <2>1 DEF Owing, ids, line
  <1>12. FlattenSeq(SubSeq(Owing(g), 1, k + 1)) = FlattenSeq(SubSeq(Owing(g), 1, k)) \o row
    <2> HIDE DEF n, row
    <2> QED BY <1>5, <1>6, <1>11, FlatAt, ZenonT(60)
  <1>13. /\ input' = FlattenSeq(SubSeq(Wire(g), (k + 1) + 1, n))
         /\ OutIds(out') = FlattenSeq(SubSeq(Owing(g), 1, k + 1))
    BY <1>1, <1>4, <1>7, <1>8, <1>10, <1>12
  <1>14. given' \in StdioInputs /\ (\E R : out' \in Seq(R))
    BY <1>1, <1>2, <1>10
  <1>15. \E m \in 0..n : /\ input' = FlattenSeq(SubSeq(Wire(g), m + 1, n))
                         /\ OutIds(out') = FlattenSeq(SubSeq(Owing(g), 1, m))
    BY <1>8, <1>13
  <1> QED BY <1>1, <1>14, <1>15 DEF LineInv

\* Nothing else touches the input or the output.
LEMMA StepLines == LineInv /\ [Next]_svars => LineInv'
  <1> SUFFICES ASSUME LineInv, [Next]_svars PROVE LineInv'
    OBVIOUS
  <1>1. CASE UNCHANGED <<transport, stdio>>
    BY <1>1 DEF LineInv, stdio
  <1>2. CASE RunLine
    BY <1>2, RunLineKeeps
  <1> QED BY <1>1, <1>2 DEF Next, Http, svars

\* The loop has read all there is only when it has answered every line.
LEMMA LinesAnswered == LineInv => StdioAnswersEveryLine
  <1> SUFFICES ASSUME LineInv, transport = "stdio", input = <<>>
               PROVE  OutIds(out) = FlattenSeq(Owing(given))
    BY DEF StdioAnswersEveryLine, OutIds, Owing, LineOwes
  <1> DEFINE n == Len(given.lines)
             v == Wire(given)
             w == Owing(given)
  <1>1. given \in StdioInputs
    BY DEF LineInv
  <1>2. PICK k \in 0..n : /\ input = FlattenSeq(SubSeq(v, k + 1, n))
                          /\ OutIds(out) = FlattenSeq(SubSeq(w, 1, k))
    BY DEF LineInv
  <1>3. /\ n \in Nat /\ v \in Seq(Seq(Octet)) /\ Len(v) = n
        /\ w \in Seq(Seq(Owed(given))) /\ Len(w) = n
        /\ \A i \in 1..n : v[i] # <<>>
    BY <1>1, WireIs
  <1> HIDE DEF n, v, w
  <1>4. ~(k \in 0..(n - 1))
    <2> SUFFICES ASSUME k \in 0..(n - 1) PROVE FALSE
      OBVIOUS
    <2> DEFINE x == v[k + 1]
               u == FlattenSeq(SubSeq(v, k + 2, n))
    <2>1. <<>> = x \o u /\ x \in Seq(Octet) /\ u \in Seq(Octet)
      <3>1. v \in Seq(Seq(Octet)) /\ n = Len(v) /\ k \in 0..(n - 1)
        BY <1>3
      <3>2. /\ FlattenSeq(SubSeq(v, k + 1, n)) = x \o u
            /\ u \in Seq(Octet) /\ x \in Seq(Octet)
        BY <3>1, FlatAt, ZenonT(60)
      <3>3. <<>> = FlattenSeq(SubSeq(v, k + 1, n))
        BY <1>2
      <3> HIDE DEF x, u
      <3> QED BY <3>2, <3>3
    <2>2. x # <<>>
      <3>1. k + 1 \in 1..n
        BY <1>3
      <3> QED BY <1>3, <3>1
    <2> HIDE DEF x, u
    <2>3. Len(x \o u) = Len(x) + Len(u) /\ Len(x) \in Nat /\ Len(u) \in Nat /\ Len(x) # 0
      BY <2>1, <2>2, ConcatProperties, EmptySeq
    <2>4. Len(<<>>) = 0
      OBVIOUS
    <2> QED BY <2>1, <2>3, <2>4, SMTT(60)
  <1>5. k = n
    BY <1>2, <1>3, <1>4
  <1>6. SubSeq(w, 1, n) = w
    BY <1>3, SubSeqFull
  <1> QED BY <1>2, <1>5, <1>6 DEF w

\* When the stdio loop has read its input, every line that is owed an answer has one,
\* in the order of the lines, the oversized and malformed ones included, and no other
\* is written (stdio_runner.cc:96-156).
THEOREM StdioAlwaysAnswersEveryLine == Spec => []StdioAnswersEveryLine
  BY InitLines, StepLines, LinesAnswered, PTL DEF Spec
=============================================================================
