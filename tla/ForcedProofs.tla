---------------------------- MODULE ForcedProofs ----------------------------
(***************************************************************************)
(* Proofs about the via merge, for any network, number of via points, k    *)
(* and budget.  Where the hops of a stitched path end can be read off the  *)
(* via points (Layout), so no two picks stitch to one simple path; the sum *)
(* of the hop costs bounds the cost of the whole path from below; and the  *)
(* picks form a tree whose unexplored subtrees the frontier holds (Under). *)
(* ViaInv says so of every state of the merge and follows the fallback's   *)
(* path from via point to via point.                                       *)
(***************************************************************************)
EXTENDS SearchProofs, FunctionTheorems

(***************************************************************************)
(* Sorting.                                                                *)
(***************************************************************************)
LEMMA CheaperOrder ==
  ASSUME NEW s, NEW n \in Nat, DOMAIN s = 1..n, \A i \in 1..n : s[i].cost \in Nat
  PROVE  /\ \A i \in 1..n : ~Cheaper(s, i, i)
         /\ \A i, j \in 1..n : i # j => Cheaper(s, i, j) \/ Cheaper(s, j, i)
         /\ \A i, j, k \in 1..n : Cheaper(s, i, j) /\ Cheaper(s, j, k) => Cheaper(s, i, k)
  BY DEF Cheaper

\* A path that goes before another has the smaller place.
LEMMA PlacesGrow ==
  ASSUME NEW s, NEW n \in Nat, DOMAIN s = 1..n, \A i \in 1..n : s[i].cost \in Nat
  PROVE  /\ \A i \in 1..n : PlaceOf(s, i) \in 1..n
         /\ \A i, j \in 1..n : Cheaper(s, i, j) => PlaceOf(s, i) < PlaceOf(s, j)
  <1> DEFINE B(i) == {j \in 1..n : Cheaper(s, j, i)}
  <1>1. IsFiniteSet(1..n) /\ Cardinality(1..n) = n
    BY FS_Interval
  <1>2. ASSUME NEW i \in 1..n
        PROVE  /\ IsFiniteSet(B(i)) /\ Cardinality(B(i)) \in Nat /\ Cardinality(B(i)) < n
               /\ PlaceOf(s, i) = Cardinality(B(i)) + 1
    <2>1. B(i) \subseteq 1..n /\ i \notin B(i)
      BY CheaperOrder
    <2>2. IsFiniteSet(B(i)) /\ Cardinality(B(i)) <= n /\ (Cardinality(B(i)) = n => B(i) = 1..n)
      BY <2>1, <1>1, FS_Subset, ZenonT(60)
    <2>3. Cardinality(B(i)) \in Nat
      BY <2>2, FS_CardinalityType
    <2>4. Cardinality(B(i)) # n
      BY <2>1, <2>2
    <2> QED BY <2>2, <2>3, <2>4 DEF PlaceOf
  <1>3. ASSUME NEW i \in 1..n, NEW j \in 1..n, Cheaper(s, i, j)
        PROVE  PlaceOf(s, i) < PlaceOf(s, j)
    <2>1. B(i) \subseteq B(j) /\ i \in B(j) /\ i \notin B(i)
      BY <1>3, CheaperOrder
    <2>2. Cardinality(B(i)) <= Cardinality(B(j)) /\ (Cardinality(B(i)) = Cardinality(B(j)) => B(j) = B(i))
      BY <2>1, <1>2, FS_Subset
    <2>3. Cardinality(B(i)) # Cardinality(B(j))
      BY <2>1, <2>2
    <2>4. Cardinality(B(i)) \in Nat /\ Cardinality(B(j)) \in Nat
      BY <1>2
    <2>5. PlaceOf(s, i) = Cardinality(B(i)) + 1 /\ PlaceOf(s, j) = Cardinality(B(j)) + 1
      BY <1>2
    <2> HIDE DEF B
    <2> QED BY <2>2, <2>3, <2>4, <2>5
  <1>4. ASSUME NEW i \in 1..n PROVE PlaceOf(s, i) \in 1..n
    <2>1. Cardinality(B(i)) \in Nat /\ Cardinality(B(i)) < n /\ PlaceOf(s, i) = Cardinality(B(i)) + 1
      BY <1>2
    <2> HIDE DEF B
    <2> QED BY <2>1
  <1> QED BY <1>3, <1>4

\* ByCost puts the paths in another order, by cost.
LEMMA ByCostSorts ==
  ASSUME NEW s, NEW n \in Nat, DOMAIN s = 1..n, \A i \in 1..n : s[i].cost \in Nat
  PROVE  \E q \in [1..n -> 1..n] :
            /\ DOMAIN ByCost(s) = 1..n
            /\ \A i \in 1..n : ByCost(s)[i] = s[q[i]]
            /\ \A i, j \in 1..n : q[i] = q[j] => i = j
            /\ \A i, j \in 1..n : i <= j => s[q[i]].cost <= s[q[j]].cost
  <1> DEFINE place == [i \in 1..n |-> PlaceOf(s, i)]
             q == [k \in 1..n |-> CHOOSE i \in 1..n : PlaceOf(s, i) = k]
  <1>1. /\ \A i \in 1..n : PlaceOf(s, i) \in 1..n
        /\ \A i, j \in 1..n : Cheaper(s, i, j) => PlaceOf(s, i) < PlaceOf(s, j)
    BY PlacesGrow
  <1>2. \A i, j \in 1..n : i # j => Cheaper(s, i, j) \/ Cheaper(s, j, i)
    BY CheaperOrder
  <1>3. place \in Injection(1..n, 1..n)
    <2>1. place \in [1..n -> 1..n]
      BY <1>1
    <2>2. ASSUME NEW i \in 1..n, NEW j \in 1..n, i # j PROVE place[i] # place[j]
      BY <1>1, <1>2, <2>2, SMTT(40)
    <2> QED BY <2>1, <2>2, Fun_IsInj
  <1>4. \A k \in 1..n : \E i \in 1..n : PlaceOf(s, i) = k
    <2>1. IsFiniteSet(1..n)
      BY FS_Interval
    <2>2. place \in Surjection(1..n, 1..n)
      <3> HIDE DEF place
      <3>1. 1..n = 1..n /\ Cardinality(1..n) = Cardinality(1..n)
        OBVIOUS
      <3> QED BY <3>1, <2>1, <1>3, FS_Injection
    <2> QED BY <2>2 DEF Surjection
  <1>5. ASSUME NEW k \in 1..n PROVE q[k] \in 1..n /\ PlaceOf(s, q[k]) = k
    BY <1>4
  <1>6. q \in [1..n -> 1..n]
    BY <1>5
  <1>7. ByCost(s) = [k \in 1..n |-> s[q[k]]]
    BY DEF ByCost
  <1> HIDE DEF q, place
  <1>8. ASSUME NEW i \in 1..n, NEW j \in 1..n, i <= j PROVE s[q[i]].cost <= s[q[j]].cost
    <2>1. PICK a \in 1..n : a = q[i] /\ PlaceOf(s, a) = i
      BY <1>5
    <2>2. PICK b \in 1..n : b = q[j] /\ PlaceOf(s, b) = j
      BY <1>5
    <2>3. ~Cheaper(s, b, a)
      BY <2>1, <2>2, <1>1, <1>8, SMTT(40)
    <2>4. s[a].cost <= s[b].cost
      BY <2>3 DEF Cheaper
    <2> QED BY <2>1, <2>2, <2>4
  <1>9. \A i, j \in 1..n : q[i] = q[j] => i = j
    BY <1>5
  <1> QED BY <1>6, <1>7, <1>8, <1>9

(***************************************************************************)
(* Joining hop paths.                                                      *)
(***************************************************************************)
IsJoin(f, parts, n) ==
    f = [h \in 1..n |-> IF h = 1 THEN parts[1] ELSE f[h - 1] \o Tail(parts[h])]

\* The recursion that defines Concatenate has a solution.
LEMMA JoinExists ==
  ASSUME NEW parts, NEW n \in Nat
  PROVE  \E f : IsJoin(f, parts, n)
  <1> DEFINE S == {k \in Nat : \E f : IsJoin(f, parts, k)}
  <1>1. 0 \in S
    <2>1. IsJoin([h \in 1..0 |-> <<>>], parts, 0)
      BY DEF IsJoin
    <2> QED BY <2>1
  <1>2. ASSUME NEW k \in Nat, k \in S PROVE k + 1 \in S
    <2>1. PICK f : IsJoin(f, parts, k)
      BY <1>2
    <2> DEFINE last == IF k + 1 = 1 THEN parts[1] ELSE f[k] \o Tail(parts[k + 1])
               t == [h \in 1..(k + 1) |-> IF h = k + 1 THEN last ELSE f[h]]
    <2>2. ASSUME NEW h \in 1..(k + 1)
          PROVE  t[h] = IF h = 1 THEN parts[1] ELSE t[h - 1] \o Tail(parts[h])
      <3>1. CASE h = k + 1
        <4>1. h # 1 => t[h - 1] = f[k]
          BY <3>1
        <4>2. t[h] = last
          BY <3>1
        <4> HIDE DEF t
        <4> QED BY <3>1, <4>1, <4>2
      <3>2. CASE h # k + 1
        <4>1. h \in 1..k /\ t[h] = f[h] /\ (h # 1 => t[h - 1] = f[h - 1])
          BY <3>2
        <4>2. f[h] = IF h = 1 THEN parts[1] ELSE f[h - 1] \o Tail(parts[h])
          BY <4>1, <2>1 DEF IsJoin
        <4> HIDE DEF t
        <4> QED BY <4>1, <4>2
      <3> QED BY <3>1, <3>2
    <2>3. IsJoin(t, parts, k + 1)
      BY <2>2 DEF IsJoin
    <2> QED BY <2>3
  <1> HIDE DEF S
  <1>3. Nat \subseteq S
    BY <1>1, <1>2, NatSetInduction
  <1> QED BY <1>3 DEF S

\* r lies in w from position s to position t.
Lies(w, r, s, t) ==
    /\ t + 1 = s + Len(r)
    /\ \A i \in 1..Len(r) : w[(s - 1) + i] = r[i]

\* The parts lie in w one after the other, each beginning where the one before ends.
Layout(w, at, parts, n) ==
    /\ w \in Seq(Vertex)
    /\ at \in [0..n -> 1..Len(w)]
    /\ at[0] = 1 /\ at[n] = Len(w)
    /\ \A h \in 1..n : Lies(w, parts[h], at[h - 1], at[h])

\* A part begins where the one before ends.
Seam(parts, h) == parts[h][Len(parts[h])] = parts[h + 1][1]

ArePaths(parts, n) == \A h \in 1..n : parts[h] \in Seq(Vertex) /\ parts[h] # <<>>

LEMMA PathLen ==
  ASSUME NEW p \in Seq(Vertex), p # <<>>
  PROVE  /\ Len(p) \in Nat /\ Len(p) >= 1 /\ DOMAIN p = 1..Len(p)
         /\ \A i \in 1..Len(p) : p[i] \in Vertex
         /\ Tail(p) \in Seq(Vertex) /\ Len(Tail(p)) = Len(p) - 1
         /\ \A i \in 1..(Len(p) - 1) : Tail(p)[i] = p[i + 1]
  <1>1. Len(p) \in Nat /\ DOMAIN p = 1..Len(p) /\ Len(p) # 0
    BY LenProperties, EmptySeq
  <1>2. \A i \in 1..Len(p) : p[i] \in Vertex
    BY ElementOfSeq
  <1>3. /\ Tail(p) \in Seq(Vertex) /\ Len(Tail(p)) = Len(p) - 1
        /\ \A i \in 1..(Len(p) - 1) : Tail(p)[i] = p[i + 1]
    BY <1>1, HeadTailProperties
  <1> QED BY <1>1, <1>2, <1>3

LEMMA LayoutOne ==
  ASSUME NEW parts, parts[1] \in Seq(Vertex), parts[1] # <<>>
  PROVE  \E at : Layout(parts[1], at, parts, 1)
  <1>1. PICK w : w = parts[1]
    OBVIOUS
  <1>2. PICK n \in Nat : n = Len(w) /\ n >= 1
    BY <1>1, PathLen
  <1> DEFINE at == [h \in 0..1 |-> IF h = 0 THEN 1 ELSE n]
  <1>3. at \in [0..1 -> 1..n] /\ at[0] = 1 /\ at[1] = n
    BY <1>2
  <1>4. Lies(w, w, 1, n)
    BY <1>2 DEF Lies
  <1>5. \A h \in 1..1 : h = 1 /\ h - 1 = 0
    OBVIOUS
  <1> HIDE DEF at
  <1>6. \A h \in 1..1 : Lies(w, parts[h], at[h - 1], at[h])
    BY <1>1, <1>3, <1>4, <1>5
  <1>7. Layout(w, at, parts, 1)
    BY <1>1, <1>2, <1>3, <1>6 DEF Layout
  <1> QED BY <1>1, <1>7

\* The tail of a part that begins where w ends, put after w.
LEMMA TailAfter ==
  ASSUME NEW w \in Seq(Vertex), w # <<>>, NEW r \in Seq(Vertex), r # <<>>, w[Len(w)] = r[1]
  PROVE  /\ w \o Tail(r) \in Seq(Vertex)
         /\ \A i \in 1..Len(w) : (w \o Tail(r))[i] = w[i]
         /\ Len(w) <= Len(w \o Tail(r))
         /\ Lies(w \o Tail(r), r, Len(w), Len(w \o Tail(r)))
         /\ Len(w \o Tail(r)) \in Nat
  <1>1. PICK n \in Nat : n = Len(w) /\ n >= 1
    BY PathLen
  <1>2. PICK m \in Nat : m = Len(r) /\ m >= 1
    BY PathLen
  <1>3. PICK t : t = Tail(r)
    OBVIOUS
  <1>4. t \in Seq(Vertex) /\ Len(t) = m - 1 /\ \A i \in 1..(m - 1) : t[i] = r[i + 1]
    BY <1>2, <1>3, PathLen
  <1>5. PICK v : v = w \o t
    OBVIOUS
  <1>6. /\ v \in Seq(Vertex) /\ Len(v) = n + (m - 1)
        /\ \A i \in 1..(n + (m - 1)) : v[i] = IF i <= n THEN w[i] ELSE t[i - n]
    <2>1. /\ v \in Seq(Vertex) /\ Len(v) = Len(w) + Len(t)
          /\ \A i \in 1..(Len(w) + Len(t)) : v[i] = IF i <= Len(w) THEN w[i] ELSE t[i - Len(w)]
      BY <1>4, <1>5, ConcatProperties
    <2>2. Len(w) = n /\ Len(t) = m - 1
      BY <1>1, <1>4
    <2> QED BY <2>1, <2>2
  <1>7. \A i \in 1..n : v[i] = w[i]
    BY <1>1, <1>2, <1>6
  <1>8. ASSUME NEW i \in 1..m PROVE v[(n - 1) + i] = r[i]
    <2>1. CASE i = 1
      <3>1. (n - 1) + i = n /\ n \in 1..n
        BY <1>1, <2>1
      <3> QED BY <3>1, <2>1, <1>1, <1>7
    <2>2. CASE i # 1
      <3>1. PICK j \in 1..(m - 1) : j = i - 1 /\ i = j + 1
        BY <1>2, <2>2
      <3>2. PICK k \in 1..(n + (m - 1)) : k = (n - 1) + i /\ ~(k <= n) /\ k - n = j
        <4>1. (n - 1) + i = n + j /\ n + j \in 1..(n + (m - 1)) /\ ~(n + j <= n) /\ (n + j) - n = j
          BY <1>1, <1>2, <3>1
        <4> QED BY <4>1
      <3>3. v[k] = t[j]
        BY <3>2, <1>6
      <3> QED BY <3>1, <3>2, <3>3, <1>4
    <2> QED BY <2>1, <2>2
  <1>9. Len(v) \in Nat /\ n <= Len(v) /\ Len(v) + 1 = n + m
    BY <1>1, <1>2, <1>6
  <1>10. Lies(v, r, n, Len(v))
    BY <1>2, <1>8, <1>9 DEF Lies
  <1> QED BY <1>1, <1>3, <1>5, <1>6, <1>7, <1>9, <1>10

\* What lies in w also lies in a path that begins as w does.
LEMMA LiesLonger ==
  ASSUME NEW w, NEW v, NEW n \in Nat, \A i \in 1..n : v[i] = w[i],
         NEW r, Len(r) \in Nat, NEW s \in 1..n, NEW t \in 1..n, Lies(w, r, s, t)
  PROVE  Lies(v, r, s, t)
  <1>1. t + 1 = s + Len(r) /\ \A i \in 1..Len(r) : w[(s - 1) + i] = r[i]
    BY DEF Lies
  <1>2. ASSUME NEW i \in 1..Len(r) PROVE v[(s - 1) + i] = r[i]
    <2>1. (s - 1) + i \in 1..n
      BY <1>1
    <2> QED BY <2>1, <1>1
  <1> QED BY <1>1, <1>2 DEF Lies

LEMMA LayoutMore ==
  ASSUME NEW parts, NEW n \in Nat \ {0}, ArePaths(parts, n + 1), NEW w, NEW at,
         Layout(w, at, parts, n), Seam(parts, n)
  PROVE  \E bt : Layout(w \o Tail(parts[n + 1]), bt, parts, n + 1)
  <1>1. PICK r : r = parts[n + 1]
    OBVIOUS
  <1>2. r \in Seq(Vertex) /\ r # <<>>
    BY <1>1 DEF ArePaths
  <1>3. /\ w \in Seq(Vertex) /\ at \in [0..n -> 1..Len(w)] /\ at[0] = 1 /\ at[n] = Len(w)
        /\ \A h \in 1..n : Lies(w, parts[h], at[h - 1], at[h])
    BY DEF Layout
  <1>4. PICK m \in Nat : m = Len(w) /\ m >= 1 /\ w # <<>>
    <2>1. Len(w) \in Nat /\ 1 \in 1..Len(w)
      BY <1>3, LenProperties
    <2> QED BY <2>1, EmptySeq, <1>3
  <1>5. w[m] = r[1]
    <2>1. PICK q : q = parts[n]
      OBVIOUS
    <2>2. Len(q) \in Nat /\ Len(q) >= 1
      BY <2>1, PathLen DEF ArePaths
    <2>3. Lies(w, q, at[n - 1], m) /\ at[n - 1] \in 1..m
      BY <2>1, <1>3, <1>4
    <2>4. m + 1 = at[n - 1] + Len(q) /\ w[(at[n - 1] - 1) + Len(q)] = q[Len(q)]
      BY <2>2, <2>3 DEF Lies
    <2>5. (at[n - 1] - 1) + Len(q) = m
      BY <2>2, <2>3, <2>4, <1>4, SMTT(40)
    <2>6. q[Len(q)] = r[1]
      BY <2>1, <1>1 DEF Seam
    <2> QED BY <2>4, <2>5, <2>6
  <1>6. PICK v : v = w \o Tail(r)
    OBVIOUS
  <1>7. /\ v \in Seq(Vertex) /\ (\A i \in 1..m : v[i] = w[i]) /\ m <= Len(v) /\ Len(v) \in Nat
        /\ Lies(v, r, m, Len(v))
    BY <1>2, <1>3, <1>4, <1>5, <1>6, TailAfter
  <1> DEFINE bt == [h \in 0..(n + 1) |-> IF h = n + 1 THEN Len(v) ELSE at[h]]
  <1>8. bt \in [0..(n + 1) -> 1..Len(v)] /\ bt[0] = 1 /\ bt[n + 1] = Len(v) /\ \A h \in 0..n : bt[h] = at[h]
    BY <1>3, <1>4, <1>7
  <1> HIDE DEF bt
  <1>9. ASSUME NEW h \in 1..(n + 1) PROVE Lies(v, parts[h], bt[h - 1], bt[h])
    <2>1. CASE h = n + 1
      BY <2>1, <1>1, <1>3, <1>4, <1>7, <1>8
    <2>2. CASE h # n + 1
      <3>1. h \in 1..n /\ h - 1 \in 0..n /\ h \in 0..n
        BY <2>2
      <3>2. at[h - 1] \in 1..m /\ at[h] \in 1..m /\ Lies(w, parts[h], at[h - 1], at[h])
        BY <3>1, <1>3, <1>4
      <3>3. Len(parts[h]) \in Nat
        BY PathLen DEF ArePaths
      <3>4. Lies(v, parts[h], at[h - 1], at[h])
        <4>1. PICK q : q = parts[h]
          OBVIOUS
        <4>2. PICK a \in 1..m : a = at[h - 1]
          BY <3>2
        <4>3. PICK b \in 1..m : b = at[h]
          BY <3>2
        <4>4. Lies(w, q, a, b) /\ Len(q) \in Nat
          BY <3>2, <3>3, <4>1, <4>2, <4>3
        <4>5. Lies(v, q, a, b)
          BY <4>4, <1>7, LiesLonger
        <4> QED BY <4>1, <4>2, <4>3, <4>5
      <3> QED BY <3>1, <3>4, <1>8
    <2> QED BY <2>1, <2>2
  <1>10. Layout(v, bt, parts, n + 1)
    BY <1>7, <1>8, <1>9 DEF Layout
  <1> QED BY <1>1, <1>6, <1>10

LEMMA ConcatenateLays ==
  ASSUME NEW parts, NEW n \in Nat \ {0}, Len(parts) = n, ArePaths(parts, n),
         \A h \in 1..(n - 1) : Seam(parts, h)
  PROVE  \E at : Layout(Concatenate(parts), at, parts, n)
  <1> DEFINE f == CHOOSE f : IsJoin(f, parts, n)
  <1>1. IsJoin(f, parts, n)
    BY JoinExists
  <1>2. Concatenate(parts) = f[n]
    BY DEF Concatenate, IsJoin
  <1> HIDE DEF f
  <1> DEFINE S == {k \in Nat : k + 1 <= n => \E at : Layout(f[k + 1], at, parts, k + 1)}
  <1>3. 0 \in S
    <2>1. f[1] = parts[1]
      BY <1>1 DEF IsJoin
    <2>2. parts[1] \in Seq(Vertex) /\ parts[1] # <<>>
      BY DEF ArePaths
    <2> QED BY <2>1, <2>2, LayoutOne
  <1>4. ASSUME NEW k \in Nat, k \in S PROVE k + 1 \in S
    <2> SUFFICES ASSUME (k + 1) + 1 <= n
                 PROVE  \E at : Layout(f[(k + 1) + 1], at, parts, (k + 1) + 1)
      OBVIOUS
    <2>1. PICK m \in Nat \ {0} : m = k + 1 /\ m + 1 \in 1..n /\ m \in 1..n /\ m \in 1..(n - 1) /\ (m + 1) - 1 = m /\ m + 1 # 1
      OBVIOUS
    <2>2. PICK at : Layout(f[m], at, parts, m)
      BY <1>4, <2>1
    <2>3. f[m + 1] = f[m] \o Tail(parts[m + 1])
      <3>1. f[m + 1] = IF m + 1 = 1 THEN parts[1] ELSE f[(m + 1) - 1] \o Tail(parts[m + 1])
        BY <1>1, <2>1 DEF IsJoin
      <3> QED BY <3>1, <2>1
    <2>4. ArePaths(parts, m + 1) /\ Seam(parts, m)
      BY <2>1 DEF ArePaths
    <2>5. PICK w : w = f[m]
      OBVIOUS
    <2>6. \E bt : Layout(w \o Tail(parts[m + 1]), bt, parts, m + 1)
      BY <2>2, <2>4, <2>5, LayoutMore
    <2> QED BY <2>1, <2>3, <2>5, <2>6
  <1> HIDE DEF S
  <1>5. n - 1 \in S /\ (n - 1) + 1 = n
    BY <1>3, <1>4, NatSetInduction
  <1> QED BY <1>2, <1>5 DEF S

LEMMA LayoutFacts ==
  ASSUME NEW parts, NEW n \in Nat, ArePaths(parts, n), NEW w, NEW at, Layout(w, at, parts, n),
         NEW h \in 1..n
  PROVE  /\ at[h - 1] \in 1..Len(w) /\ at[h] \in 1..Len(w) /\ at[h - 1] <= at[h]
         /\ Lies(w, parts[h], at[h - 1], at[h])
         /\ w[at[h - 1]] = parts[h][1]
         /\ w[at[h]] = parts[h][Len(parts[h])]
         /\ Len(w) \in Nat
  <1>1. h - 1 \in 0..n /\ h \in 0..n
    OBVIOUS
  <1>2. PICK a : a = at[h - 1]
    OBVIOUS
  <1>3. PICK b : b = at[h]
    OBVIOUS
  <1>4. w \in Seq(Vertex) /\ a \in 1..Len(w) /\ b \in 1..Len(w) /\ Lies(w, parts[h], a, b)
    BY <1>1, <1>2, <1>3 DEF Layout
  <1>5. PICK m \in Nat : m = Len(parts[h]) /\ m >= 1
    BY PathLen DEF ArePaths
  <1>6. b + 1 = a + m /\ \A i \in 1..m : w[(a - 1) + i] = parts[h][i]
    BY <1>4, <1>5 DEF Lies
  <1>7. Len(w) \in Nat
    BY <1>4, LenProperties
  <1>8. (a - 1) + 1 = a /\ (a - 1) + m = b /\ a <= b /\ 1 \in 1..m /\ m \in 1..m
    BY <1>4, <1>5, <1>6, <1>7
  <1> QED BY <1>2, <1>3, <1>4, <1>5, <1>6, <1>7, <1>8, ZenonT(60)

\* A simple path is laid out in one way only, given where its parts end.
LEMMA LayoutUnique ==
  ASSUME NEW n \in Nat \ {0}, NEW P, NEW Q, ArePaths(P, n), ArePaths(Q, n), NEW w, IsSimple(w),
         NEW at, NEW bt, Layout(w, at, P, n), Layout(w, bt, Q, n),
         \A h \in 1..(n - 1) : w[at[h]] = w[bt[h]],
         NEW h \in 1..n
  PROVE  P[h] = Q[h]
  <1>1. /\ w \in Seq(Vertex) /\ at \in [0..n -> 1..Len(w)] /\ bt \in [0..n -> 1..Len(w)]
        /\ at[0] = 1 /\ at[n] = Len(w) /\ bt[0] = 1 /\ bt[n] = Len(w)
    BY DEF Layout
  <1>2. DOMAIN w = 1..Len(w)
    BY <1>1, LenProperties
  <1>3. ASSUME NEW j \in 0..n PROVE at[j] = bt[j]
    <2>1. CASE j = 0 \/ j = n
      BY <2>1, <1>1
    <2>2. CASE j # 0 /\ j # n
      <3>1. j \in 1..(n - 1)
        BY <2>2
      <3>2. w[at[j]] = w[bt[j]] /\ at[j] \in DOMAIN w /\ bt[j] \in DOMAIN w
        BY <3>1, <1>1, <1>2
      <3> QED BY <3>2 DEF IsSimple
    <2> QED BY <2>1, <2>2
  <1>4. PICK a : a = at[h - 1]
    OBVIOUS
  <1>5. PICK b : b = at[h]
    OBVIOUS
  <1>6. a = bt[h - 1] /\ b = bt[h]
    BY <1>3, <1>4, <1>5
  <1>7. Lies(w, P[h], a, b) /\ Lies(w, Q[h], a, b) /\ a \in 1..Len(w) /\ b \in 1..Len(w) /\ Len(w) \in Nat
    <2>1. /\ at[h - 1] \in 1..Len(w) /\ at[h] \in 1..Len(w) /\ Len(w) \in Nat
          /\ Lies(w, P[h], at[h - 1], at[h])
      BY LayoutFacts
    <2>2. Lies(w, Q[h], bt[h - 1], bt[h])
      BY LayoutFacts
    <2> QED BY <2>1, <2>2, <1>4, <1>5, <1>6
  <1>8. PICK p \in Seq(Vertex) : p = P[h] /\ Len(p) \in Nat
    BY PathLen DEF ArePaths
  <1>9. PICK q \in Seq(Vertex) : q = Q[h] /\ Len(q) \in Nat
    BY PathLen DEF ArePaths
  <1>10. b + 1 = a + Len(p) /\ b + 1 = a + Len(q)
    BY <1>7, <1>8, <1>9 DEF Lies
  <1>11. Len(p) = Len(q)
    BY <1>7, <1>8, <1>9, <1>10
  <1>12. \A i \in 1..Len(p) : p[i] = q[i]
    BY <1>7, <1>8, <1>9, <1>11 DEF Lies
  <1> QED BY <1>8, <1>9, <1>11, <1>12, SeqEqual

(***************************************************************************)
(* The hops.                                                               *)
(***************************************************************************)
HopFrom(h) == IF h = 1 THEN query.sources ELSE At(query.forced[h - 1], kNoBearing)
HopTo(h) == IF h = hops THEN query.goals ELSE At(query.forced[h], kNoBearing)
HopCall(h) == PlainCall(HopFrom(h), HopTo(h), query.turn, query.bans)

\* The whole route's call.
WholeCall == PlainCall(query.sources, query.goals, query.turn, query.bans)

LEMMA PlainCallFields ==
  ASSUME NEW s, NEW t, NEW turn, NEW bans
  PROVE  LET c == PlainCall(s, t, turn, bans)
         IN  /\ c.sources = s /\ c.goals = t /\ c.turn = turn /\ c.bans = bans
             /\ c.goalSeed = BuildSeedTable(t)
             /\ c.sourceBearing = BuildBearingTable(s)
             /\ c.goalBearing = BuildBearingTable(t)
  BY DEF PlainCall, Call

LEMMA ViaTables ==
  ASSUME NEW w \in Vertex \cup {kNoVertex}, NEW v \in Vertex
  PROVE  /\ At(w, kNoBearing) \in Seq(SeededEndpoint)
         /\ BuildSeedTable(At(w, kNoBearing))[v] = IF v = w THEN 0 ELSE -1
         /\ BuildBearingTable(At(w, kNoBearing))[v] = kNoBearing
  <1>1. kNoBearing \in Heading
    BY DEF Heading
  <1>2. /\ At(w, kNoBearing) \in Seq(SeededEndpoint)
        /\ BuildSeedTable(At(w, kNoBearing))[v] = IF v = w THEN 0 ELSE -1
    BY <1>1, SingleSeed DEF At
  <1>3. BuildBearingTable(At(w, kNoBearing))[v] = kNoBearing
    <2> DEFINE e == [vertex |-> w, cost |-> 0, bearing |-> kNoBearing]
               E == <<e>>
    <2>1. DOMAIN E = {1} /\ E[1] = e /\ e.bearing = kNoBearing /\ e.cost = 0
      OBVIOUS
    <2> HIDE DEF E, e
    <2>2. CASE AtVertex(E, v) = {}
      BY <2>2 DEF BuildBearingTable, At, E, e
    <2>3. CASE AtVertex(E, v) # {}
      <3>1. AtVertex(E, v) = {1}
        BY <2>1, <2>3 DEF AtVertex
      <3>2. CheapestAt(E, v) = e
        BY <3>1, <2>1 DEF CheapestAt
      <3>3. BuildBearingTable(E)[v] = CheapestAt(E, v).bearing
        BY <2>3 DEF BuildBearingTable
      <3> QED BY <3>2, <3>3, <2>1 DEF At, E, e
    <2> QED BY <2>2, <2>3
  <1> QED BY <1>2, <1>3

LEMMA HopEnds ==
  ASSUME QueryOK, NEW h \in 1..hops
  PROVE  /\ HopFrom(h) \in Seq(SeededEndpoint) /\ HopTo(h) \in Seq(SeededEndpoint)
         /\ CallOK(HopCall(h)) /\ CallOK(WholeCall)
         /\ h # 1 => query.forced[h - 1] \in Vertex \cup {kNoVertex}
         /\ h # hops => query.forced[h] \in Vertex \cup {kNoVertex}
  <1>1. /\ Len(query.forced) \in Nat /\ hops \in Nat /\ hops >= 1 /\ Len(query.forced) = hops - 1
        /\ \A i \in 1..Len(query.forced) : query.forced[i] \in Vertex \cup {kNoVertex}
    BY HopsNat
  <1>2. query.sources \in Seq(SeededEndpoint) /\ query.goals \in Seq(SeededEndpoint) /\ query.turn \in BOOLEAN
    BY DEF QueryOK, RequestOK
  <1>3. h # 1 => query.forced[h - 1] \in Vertex \cup {kNoVertex}
    BY <1>1
  <1>4. h # hops => query.forced[h] \in Vertex \cup {kNoVertex}
    BY <1>1
  <1>5. ASSUME NEW v \in Vertex \cup {kNoVertex} PROVE At(v, kNoBearing) \in Seq(SeededEndpoint)
    <2>1. kNoBearing \in (0..359) \cup {kNoBearing}
      OBVIOUS
    <2> QED BY <1>5, <2>1 DEF At, SeededEndpoint
  <1>6. HopFrom(h) \in Seq(SeededEndpoint) /\ HopTo(h) \in Seq(SeededEndpoint)
    BY <1>2, <1>3, <1>4, <1>5 DEF HopFrom, HopTo
  <1> QED BY <1>2, <1>3, <1>4, <1>6, PlainCallOK DEF HopCall, WholeCall

\* A hop's route runs from via point to via point and has a natural cost.
LEMMA HopRoute ==
  ASSUME QueryOK, IsGraph(graph), NEW h \in 1..hops, NEW p \in Routes(graph, HopCall(h))
  PROVE  /\ p \in Seq(Vertex) /\ p # <<>>
         /\ h # 1 => p[1] = query.forced[h - 1]
         /\ h # hops => p[Len(p)] = query.forced[h]
         /\ RouteCost(graph, HopCall(h), p) \in Nat
  <1>1. PICK c : c = HopCall(h)
    OBVIOUS
  <1>2. c.sources = HopFrom(h) /\ c.goalSeed = BuildSeedTable(HopTo(h))
    BY <1>1, PlainCallFields DEF HopCall
  <1>3. Flyable(graph, c, p) /\ c.goalSeed[p[Len(p)]] >= 0
    BY <1>1, RoutesAre
  <1>4. /\ p \in Seq(Vertex) /\ Len(p) \in Nat /\ Len(p) >= 1 /\ p # <<>>
        /\ p[1] \in Vertex /\ p[Len(p)] \in Vertex /\ BuildSeedTable(HopFrom(h))[p[1]] >= 0
    BY <1>2, <1>3, FlyableFacts DEF Flyable
  <1>5. ASSUME h # 1 PROVE p[1] = query.forced[h - 1]
    <2>1. query.forced[h - 1] \in Vertex \cup {kNoVertex}
      BY <1>5, HopEnds
    <2>2. HopFrom(h) = At(query.forced[h - 1], kNoBearing)
      BY <1>5 DEF HopFrom
    <2> QED BY <2>1, <2>2, <1>4, ViaTables
  <1>6. ASSUME h # hops PROVE p[Len(p)] = query.forced[h]
    <2>1. query.forced[h] \in Vertex \cup {kNoVertex}
      BY <1>6, HopEnds
    <2>2. HopTo(h) = At(query.forced[h], kNoBearing)
      BY <1>6 DEF HopTo
    <2>3. BuildSeedTable(HopTo(h))[p[Len(p)]] >= 0
      BY <1>2, <1>3
    <2>4. PICK v \in Vertex : v = p[Len(p)]
      BY <1>4
    <2> QED BY <2>1, <2>2, <2>3, <2>4, ViaTables
  <1>7. RouteCost(graph, HopCall(h), p) \in Nat
    BY HopEnds, RouteNumbers
  <1> QED BY <1>4, <1>5, <1>6, <1>7

(***************************************************************************)
(* A route costs at least what its hops cost.                              *)
(***************************************************************************)
LEMMA TotalGrows ==
  ASSUME NEW n \in Nat, NEW F, NEW H, AreNats(F, n), AreNats(H, n), \A i \in 1..n : F[i] <= H[i]
  PROVE  Total(F, n) <= Total(H, n) /\ Total(F, n) \in Nat /\ Total(H, n) \in Nat
  <1>0. \A i \in 1..n : F[i] \in Nat /\ H[i] \in Nat
    BY DEF AreNats
  <1> DEFINE S == {k \in Nat : k <= n => /\ Total(F, k) <= Total(H, k)
                                         /\ Total(F, k) \in Nat /\ Total(H, k) \in Nat}
  <1>1. 0 \in S
    BY TotalSteps
  <1>2. ASSUME NEW k \in Nat, k \in S PROVE k + 1 \in S
    <2> SUFFICES ASSUME k + 1 <= n
                 PROVE  /\ Total(F, k + 1) <= Total(H, k + 1)
                        /\ Total(F, k + 1) \in Nat /\ Total(H, k + 1) \in Nat
      OBVIOUS
    <2>1. Total(F, k + 1) = Total(F, k) + F[k + 1] /\ Total(H, k + 1) = Total(H, k) + H[k + 1]
      BY TotalSteps
    <2>2. Total(F, k) <= Total(H, k) /\ Total(F, k) \in Nat /\ Total(H, k) \in Nat
      BY <1>2
    <2>3. k + 1 \in 1..n
      OBVIOUS
    <2>4. F[k + 1] \in Nat /\ H[k + 1] \in Nat /\ F[k + 1] <= H[k + 1]
      BY <2>3, <1>0
    <2> QED BY <2>1, <2>2, <2>4
  <1> HIDE DEF S
  <1>3. n \in S
    BY <1>1, <1>2, NatSetInduction
  <1> QED BY <1>3 DEF S

TurnsOf(c, p) ==
    [i \in DOMAIN p |-> TurnCost(c.turn, InboundAt(p, c.sourceBearing[Head(p)], i),
                                         OutboundAt(p, c.goalBearing[p[Len(p)]], i))]

LEMMA TurnsNat ==
  ASSUME NEW c, CallOK(c), NEW p \in Seq(Vertex), p # <<>>
  PROVE  /\ AreNats(TurnsOf(c, p), Len(p))
         /\ \A i \in 1..Len(p) :
               TurnsOf(c, p)[i] = TurnCost(c.turn, InboundAt(p, c.sourceBearing[p[1]], i),
                                                   OutboundAt(p, c.goalBearing[p[Len(p)]], i))
         /\ c.sourceBearing[p[1]] \in Heading /\ c.goalBearing[p[Len(p)]] \in Heading
  <1>1. /\ Len(p) \in Nat /\ Len(p) >= 1 /\ DOMAIN p = 1..Len(p)
        /\ \A i \in 1..Len(p) : p[i] \in Vertex
    BY PathLen
  <1>2. PICK a \in Heading : a = c.sourceBearing[p[1]] /\ Head(p) = p[1]
    BY <1>1 DEF CallOK
  <1>3. PICK b \in Heading : b = c.goalBearing[p[Len(p)]]
    BY <1>1 DEF CallOK
  <1>4. ASSUME NEW i \in 1..Len(p)
        PROVE  /\ TurnsOf(c, p)[i] = TurnCost(c.turn, InboundAt(p, a, i), OutboundAt(p, b, i))
               /\ TurnsOf(c, p)[i] \in Nat
    <2>1. TurnsOf(c, p)[i] = TurnCost(c.turn, InboundAt(p, a, i), OutboundAt(p, b, i))
      BY <1>1, <1>2, <1>3 DEF TurnsOf
    <2>2. InboundAt(p, a, i) \in Heading /\ OutboundAt(p, b, i) \in Heading
      BY HeadingsAt
    <2> QED BY <2>1, <2>2, TurnNat DEF CallOK
  <1> QED BY <1>2, <1>3, <1>4 DEF AreNats

\* A cost is the seeds, the steps and the turns.
LEMMA CostParts ==
  ASSUME NEW gr, NEW c, NEW p \in Seq(Vertex), p # <<>>
  PROVE  RouteCost(gr, c, p) = BuildSeedTable(c.sources)[p[1]] + c.goalSeed[p[Len(p)]]
                                 + (Total(StepsOf(gr, p), Len(p) - 1) + Total(TurnsOf(c, p), Len(p)))
  <1>1. Head(p) = p[1]
    BY PathLen
  <1> QED BY <1>1 DEF RouteCost, CostOfPathMulti, CostOfPath, StepsOf, TurnsOf

\* A heading left out takes a turn away.
LEMMA TurnLess ==
  ASSUME NEW turn \in BOOLEAN, NEW a \in Heading, NEW b \in Heading, NEW x, NEW y,
         x = kNoBearing \/ x = a, y = kNoBearing \/ y = b
  PROVE  /\ TurnCost(turn, x, y) <= TurnCost(turn, a, b)
         /\ TurnCost(turn, x, y) \in Nat
         /\ (x = kNoBearing \/ y = kNoBearing) => TurnCost(turn, x, y) = 0
  <1>1. PICK n \in Nat : n = TurnCost(turn, a, b)
    BY TurnNat
  <1>2. CASE x = kNoBearing \/ y = kNoBearing
    <2>1. TurnCost(turn, x, y) = 0
      BY <1>2 DEF TurnCost, kNoBearing
    <2> QED BY <2>1, <1>1
  <1>3. CASE x # kNoBearing /\ y # kNoBearing
    BY <1>1, <1>3
  <1> QED BY <1>2, <1>3

\* r begins as w does, or without a heading.
OpensAs(c, w, s, d, r) ==
    \/ d.sourceBearing[r[1]] = kNoBearing
    \/ s = 1 /\ d.sourceBearing[r[1]] = c.sourceBearing[w[1]]

\* r ends as w does, or without a heading.
ClosesAs(c, w, t, d, r) ==
    \/ d.goalBearing[r[Len(r)]] = kNoBearing
    \/ t = Len(w) /\ d.goalBearing[r[Len(r)]] = c.goalBearing[w[Len(w)]]

\* No turn of a part costs more than in the whole.
LEMMA TurnsBelow ==
  ASSUME NEW c, CallOK(c), NEW d, CallOK(d), c.turn = d.turn,
         NEW w \in Seq(Vertex), w # <<>>, NEW r \in Seq(Vertex), r # <<>>,
         NEW s \in 1..Len(w), NEW t \in 1..Len(w), Lies(w, r, s, t),
         OpensAs(c, w, s, d, r), ClosesAs(c, w, t, d, r), NEW i \in 1..Len(r)
  PROVE  TurnsOf(d, r)[i] <= TurnsOf(c, w)[(s - 1) + i]
  <1>1. PICK n \in Nat : n = Len(r) /\ n >= 1
    BY PathLen
  <1>2. PICK m \in Nat : m = Len(w) /\ m >= 1
    BY PathLen
  <1>3. t + 1 = s + n /\ \A j \in 1..n : w[(s - 1) + j] = r[j]
    BY <1>1 DEF Lies
  <1>4. PICK k \in 1..m : k = (s - 1) + i /\ (k = 1 => i = 1 /\ s = 1) /\ (i = 1 => k = s)
                          /\ (i = n => k = t) /\ (k = m => i = n /\ t = m) /\ (i # n => k # m) /\ (i # 1 => k # 1)
    <2>1. PICK kk \in Int : kk = (s - 1) + i
      OBVIOUS
    <2>2. kk \in 1..m /\ (kk = 1 => i = 1 /\ s = 1) /\ (i = 1 => kk = s)
          /\ (i = n => kk = t) /\ (kk = m => i = n /\ t = m) /\ (i # n => kk # m) /\ (i # 1 => kk # 1)
      BY <2>1, <1>1, <1>2, <1>3
    <2> QED BY <2>1, <2>2
  <1>5. PICK a \in Heading : a = c.sourceBearing[w[1]]
    BY TurnsNat
  <1>6. PICK b \in Heading : b = c.goalBearing[w[Len(w)]]
    BY TurnsNat
  <1>7. PICK aa \in Heading : aa = d.sourceBearing[r[1]]
    BY TurnsNat
  <1>8. PICK bb \in Heading : bb = d.goalBearing[r[Len(r)]]
    BY TurnsNat
  <1>9. InboundAt(r, aa, i) = kNoBearing \/ InboundAt(r, aa, i) = InboundAt(w, a, k)
    <2>1. CASE i = 1
      <3>1. InboundAt(r, aa, i) = aa
        BY <2>1 DEF InboundAt
      <3>2. s = 1 => InboundAt(w, a, k) = a
        BY <2>1, <1>4 DEF InboundAt
      <3>3. aa = kNoBearing \/ (s = 1 /\ aa = a)
        BY <1>5, <1>7 DEF OpensAs
      <3> QED BY <3>1, <3>2, <3>3
    <2>2. CASE i # 1
      <3>1. PICK j \in 1..n : j = i - 1 /\ k - 1 = (s - 1) + j
        <4>1. i - 1 \in 1..n /\ k - 1 = (s - 1) + (i - 1)
          BY <2>2, <1>1, <1>4
        <4> QED BY <4>1
      <3>2. w[k] = r[i] /\ w[k - 1] = r[i - 1]
        <4>1. i \in 1..n
          BY <1>1
        <4> QED BY <4>1, <3>1, <1>3, <1>4
      <3>3. InboundAt(r, aa, i) = BearingTo[r[i - 1]][r[i]] /\ InboundAt(w, a, k) = BearingTo[w[k - 1]][w[k]]
        BY <2>2, <1>4 DEF InboundAt
      <3> QED BY <3>2, <3>3
    <2> QED BY <2>1, <2>2
  <1>10. OutboundAt(r, bb, i) = kNoBearing \/ OutboundAt(r, bb, i) = OutboundAt(w, b, k)
    <2>1. CASE i = n
      <3>1. OutboundAt(r, bb, i) = bb
        BY <2>1, <1>1 DEF OutboundAt
      <3>2. t = Len(w) => OutboundAt(w, b, k) = b
        BY <2>1, <1>4 DEF OutboundAt
      <3>3. bb = kNoBearing \/ (t = Len(w) /\ bb = b)
        BY <1>6, <1>8 DEF ClosesAs
      <3> QED BY <3>1, <3>2, <3>3
    <2>2. CASE i # n
      <3>1. PICK j \in 1..n : j = i + 1 /\ k + 1 = (s - 1) + j
        <4>1. i + 1 \in 1..n /\ k + 1 = (s - 1) + (i + 1)
          BY <2>2, <1>1, <1>4
        <4> QED BY <4>1
      <3>2. w[k] = r[i] /\ w[k + 1] = r[i + 1]
        <4>1. i \in 1..n
          BY <1>1
        <4> QED BY <4>1, <3>1, <1>3, <1>4
      <3>3. OutboundAt(r, bb, i) = BearingTo[r[i]][r[i + 1]] /\ OutboundAt(w, b, k) = BearingTo[w[k]][w[k + 1]]
        BY <2>2, <1>1, <1>2, <1>4 DEF OutboundAt
      <3> QED BY <3>2, <3>3
    <2> QED BY <2>1, <2>2
  <1>11. InboundAt(w, a, k) \in Heading /\ OutboundAt(w, b, k) \in Heading
    BY <1>2, HeadingsAt
  <1>12. TurnsOf(d, r)[i] = TurnCost(d.turn, InboundAt(r, aa, i), OutboundAt(r, bb, i))
    BY <1>7, <1>8, TurnsNat
  <1>13. TurnsOf(c, w)[k] = TurnCost(c.turn, InboundAt(w, a, k), OutboundAt(w, b, k))
    BY <1>2, <1>5, <1>6, TurnsNat
  <1>14. TurnsOf(d, r)[i] <= TurnsOf(c, w)[k]
    BY <1>9, <1>10, <1>11, <1>12, <1>13, TurnLess DEF CallOK
  <1> QED BY <1>4, <1>14

LEMMA StepsWithin ==
  ASSUME NEW gr, NEW w, Len(w) \in Nat, NEW r, Len(r) \in Nat,
         NEW s \in 1..Len(w), NEW t \in 1..Len(w), Lies(w, r, s, t),
         NEW k \in Nat, Len(r) = k + 1
  PROVE  ContinuesAs(StepsOf(gr, w), s - 1, StepsOf(gr, r), k)
  <1>1. t + 1 = s + (k + 1) /\ \A j \in 1..(k + 1) : w[(s - 1) + j] = r[j]
    BY DEF Lies
  <1>2. ASSUME NEW i \in 1..k PROVE StepsOf(gr, r)[i] = StepsOf(gr, w)[(s - 1) + i]
    <2>1. PICK x \in 1..(Len(w) - 1) : x = (s - 1) + i /\ x + 1 = (s - 1) + (i + 1)
      <3>1. (s - 1) + i \in 1..(Len(w) - 1) /\ ((s - 1) + i) + 1 = (s - 1) + (i + 1)
        BY <1>1
      <3> QED BY <3>1
    <2>2. i \in 1..(k + 1) /\ i + 1 \in 1..(k + 1) /\ i \in 1..(Len(r) - 1)
      OBVIOUS
    <2>3. w[x] = r[i] /\ w[x + 1] = r[i + 1]
      BY <2>1, <2>2, <1>1
    <2>4. StepsOf(gr, w)[x] = EdgeCost(SelectEdge(gr, w[x], w[x + 1]))
      BY DEF StepsOf
    <2>5. StepsOf(gr, r)[i] = EdgeCost(SelectEdge(gr, r[i], r[i + 1]))
      BY <2>2 DEF StepsOf
    <2> QED BY <2>1, <2>3, <2>4, <2>5
  <1> QED BY <1>2 DEF ContinuesAs

\* What flying w to its t-th vertex has cost, the turn at its n-th still included.
Flown(gr, c, w, t, n) == Total(StepsOf(gr, w), t - 1) + Total(TurnsOf(c, w), n)

LEMMA SumNat ==
  ASSUME NEW a \in Nat, NEW b \in Nat, NEW h \in Nat, NEW x \in Nat
  PROVE  a + b + (h + x) \in Nat
  OBVIOUS

LEMMA PartSum ==
  ASSUME NEW a \in Nat, NEW b \in Nat, NEW f \in Nat, NEW h \in Nat, NEW t \in Nat,
         NEW x \in Nat, NEW y \in Nat, x <= y
  PROVE  (a + b + (h + x)) + (f + t) <= a + b + ((f + h) + (t + y))
  OBVIOUS

\* A part r of w from s to t costs no more than the stretch of the whole it is, the turn
\* at its end left out when it ends without a heading.
StaysBelow(gr, c, d, w, r, s, t, a, b) ==
    /\ Flown(gr, c, w, s, s - 1) \in Nat /\ Flown(gr, c, w, t, t) \in Nat
    /\ Flown(gr, c, w, t, t - 1) \in Nat
    /\ RouteCost(gr, d, r) \in Nat
    /\ RouteCost(gr, d, r) + Flown(gr, c, w, s, s - 1) <= a + b + Flown(gr, c, w, t, t)
    /\ d.goalBearing[r[Len(r)]] = kNoBearing =>
          RouteCost(gr, d, r) + Flown(gr, c, w, s, s - 1) <= a + b + Flown(gr, c, w, t, t - 1)

LEMMA PartCost ==
  ASSUME NEW gr, IsGraph(gr), NEW c, CallOK(c), NEW d, CallOK(d), c.turn = d.turn,
         NEW w \in Seq(Vertex), w # <<>>, AreNats(StepsOf(gr, w), Len(w) - 1),
         NEW r \in Seq(Vertex), r # <<>>,
         NEW s \in 1..Len(w), NEW t \in 1..Len(w), Lies(w, r, s, t),
         OpensAs(c, w, s, d, r), ClosesAs(c, w, t, d, r),
         NEW a \in Nat, a = BuildSeedTable(d.sources)[r[1]],
         NEW b \in Nat, b = d.goalSeed[r[Len(r)]]
  PROVE  StaysBelow(gr, c, d, w, r, s, t, a, b)
  <1>1. PICK m \in Nat : m = s - 1
    <2>1. Len(w) \in Nat
      BY PathLen
    <2> QED BY <2>1
  <1>2. PICK k \in Nat : Len(r) = k + 1 /\ Len(r) - 1 = k
    <2>1. Len(r) \in Nat /\ Len(r) >= 1
      BY PathLen
    <2>2. Len(r) - 1 \in Nat /\ Len(r) = (Len(r) - 1) + 1
      BY <2>1
    <2> QED BY <2>2, Zenon
  <1>3. PICK n \in Nat : n = Len(w) /\ n >= 1
    BY PathLen
  <1>4. t - 1 = m + k /\ t = m + (k + 1) /\ m + k <= n - 1 /\ m + (k + 1) <= n /\ m <= n - 1
    <2>1. t + 1 = s + (k + 1)
      BY <1>2 DEF Lies
    <2> QED BY <2>1, <1>1, <1>3
  <1>5. PICK F : F = StepsOf(gr, w)
    OBVIOUS
  <1>6. PICK H : H = StepsOf(gr, r)
    OBVIOUS
  <1>7. PICK T : T = TurnsOf(c, w)
    OBVIOUS
  <1>8. PICK D : D = TurnsOf(d, r)
    OBVIOUS
  <1> DEFINE W == [i \in 1..(k + 1) |-> T[m + i]]
  <1>9. Total(F, m + k) = Total(F, m) + Total(H, k) /\ Total(F, m) \in Nat /\ Total(H, k) \in Nat
    <2>1. ContinuesAs(F, m, H, k)
      BY <1>1, <1>2, <1>3, <1>5, <1>6, StepsWithin
    <2>2. AreNats(F, m + k)
      <3>1. \A i \in 1..(m + k) : i \in 1..(n - 1)
        BY <1>3, <1>4
      <3> QED BY <3>1, <1>3, <1>5 DEF AreNats
    <2> QED BY <2>1, <2>2, TotalSplit
  <1>10. AreNats(T, n) /\ AreNats(D, k + 1)
    BY <1>2, <1>3, <1>7, <1>8, TurnsNat
  <1>11. ContinuesAs(T, m, W, k) /\ ContinuesAs(T, m, W, k + 1)
    BY DEF ContinuesAs
  <1>12. AreNats(T, m + k) /\ AreNats(T, m + (k + 1))
    <2>1. \A i \in 1..(m + k) : i \in 1..n
      BY <1>3, <1>4
    <2>2. \A i \in 1..(m + (k + 1)) : i \in 1..n
      BY <1>3, <1>4
    <2> QED BY <2>1, <2>2, <1>10 DEF AreNats
  <1>13. \A i \in 1..(k + 1) : D[i] <= W[i]
    <2> SUFFICES ASSUME NEW i \in 1..(k + 1) PROVE D[i] <= W[i]
      OBVIOUS
    <2>1. TurnsOf(d, r)[i] <= TurnsOf(c, w)[(s - 1) + i]
      BY <1>2, TurnsBelow
    <2> QED BY <2>1, <1>1, <1>7, <1>8
  <1>14. AreNats(W, k + 1) /\ AreNats(W, k) /\ AreNats(D, k)
    <2>1. \A i \in 1..(k + 1) : m + i \in 1..(m + (k + 1))
      OBVIOUS
    <2>2. AreNats(W, k + 1)
      BY <2>1, <1>12 DEF AreNats
    <2>3. \A i \in 1..k : i \in 1..(k + 1)
      OBVIOUS
    <2> HIDE DEF W
    <2> QED BY <2>2, <2>3, <1>10 DEF AreNats
  <1> HIDE DEF W
  <1>15. /\ Total(T, m + k) = Total(T, m) + Total(W, k) /\ Total(T, m) \in Nat /\ Total(W, k) \in Nat
         /\ Total(T, m + (k + 1)) = Total(T, m) + Total(W, k + 1) /\ Total(W, k + 1) \in Nat
    <2>1. k + 1 \in Nat
      OBVIOUS
    <2> QED BY <2>1, <1>11, <1>12, TotalSplit
  <1>16. Total(D, k + 1) <= Total(W, k + 1) /\ Total(D, k + 1) \in Nat
    <2>1. k + 1 \in Nat
      OBVIOUS
    <2> QED BY <2>1, <1>10, <1>13, <1>14, TotalGrows
  <1>17. Total(D, k) <= Total(W, k) /\ Total(D, k) \in Nat
    <2>1. \A i \in 1..k : D[i] <= W[i]
      BY <1>13
    <2> QED BY <2>1, <1>14, TotalGrows
  <1>18. d.goalBearing[r[Len(r)]] = kNoBearing => Total(D, k + 1) = Total(D, k)
    <2> SUFFICES ASSUME d.goalBearing[r[Len(r)]] = kNoBearing PROVE Total(D, k + 1) = Total(D, k)
      OBVIOUS
    <2>1. PICK x : x = InboundAt(r, d.sourceBearing[r[1]], k + 1)
      OBVIOUS
    <2>2. D[k + 1] = TurnCost(d.turn, x, OutboundAt(r, kNoBearing, k + 1))
      <3>1. k + 1 \in 1..Len(r)
        BY <1>2
      <3> QED BY <3>1, <2>1, <1>8, TurnsNat
    <2>3. OutboundAt(r, kNoBearing, k + 1) = kNoBearing
      BY <1>2 DEF OutboundAt
    <2>4. D[k + 1] = 0
      BY <2>2, <2>3 DEF TurnCost, kNoBearing
    <2>5. Total(D, k + 1) = Total(D, k) + D[k + 1]
      BY TotalSteps
    <2> QED BY <2>4, <2>5, <1>17
  <1>19. RouteCost(gr, d, r) = a + b + (Total(H, k) + Total(D, k + 1))
    BY <1>2, <1>6, <1>8, CostParts
  <1>20. /\ Flown(gr, c, w, s, s - 1) = Total(F, m) + Total(T, m)
         /\ Flown(gr, c, w, t, t) = Total(F, m + k) + Total(T, m + (k + 1))
         /\ Flown(gr, c, w, t, t - 1) = Total(F, m + k) + Total(T, m + k)
    BY <1>1, <1>4, <1>5, <1>7 DEF Flown
  <1>21. PICK Fm \in Nat : Fm = Total(F, m)
    BY <1>9
  <1>22. PICK Hk \in Nat : Hk = Total(H, k)
    BY <1>9
  <1>23. PICK Tm \in Nat : Tm = Total(T, m)
    BY <1>15
  <1>24. PICK Wk \in Nat : Wk = Total(W, k)
    BY <1>15
  <1>25. PICK Wl \in Nat : Wl = Total(W, k + 1)
    BY <1>15
  <1>26. PICK Dk \in Nat : Dk = Total(D, k) /\ Dk <= Wk
    BY <1>17, <1>24
  <1>27. PICK Dl \in Nat : Dl = Total(D, k + 1) /\ Dl <= Wl
    BY <1>16, <1>25
  <1>28. PICK R \in Nat : R = RouteCost(gr, d, r) /\ R = a + b + (Hk + Dl)
    <2>1. a + b + (Hk + Dl) \in Nat
      BY SumNat
    <2> QED BY <2>1, <1>19, <1>22, <1>27
  <1>29. /\ Flown(gr, c, w, s, s - 1) = Fm + Tm
         /\ Flown(gr, c, w, t, t) = (Fm + Hk) + (Tm + Wl)
         /\ Flown(gr, c, w, t, t - 1) = (Fm + Hk) + (Tm + Wk)
    BY <1>9, <1>15, <1>20, <1>21, <1>22, <1>23, <1>24, <1>25, Zenon
  <1>30. R + (Fm + Tm) <= a + b + ((Fm + Hk) + (Tm + Wl))
    <2>1. (a + b + (Hk + Dl)) + (Fm + Tm) <= a + b + ((Fm + Hk) + (Tm + Wl))
      BY <1>27, PartSum, ZenonT(60)
    <2> QED BY <2>1, <1>28, Zenon
  <1>31. d.goalBearing[r[Len(r)]] = kNoBearing => Dl = Dk
    BY <1>18, <1>26, <1>27
  <1>32. Dl = Dk => R + (Fm + Tm) <= a + b + ((Fm + Hk) + (Tm + Wk))
    <2>1. (a + b + (Hk + Dk)) + (Fm + Tm) <= a + b + ((Fm + Hk) + (Tm + Wk))
      BY <1>26, PartSum, ZenonT(60)
    <2> QED BY <2>1, <1>28, Zenon
  <1>33. Fm + Tm \in Nat /\ (Fm + Hk) + (Tm + Wl) \in Nat /\ (Fm + Hk) + (Tm + Wk) \in Nat
    OBVIOUS
  <1> QED BY <1>28, <1>29, <1>30, <1>31, <1>32, <1>33, Zenon DEF StaysBelow

LEMMA HopTables ==
  ASSUME QueryOK, IsGraph(graph), NEW h \in 1..hops, NEW p \in Routes(graph, HopCall(h))
  PROVE  /\ h # 1 => /\ BuildSeedTable(HopCall(h).sources)[p[1]] = 0
                     /\ HopCall(h).sourceBearing[p[1]] = kNoBearing
         /\ h # hops => /\ HopCall(h).goalSeed[p[Len(p)]] = 0
                        /\ HopCall(h).goalBearing[p[Len(p)]] = kNoBearing
         /\ h = 1 => /\ HopCall(h).sources = query.sources
                     /\ HopCall(h).sourceBearing = WholeCall.sourceBearing
         /\ h = hops => /\ HopCall(h).goalSeed = WholeCall.goalSeed
                        /\ HopCall(h).goalBearing = WholeCall.goalBearing
         /\ HopCall(h).turn = WholeCall.turn
  <1>1. PICK c : c = HopCall(h)
    OBVIOUS
  <1>2. /\ c.sources = HopFrom(h) /\ c.goalSeed = BuildSeedTable(HopTo(h)) /\ c.turn = query.turn
        /\ c.sourceBearing = BuildBearingTable(HopFrom(h)) /\ c.goalBearing = BuildBearingTable(HopTo(h))
    BY <1>1, PlainCallFields DEF HopCall
  <1>3. /\ WholeCall.goalSeed = BuildSeedTable(query.goals) /\ WholeCall.turn = query.turn
        /\ WholeCall.sourceBearing = BuildBearingTable(query.sources)
        /\ WholeCall.goalBearing = BuildBearingTable(query.goals)
    BY PlainCallFields DEF WholeCall
  <1>4. /\ p \in Seq(Vertex) /\ p # <<>>
        /\ h # 1 => p[1] = query.forced[h - 1]
        /\ h # hops => p[Len(p)] = query.forced[h]
    BY HopRoute
  <1>5. p[1] \in Vertex /\ p[Len(p)] \in Vertex
    BY <1>4, PathLen
  <1>6. ASSUME h # 1 PROVE BuildSeedTable(c.sources)[p[1]] = 0 /\ c.sourceBearing[p[1]] = kNoBearing
    <2>1. HopFrom(h) = At(p[1], kNoBearing)
      BY <1>4, <1>6 DEF HopFrom
    <2> QED BY <2>1, <1>2, <1>5, ViaTables
  <1>7. ASSUME h # hops PROVE c.goalSeed[p[Len(p)]] = 0 /\ c.goalBearing[p[Len(p)]] = kNoBearing
    <2>1. HopTo(h) = At(p[Len(p)], kNoBearing)
      BY <1>4, <1>7 DEF HopTo
    <2>2. PICK v \in Vertex : v = p[Len(p)]
      BY <1>5
    <2> QED BY <2>1, <2>2, <1>2, ViaTables
  <1>8. h = 1 => c.sources = query.sources /\ c.sourceBearing = WholeCall.sourceBearing
    BY <1>2, <1>3 DEF HopFrom
  <1>9. h = hops => c.goalSeed = WholeCall.goalSeed /\ c.goalBearing = WholeCall.goalBearing
    BY <1>2, <1>3 DEF HopTo
  <1> QED BY <1>1, <1>2, <1>3, <1>6, <1>7, <1>8, <1>9

\* One alternative of each hop.
HopParts(parts) == \A h \in 1..hops : parts[h] \in Routes(graph, HopCall(h))

LEMMA HopPartsAre ==
  ASSUME QueryOK, IsGraph(graph), NEW parts, HopParts(parts)
  PROVE  /\ ArePaths(parts, hops) /\ hops \in Nat \ {0}
         /\ \A h \in 1..(hops - 1) : Seam(parts, h) /\ parts[h][Len(parts[h])] = query.forced[h]
  <1>1. hops \in Nat \ {0}
    BY HopsNat
  <1>2. ArePaths(parts, hops)
    BY HopRoute DEF HopParts, ArePaths
  <1>3. ASSUME NEW h \in 1..(hops - 1) PROVE Seam(parts, h) /\ parts[h][Len(parts[h])] = query.forced[h]
    <2>1. h \in 1..hops /\ h # hops
      BY <1>1
    <2>2. parts[h][Len(parts[h])] = query.forced[h]
      BY <2>1, HopRoute DEF HopParts
    <2>3. PICK j \in 1..hops : j = h + 1 /\ j # 1 /\ j - 1 = h
      BY <1>1
    <2>4. parts[j][1] = query.forced[j - 1]
      BY <2>3, HopRoute DEF HopParts
    <2> QED BY <2>2, <2>3, <2>4 DEF Seam
  <1> QED BY <1>1, <1>2, <1>3

\* The numbers of a path that can be re-costed.
LEMMA WholeNumbers ==
  ASSUME QueryOK, IsGraph(graph), NEW w \in Seq(Vertex), IsRoute(w)
  PROVE  /\ w # <<>> /\ AreNats(StepsOf(graph, w), Len(w) - 1)
         /\ WholeSeed[w[1]] \in Nat /\ WholeGoals[w[Len(w)]] \in Nat
         /\ Costed(w).cost = RouteCost(graph, WholeCall, w)
         /\ Costed(w).cost \in Nat
         /\ Costed(w).cost = WholeSeed[w[1]] + WholeGoals[w[Len(w)]]
                               + Flown(graph, WholeCall, w, Len(w), Len(w))
         /\ CallOK(WholeCall)
  <1>1. /\ w # <<>> /\ WholeSeed[Head(w)] >= 0 /\ WholeGoals[w[Len(w)]] >= 0
        /\ PathUsable(graph, w, query.bans)
    BY DEF IsRoute, Recostable
  <1>2. PICK n \in Nat : n = Len(w) /\ n >= 1
    BY <1>1, PathLen
  <1>3. Head(w) = w[1] /\ \A i \in 1..n : w[i] \in Vertex
    BY <1>1, <1>2, PathLen
  <1>4. AreNats(StepsOf(graph, w), Len(w) - 1)
    <2> SUFFICES ASSUME NEW i \in 1..(n - 1) PROVE StepsOf(graph, w)[i] \in Nat
      BY <1>2 DEF AreNats
    <2>1. n >= 2 /\ i \in 1..n /\ i + 1 \in 1..n /\ i \in 1..(Len(w) - 1)
      BY <1>2
    <2>2. Usable(graph, w[i], w[i + 1]) # {}
      BY <2>1, <1>1, <1>2 DEF PathUsable
    <2>3. StepsOf(graph, w)[i] = EdgeCost(SelectEdge(graph, w[i], w[i + 1]))
      BY <2>1 DEF StepsOf
    <2> QED BY <2>1, <2>2, <2>3, <1>3, StepNumbers
  <1>5. query.sources \in Seq(SeededEndpoint) /\ query.goals \in Seq(SeededEndpoint) /\ query.turn \in BOOLEAN
    BY DEF QueryOK, RequestOK
  <1>6. WholeSeed[w[1]] \in Nat /\ WholeGoals[w[Len(w)]] \in Nat
    <2>1. WholeSeed[w[1]] \in Nat \cup {-1} /\ WholeGoals[w[Len(w)]] \in Nat \cup {-1}
      BY <1>2, <1>3, <1>5, SeedTable DEF WholeSeed, WholeGoals
    <2>2. WholeSeed[w[1]] >= 0 /\ WholeGoals[w[Len(w)]] >= 0
      BY <1>1, <1>3
    <2> QED BY <2>1, <2>2
  <1>7. CallOK(WholeCall)
    BY <1>5, PlainCallOK DEF WholeCall
  <1>8. /\ WholeCall.sources = query.sources /\ WholeCall.goalSeed = WholeGoals
        /\ WholeCall.turn = query.turn /\ WholeCall.sourceBearing = BuildBearingTable(query.sources)
        /\ WholeCall.goalBearing = BuildBearingTable(query.goals)
    BY PlainCallFields DEF WholeCall, WholeGoals
  <1>9. Costed(w).cost = RouteCost(graph, WholeCall, w)
    BY <1>8 DEF Costed, RouteCost, WholeSeed
  <1>10. RouteCost(graph, WholeCall, w)
           = WholeSeed[w[1]] + WholeGoals[w[Len(w)]] + Flown(graph, WholeCall, w, Len(w), Len(w))
    BY <1>1, <1>8, CostParts DEF Flown, WholeSeed
  <1>11. Flown(graph, WholeCall, w, Len(w), Len(w)) \in Nat
    <2>1. PICK F : F = StepsOf(graph, w)
      OBVIOUS
    <2>2. PICK T : T = TurnsOf(WholeCall, w)
      OBVIOUS
    <2>3. PICK m \in Nat : m = n - 1
      BY <1>2
    <2>4. Total(F, m) \in Nat
      <3>1. \A i \in 1..m : F[i] \in Nat
        BY <2>1, <2>3, <1>2, <1>4 DEF AreNats
      <3> QED BY <3>1, TotalNat
    <2>5. Total(T, n) \in Nat
      <3>1. AreNats(T, n)
        BY <2>2, <1>1, <1>2, <1>7, TurnsNat
      <3>2. \A i \in 1..n : T[i] \in Nat
        BY <3>1 DEF AreNats
      <3> QED BY <3>2, TotalNat
    <2> QED BY <2>1, <2>2, <2>3, <2>4, <2>5, <1>2 DEF Flown
  <1>12. WholeSeed[w[1]] + WholeGoals[w[Len(w)]] + Flown(graph, WholeCall, w, Len(w), Len(w)) \in Nat
    BY <1>6, <1>11, SMTT(40)
  <1> QED BY <1>1, <1>4, <1>6, <1>7, <1>9, <1>10, <1>12

\* The cost of hop h, against the stretch of the whole route it flies.
LEMMA HopStretch ==
  ASSUME QueryOK, IsGraph(graph), NEW w \in Seq(Vertex), IsRoute(w),
         NEW parts, HopParts(parts), NEW at, Layout(w, at, parts, hops), NEW h \in 1..hops,
         NEW s, s = at[h - 1], NEW t, t = at[h], NEW x, x = RouteCost(graph, HopCall(h), parts[h])
  PROVE  /\ x \in Nat
         /\ Flown(graph, WholeCall, w, s, s - 1) \in Nat
         /\ Flown(graph, WholeCall, w, t, t - 1) \in Nat
         /\ Flown(graph, WholeCall, w, t, t) \in Nat
         /\ (h = 1 /\ h # hops) => x + Flown(graph, WholeCall, w, s, s - 1)
                        <= WholeSeed[w[1]] + Flown(graph, WholeCall, w, t, t - 1)
         /\ (h # 1 /\ h # hops) => x + Flown(graph, WholeCall, w, s, s - 1)
                        <= Flown(graph, WholeCall, w, t, t - 1)
         /\ (h # 1 /\ h = hops) => x + Flown(graph, WholeCall, w, s, s - 1)
                        <= WholeGoals[w[Len(w)]] + Flown(graph, WholeCall, w, t, t)
  <1>1. ArePaths(parts, hops) /\ hops \in Nat \ {0}
    BY HopPartsAre
  <1>2. /\ s \in 1..Len(w) /\ t \in 1..Len(w) /\ Len(w) \in Nat
        /\ Lies(w, parts[h], s, t) /\ w[s] = parts[h][1] /\ w[t] = parts[h][Len(parts[h])]
    BY <1>1, LayoutFacts
  <1>3. PICK r : r = parts[h]
    OBVIOUS
  <1>4. r \in Routes(graph, HopCall(h)) /\ r \in Seq(Vertex) /\ r # <<>>
    BY <1>1, <1>3 DEF ArePaths, HopParts
  <1>5. PICK d : d = HopCall(h)
    OBVIOUS
  <1>6. PICK c : c = WholeCall
    OBVIOUS
  <1>7. CallOK(d) /\ CallOK(c) /\ c.turn = d.turn
    BY <1>4, <1>5, <1>6, HopEnds, HopTables
  <1>8. /\ h # 1 => BuildSeedTable(d.sources)[r[1]] = 0 /\ d.sourceBearing[r[1]] = kNoBearing
        /\ h # hops => d.goalSeed[r[Len(r)]] = 0 /\ d.goalBearing[r[Len(r)]] = kNoBearing
        /\ h = 1 => d.sources = query.sources /\ d.sourceBearing = c.sourceBearing
        /\ h = hops => d.goalSeed = c.goalSeed /\ d.goalBearing = c.goalBearing
    BY <1>4, <1>5, <1>6, HopTables
  <1>9. w # <<>> /\ AreNats(StepsOf(graph, w), Len(w) - 1)
    BY WholeNumbers
  <1>10. h = 1 => s = 1
    <2>1. at[0] = 1
      BY DEF Layout
    <2> QED BY <2>1
  <1>11. h = hops => t = Len(w)
    <2>1. at[hops] = Len(w)
      BY DEF Layout
    <2> QED BY <2>1
  <1>12. OpensAs(c, w, s, d, r)
    BY <1>2, <1>3, <1>8, <1>10 DEF OpensAs
  <1>13. ClosesAs(c, w, t, d, r)
    BY <1>2, <1>3, <1>8, <1>11 DEF ClosesAs
  <1>14. PICK a \in Nat : a = BuildSeedTable(d.sources)[r[1]]
    BY <1>4, <1>5, <1>7, RouteNumbers
  <1>15. PICK b \in Nat : b = d.goalSeed[r[Len(r)]]
    BY <1>4, <1>5, <1>7, RouteNumbers
  <1>16. /\ Flown(graph, c, w, s, s - 1) \in Nat /\ Flown(graph, c, w, t, t) \in Nat
         /\ Flown(graph, c, w, t, t - 1) \in Nat
         /\ RouteCost(graph, d, r) \in Nat
         /\ RouteCost(graph, d, r) + Flown(graph, c, w, s, s - 1) <= a + b + Flown(graph, c, w, t, t)
         /\ d.goalBearing[r[Len(r)]] = kNoBearing =>
               RouteCost(graph, d, r) + Flown(graph, c, w, s, s - 1) <= a + b + Flown(graph, c, w, t, t - 1)
    <2>1. Lies(w, r, s, t) /\ s \in 1..Len(w) /\ t \in 1..Len(w)
      BY <1>2, <1>3, Zenon
    <2>2. StaysBelow(graph, c, d, w, r, s, t, a, b)
      BY <2>1, <1>4, <1>7, <1>9, <1>12, <1>13, <1>14, <1>15, PartCost, Zenon
    <2> QED BY <2>2, Zenon DEF StaysBelow
  <1>17. /\ h # 1 => a = 0
         /\ h # hops => b = 0
         /\ h = 1 => a = WholeSeed[w[1]]
         /\ h = hops => b = WholeGoals[w[Len(w)]]
    <2>1. h = 1 => a = WholeSeed[w[1]]
      BY <1>2, <1>3, <1>8, <1>10, <1>14 DEF WholeSeed
    <2>2. h = hops => b = WholeGoals[w[Len(w)]]
      <3>1. c.goalSeed = WholeGoals
        BY <1>6, PlainCallFields DEF WholeCall, WholeGoals
      <3> QED BY <3>1, <1>2, <1>3, <1>8, <1>11, <1>15
    <2> QED BY <2>1, <2>2, <1>8, <1>14, <1>15
  <1>18. x = RouteCost(graph, d, r)
    BY <1>3, <1>5
  <1>19. PICK f1 \in Nat : f1 = Flown(graph, c, w, s, s - 1)
    BY <1>16
  <1>20. PICK f2 \in Nat : f2 = Flown(graph, c, w, t, t - 1)
    BY <1>16
  <1>21. PICK f3 \in Nat : f3 = Flown(graph, c, w, t, t)
    BY <1>16
  <1>22. /\ x \in Nat /\ x + f1 <= a + b + f3
         /\ h # hops => x + f1 <= a + b + f2
    BY <1>8, <1>16, <1>18, <1>19, <1>20, <1>21
  <1>23. a + 0 = a /\ 0 + b = b /\ a + 0 + f2 = a + f2 /\ 0 + 0 + f2 = f2 /\ 0 + b + f3 = b + f3
    OBVIOUS
  <1>24. /\ (h = 1 /\ h # hops) => x + f1 <= a + f2
         /\ (h # 1 /\ h # hops) => x + f1 <= f2
         /\ (h # 1 /\ h = hops) => x + f1 <= b + f3
    BY <1>17, <1>22, <1>23, Zenon
  <1> QED BY <1>6, <1>17, <1>19, <1>20, <1>21, <1>22, <1>24, Zenon

LEMMA StretchSum ==
  ASSUME NEW tot \in Nat, NEW x \in Nat, NEW f \in Nat, NEW g2 \in Nat, NEW a \in Nat, NEW b \in Nat,
         tot <= a + f, x + f <= b + g2
  PROVE  tot + x <= a + b + g2
  OBVIOUS

\* A route costs at least what its hops cost on their own: the turns at the via points
\* come on top.
LEMMA HopsAreBelow ==
  ASSUME QueryOK, IsGraph(graph), hops >= 2, NEW w \in Seq(Vertex), IsRoute(w),
         NEW parts, HopParts(parts), NEW at, Layout(w, at, parts, hops),
         NEW C, \A h \in 1..hops : C[h] = RouteCost(graph, HopCall(h), parts[h])
  PROVE  Total(C, hops) \in Nat /\ Total(C, hops) <= Costed(w).cost
  <1>1. hops \in Nat \ {0}
    BY HopsNat
  <1>2. PICK a \in Nat : a = WholeSeed[w[1]]
    BY WholeNumbers
  <1>3. PICK b \in Nat : b = WholeGoals[w[Len(w)]]
    BY WholeNumbers
  <1> DEFINE F(h) == Flown(graph, WholeCall, w, at[h], at[h] - 1)
             S == {k \in Nat : k + 1 < hops => Total(C, k + 1) \in Nat /\ Total(C, k + 1) <= a + F(k + 1)}
  <1>4. 0 \in S
    <2> SUFFICES ASSUME 0 + 1 < hops PROVE Total(C, 0 + 1) \in Nat /\ Total(C, 0 + 1) <= a + F(0 + 1)
      OBVIOUS
    <2>1. Total(C, 0 + 1) = Total(C, 0) + C[0 + 1] /\ Total(C, 0) = 0
      BY TotalSteps
    <2>2. 1 \in 1..hops /\ 1 # hops /\ 1 - 1 = 0 /\ 0 + 1 = 1
      BY <1>1
    <2>3. PICK s : s = at[0]
      OBVIOUS
    <2>4. PICK t : t = at[1]
      OBVIOUS
    <2>5. PICK x : x = C[1] /\ x = RouteCost(graph, HopCall(1), parts[1])
      BY <2>2
    <2>6. /\ x \in Nat
          /\ Flown(graph, WholeCall, w, s, s - 1) \in Nat
          /\ Flown(graph, WholeCall, w, t, t - 1) \in Nat
          /\ x + Flown(graph, WholeCall, w, s, s - 1) <= a + Flown(graph, WholeCall, w, t, t - 1)
      BY <2>2, <2>3, <2>4, <2>5, <1>2, HopStretch
    <2>7. x <= a + Flown(graph, WholeCall, w, t, t - 1)
      BY <2>6
    <2>8. Total(C, 0 + 1) = x
      BY <2>1, <2>2, <2>5, <2>6
    <2> QED BY <2>2, <2>4, <2>6, <2>7, <2>8
  <1>5. ASSUME NEW k \in Nat, k \in S PROVE k + 1 \in S
    <2> SUFFICES ASSUME (k + 1) + 1 < hops
                 PROVE  Total(C, (k + 1) + 1) \in Nat /\ Total(C, (k + 1) + 1) <= a + F((k + 1) + 1)
      OBVIOUS
    <2>1. PICK h \in 1..hops : h = (k + 1) + 1 /\ h # 1 /\ h # hops /\ h - 1 = k + 1
      BY <1>1
    <2>2. PICK tot \in Nat : tot = Total(C, k + 1) /\ tot <= a + F(k + 1)
      BY <1>1, <1>5
    <2>3. PICK s : s = at[h - 1]
      OBVIOUS
    <2>4. PICK t : t = at[h]
      OBVIOUS
    <2>5. PICK x : x = C[h] /\ x = RouteCost(graph, HopCall(h), parts[h])
      BY <2>1
    <2>6. /\ x \in Nat
          /\ Flown(graph, WholeCall, w, s, s - 1) \in Nat
          /\ Flown(graph, WholeCall, w, t, t - 1) \in Nat
          /\ x + Flown(graph, WholeCall, w, s, s - 1) <= Flown(graph, WholeCall, w, t, t - 1)
      BY <2>1, <2>3, <2>4, <2>5, HopStretch
    <2>7. PICK f \in Nat : f = Flown(graph, WholeCall, w, s, s - 1)
      BY <2>6
    <2>8. PICK g2 \in Nat : g2 = Flown(graph, WholeCall, w, t, t - 1)
      BY <2>6
    <2>9. tot <= a + f
      BY <2>1, <2>2, <2>3, <2>7
    <2>10. x + f <= 0 + g2
      BY <2>6, <2>7, <2>8
    <2>11. tot + x <= a + 0 + g2
      BY <2>6, <2>9, <2>10, StretchSum
    <2>12. Total(C, (k + 1) + 1) = Total(C, k + 1) + C[(k + 1) + 1]
      <3>1. PICK m \in Nat : m = k + 1
        OBVIOUS
      <3>2. Total(C, m + 1) = Total(C, m) + C[m + 1]
        BY TotalSteps
      <3> QED BY <3>1, <3>2, Zenon
    <2>13. Total(C, (k + 1) + 1) = tot + x
      BY <2>1, <2>2, <2>5, <2>12
    <2>14. tot + x <= a + g2 /\ tot + x \in Nat
      BY <2>6, <2>11
    <2>15. F((k + 1) + 1) = g2
      BY <2>1, <2>4, <2>8
    <2> QED BY <2>13, <2>14, <2>15, Zenon
  <1> HIDE DEF S
  <1>6. Nat \subseteq S
    BY <1>4, <1>5, NatSetInduction
  <1>7. PICK k \in Nat : k + 1 = hops - 1 /\ k + 1 < hops /\ (k + 1) + 1 = hops
    <2>1. hops - 2 \in Nat /\ (hops - 2) + 1 = hops - 1 /\ (hops - 2) + 1 < hops /\ ((hops - 2) + 1) + 1 = hops
      BY <1>1
    <2> QED BY <2>1
  <1>8. PICK tot \in Nat : tot = Total(C, k + 1) /\ tot <= a + F(k + 1)
    BY <1>6, <1>7 DEF S
  <1>9. PICK s : s = at[hops - 1]
    OBVIOUS
  <1>10. PICK t : t = at[hops] /\ t = Len(w)
    BY DEF Layout
  <1>11. PICK x : x = C[hops] /\ x = RouteCost(graph, HopCall(hops), parts[hops])
    <2>1. hops \in 1..hops
      BY <1>1
    <2> QED BY <2>1
  <1>12. /\ x \in Nat
         /\ Flown(graph, WholeCall, w, s, s - 1) \in Nat
         /\ Flown(graph, WholeCall, w, t, t) \in Nat
         /\ x + Flown(graph, WholeCall, w, s, s - 1) <= b + Flown(graph, WholeCall, w, t, t)
    <2>1. hops \in 1..hops /\ hops # 1
      BY <1>1
    <2> QED BY <2>1, <1>3, <1>9, <1>10, <1>11, HopStretch, ZenonT(60)
  <1>13. PICK f \in Nat : f = Flown(graph, WholeCall, w, s, s - 1)
    BY <1>12
  <1>14. PICK g2 \in Nat : g2 = Flown(graph, WholeCall, w, t, t)
    BY <1>12
  <1>15. tot <= a + f
    BY <1>7, <1>8, <1>9, <1>13
  <1>16. x + f <= b + g2
    BY <1>12, <1>13, <1>14
  <1>17. tot + x <= a + b + g2 /\ tot + x \in Nat
    BY <1>12, <1>15, <1>16, StretchSum
  <1>18. Costed(w).cost = a + b + g2
    BY <1>2, <1>3, <1>10, <1>14, WholeNumbers
  <1>19. Total(C, (k + 1) + 1) = Total(C, k + 1) + C[(k + 1) + 1]
    <2>1. PICK m \in Nat : m = k + 1
      OBVIOUS
    <2>2. Total(C, m + 1) = Total(C, m) + C[m + 1]
      BY TotalSteps
    <2> QED BY <2>1, <2>2, Zenon
  <1>20. Total(C, hops) = tot + x
    BY <1>7, <1>8, <1>11, <1>19
  <1> QED BY <1>17, <1>18, <1>20, Zenon

(***************************************************************************)
(* Picks: one alternative of each hop.                                     *)
(***************************************************************************)
\* The alternatives of hop h: distinct routes with their costs, cheapest first.
Alternatives(h, s) ==
    /\ s \in Seq(FoundPath) /\ s # <<>>
    /\ \A i \in DOMAIN s : /\ s[i].vertices \in Routes(graph, HopCall(h))
                           /\ s[i].cost = RouteCost(graph, HopCall(h), s[i].vertices)
    /\ \A i, j \in DOMAIN s : s[i].vertices = s[j].vertices => i = j
    /\ \A i, j \in DOMAIN s : i <= j => s[i].cost <= s[j].cost

SegmentsOK ==
    /\ segments \in Seq(Seq(FoundPath))
    /\ Len(segments) <= hops
    /\ \A h \in 1..Len(segments) : Alternatives(h, segments[h])

\* Every hop has its alternatives.
Merging == QueryOK /\ IsGraph(graph) /\ hops >= 2 /\ SegmentsOK /\ Len(segments) = hops

IsPick(p) ==
    /\ p \in [1..hops -> Nat]
    /\ \A h \in 1..hops : p[h] \in 1..Len(segments[h])

PartsOf(p) == [h \in 1..hops |-> segments[h][p[h]].vertices]

LEMMA PickFacts ==
  ASSUME Merging, NEW p, IsPick(p)
  PROVE  /\ hops \in Nat \ {0} /\ HopParts(PartsOf(p)) /\ ArePaths(PartsOf(p), hops)
         /\ \E at : Layout(Stitch(p), at, PartsOf(p), hops)
         /\ \A h \in 1..hops :
               /\ segments[h][p[h]].cost = RouteCost(graph, HopCall(h), PartsOf(p)[h])
               /\ segments[h][p[h]].cost \in Nat
               /\ PartsOf(p)[h] = segments[h][p[h]].vertices
               /\ p[h] \in DOMAIN segments[h]
  <1>0. QueryOK /\ IsGraph(graph) /\ Len(segments) = hops /\ SegmentsOK
    BY DEF Merging
  <1>1. hops \in Nat \ {0}
    BY <1>0, HopsNat
  <1>2. ASSUME NEW h \in 1..hops
        PROVE  /\ p[h] \in DOMAIN segments[h]
               /\ segments[h][p[h]].vertices \in Routes(graph, HopCall(h))
               /\ segments[h][p[h]].cost = RouteCost(graph, HopCall(h), segments[h][p[h]].vertices)
    <2>1. Alternatives(h, segments[h])
      BY <1>0 DEF SegmentsOK
    <2>2. PICK s \in Seq(FoundPath) : s = segments[h]
      BY <2>1 DEF Alternatives
    <2>3. p[h] \in DOMAIN s
      BY <2>2, LenProperties DEF IsPick
    <2> QED BY <2>1, <2>2, <2>3 DEF Alternatives
  <1>3. \A h \in 1..hops : PartsOf(p)[h] = segments[h][p[h]].vertices
    BY DEF PartsOf
  <1>4. HopParts(PartsOf(p))
    BY <1>2, <1>3 DEF HopParts
  <1>5. ArePaths(PartsOf(p), hops) /\ \A h \in 1..(hops - 1) : Seam(PartsOf(p), h)
    BY <1>0, <1>4, HopPartsAre
  <1>6. Len(PartsOf(p)) = hops
    BY <1>1 DEF PartsOf
  <1>7. PICK q : q = PartsOf(p)
    OBVIOUS
  <1>8. \E at : Layout(Concatenate(q), at, q, hops)
    BY <1>1, <1>5, <1>6, <1>7, ConcatenateLays
  <1>9. Stitch(p) = Concatenate(q)
    BY <1>7 DEF Stitch, PartsOf
  <1>10. ASSUME NEW h \in 1..hops PROVE segments[h][p[h]].cost \in Nat
    BY <1>0, <1>2, HopRoute
  <1> QED BY <1>1, <1>2, <1>3, <1>4, <1>5, <1>7, <1>8, <1>9, <1>10

LEMMA StitchIsPath ==
  ASSUME Merging, NEW p, IsPick(p)
  PROVE  Stitch(p) \in Seq(Vertex)
  BY PickFacts DEF Layout

LEMMA SamePick ==
  ASSUME NEW D, NEW p \in [D -> Nat], NEW q \in [D -> Nat], \A h \in D : p[h] = q[h]
  PROVE  p = q
  OBVIOUS

\* Different picks never stitch to the same simple path: the via points show where the
\* hops of a path end.
LEMMA StitchUnique ==
  ASSUME Merging, NEW p, IsPick(p), NEW q, IsPick(q), IsSimple(Stitch(p)), Stitch(p) = Stitch(q)
  PROVE  p = q
  <1>0. QueryOK /\ IsGraph(graph) /\ Len(segments) = hops /\ SegmentsOK
    BY DEF Merging
  <1>1. PICK w : w = Stitch(p) /\ w = Stitch(q) /\ IsSimple(w)
    OBVIOUS
  <1>2. PICK P : P = PartsOf(p)
    OBVIOUS
  <1>3. PICK Q : Q = PartsOf(q)
    OBVIOUS
  <1>4. PICK at : Layout(w, at, P, hops)
    BY <1>1, <1>2, PickFacts
  <1>5. PICK bt : Layout(w, bt, Q, hops)
    BY <1>1, <1>3, PickFacts
  <1>6. hops \in Nat \ {0} /\ HopParts(P) /\ HopParts(Q) /\ ArePaths(P, hops) /\ ArePaths(Q, hops)
    BY <1>2, <1>3, PickFacts
  <1>7. ASSUME NEW h \in 1..(hops - 1) PROVE w[at[h]] = w[bt[h]]
    <2>1. h \in 1..hops
      BY <1>6
    <2>2. P[h][Len(P[h])] = query.forced[h] /\ Q[h][Len(Q[h])] = query.forced[h]
      BY <1>0, <1>6, HopPartsAre
    <2>3. w[at[h]] = P[h][Len(P[h])]
      BY <2>1, <1>4, <1>6, LayoutFacts
    <2>4. w[bt[h]] = Q[h][Len(Q[h])]
      BY <2>1, <1>5, <1>6, LayoutFacts
    <2> QED BY <2>2, <2>3, <2>4
  <1>8. ASSUME NEW h \in 1..hops PROVE p[h] = q[h]
    <2>1. P[h] = Q[h]
      BY <1>1, <1>4, <1>5, <1>6, <1>7, LayoutUnique
    <2>2. segments[h][p[h]].vertices = segments[h][q[h]].vertices /\ p[h] \in DOMAIN segments[h] /\ q[h] \in DOMAIN segments[h]
      BY <2>1, <1>2, <1>3, PickFacts
    <2>3. Alternatives(h, segments[h])
      BY <1>0 DEF SegmentsOK
    <2> QED BY <2>2, <2>3 DEF Alternatives
  <1>9. p \in [1..hops -> Nat] /\ q \in [1..hops -> Nat]
    BY DEF IsPick
  <1> QED BY <1>8, <1>9, SamePick

PassesVias(p, n) ==
    \E at \in [1..n -> DOMAIN p] :
       /\ \A h \in 1..n : p[at[h]] = query.forced[h]
       /\ \A h \in 1..(n - 1) : at[h] <= at[h + 1]

LEMMA StitchPasses ==
  ASSUME Merging, NEW p, IsPick(p)
  PROVE  PassesVias(Stitch(p), hops - 1)
  <1>0. QueryOK /\ IsGraph(graph)
    BY DEF Merging
  <1>1. PICK w : w = Stitch(p)
    OBVIOUS
  <1>2. PICK P : P = PartsOf(p)
    OBVIOUS
  <1>3. PICK bt : Layout(w, bt, P, hops)
    BY <1>1, <1>2, PickFacts
  <1>4. hops \in Nat \ {0} /\ HopParts(P) /\ ArePaths(P, hops)
    BY <1>2, PickFacts
  <1>5. w \in Seq(Vertex) /\ DOMAIN w = 1..Len(w)
    BY <1>3, LenProperties DEF Layout
  <1> DEFINE at == [h \in 1..(hops - 1) |-> bt[h]]
  <1>6. ASSUME NEW h \in 1..(hops - 1) PROVE at[h] \in DOMAIN w /\ w[at[h]] = query.forced[h]
    <2>1. h \in 1..hops
      BY <1>4
    <2>2. bt[h] \in 1..Len(w) /\ w[bt[h]] = P[h][Len(P[h])]
      BY <2>1, <1>3, <1>4, LayoutFacts
    <2>3. P[h][Len(P[h])] = query.forced[h]
      BY <1>0, <1>4, HopPartsAre
    <2> QED BY <2>2, <2>3, <1>5
  <1>7. ASSUME NEW h \in 1..((hops - 1) - 1) PROVE at[h] <= at[h + 1]
    <2>1. PICK j \in 1..hops : j = h + 1 /\ j - 1 = h /\ h \in 1..(hops - 1) /\ h + 1 \in 1..(hops - 1)
      BY <1>4
    <2>2. bt[j - 1] <= bt[j]
      BY <1>3, <1>4, LayoutFacts
    <2> QED BY <2>1, <2>2
  <1>8. at \in [1..(hops - 1) -> DOMAIN w]
    BY <1>6
  <1> HIDE DEF at
  <1> QED BY <1>1, <1>6, <1>7, <1>8 DEF PassesVias

LEMMA LowerIs ==
  ASSUME Merging, NEW p, IsPick(p)
  PROVE  \E C : /\ LowerOf(segments, p) = Total(C, hops)
                /\ AreNats(C, hops)
                /\ \A h \in 1..hops : C[h] = segments[h][p[h]].cost
  <1>1. hops \in Nat \ {0} /\ \A h \in 1..hops : segments[h][p[h]].cost \in Nat
    BY PickFacts
  <1>2. p \in [1..hops -> Nat]
    BY DEF IsPick
  <1>3. DOMAIN p = 1..hops /\ Len(p) = hops
    BY <1>1, <1>2
  <1> DEFINE C == [h \in DOMAIN p |-> segments[h][p[h]].cost]
  <1>4. LowerOf(segments, p) = Total(C, hops)
    BY <1>3 DEF LowerOf
  <1>5. \A h \in 1..hops : C[h] = segments[h][p[h]].cost
    BY <1>3
  <1> HIDE DEF C
  <1>6. AreNats(C, hops)
    BY <1>1, <1>5 DEF AreNats
  <1> QED BY <1>4, <1>5, <1>6

\* The bound of a pick is at most its route's cost.
LEMMA LowerBelow ==
  ASSUME Merging, NEW p, IsPick(p), IsRoute(Stitch(p))
  PROVE  /\ LowerOf(segments, p) <= Costed(Stitch(p)).cost
         /\ LowerOf(segments, p) \in Nat /\ Costed(Stitch(p)).cost \in Nat
  <1>0. QueryOK /\ IsGraph(graph) /\ hops >= 2
    BY DEF Merging
  <1>1. PICK w \in Seq(Vertex) : w = Stitch(p) /\ IsRoute(w)
    BY StitchIsPath
  <1>2. PICK P : P = PartsOf(p)
    OBVIOUS
  <1>3. PICK at : Layout(w, at, P, hops)
    BY <1>1, <1>2, PickFacts
  <1>4. HopParts(P)
    BY <1>2, PickFacts
  <1>5. PICK C : /\ LowerOf(segments, p) = Total(C, hops)
                 /\ \A h \in 1..hops : C[h] = segments[h][p[h]].cost
    BY LowerIs
  <1>6. \A h \in 1..hops : C[h] = RouteCost(graph, HopCall(h), P[h])
    BY <1>2, <1>5, PickFacts
  <1>7. Total(C, hops) \in Nat /\ Total(C, hops) <= Costed(w).cost
    BY <1>0, <1>1, <1>3, <1>4, <1>6, HopsAreBelow
  <1>8. Costed(w).cost \in Nat
    BY <1>0, <1>1, WholeNumbers
  <1> QED BY <1>1, <1>5, <1>7, <1>8

\* Later alternatives raise the bound.
LEMMA LowerGrows ==
  ASSUME Merging, NEW p, IsPick(p), NEW q, IsPick(q), \A h \in 1..hops : p[h] <= q[h]
  PROVE  /\ LowerOf(segments, p) <= LowerOf(segments, q)
         /\ LowerOf(segments, p) \in Nat /\ LowerOf(segments, q) \in Nat
  <1>0. SegmentsOK /\ Len(segments) = hops
    BY DEF Merging
  <1>1. PICK C : /\ LowerOf(segments, p) = Total(C, hops) /\ AreNats(C, hops)
                 /\ \A h \in 1..hops : C[h] = segments[h][p[h]].cost
    BY LowerIs
  <1>2. PICK D : /\ LowerOf(segments, q) = Total(D, hops) /\ AreNats(D, hops)
                 /\ \A h \in 1..hops : D[h] = segments[h][q[h]].cost
    BY LowerIs
  <1>3. ASSUME NEW h \in 1..hops PROVE C[h] <= D[h]
    <2>1. p[h] \in DOMAIN segments[h] /\ q[h] \in DOMAIN segments[h]
      BY PickFacts
    <2>2. Alternatives(h, segments[h])
      BY <1>0 DEF SegmentsOK
    <2>3. p[h] <= q[h]
      OBVIOUS
    <2>4. segments[h][p[h]].cost <= segments[h][q[h]].cost
      BY <2>1, <2>2, <2>3 DEF Alternatives
    <2> QED BY <2>4, <1>1, <1>2
  <1>4. hops \in Nat
    BY PickFacts
  <1>5. /\ Total(C, hops) <= Total(D, hops) /\ Total(C, hops) \in Nat /\ Total(D, hops) \in Nat
    BY <1>1, <1>2, <1>3, <1>4, TotalGrows
  <1> QED BY <1>1, <1>2, <1>5

(***************************************************************************)
(* The tree of picks.                                                      *)
(***************************************************************************)
\* The picks that exploring an item leads to: those below it in the tree.
Under(a, q) == \A h \in 1..hops : IF h < a.last THEN q[h] = a.pick[h] ELSE a.pick[h] <= q[h]

ItemOK(a) ==
    /\ IsPick(a.pick)
    /\ a.last \in 1..hops
    /\ a.lower = LowerOf(segments, a.pick)

LEMMA UnderSelf ==
  ASSUME Merging, NEW a, ItemOK(a)
  PROVE  Under(a, a.pick)
  <1>1. PICK p : p = a.pick /\ p \in [1..hops -> Nat]
    BY DEF ItemOK, IsPick
  <1>2. \A h \in 1..hops : p[h] <= p[h]
    <2> SUFFICES ASSUME NEW h \in 1..hops PROVE p[h] <= p[h]
      OBVIOUS
    <2>1. p[h] \in Nat
      BY <1>1
    <2> QED BY <2>1
  <1> QED BY <1>1, <1>2, Zenon DEF Under

\* An item's successors, one for each hop that can be advanced.
LEMMA SuccessorIs ==
  ASSUME Merging, NEW a, ItemOK(a), NEW b
  PROVE  b \in Successors(a) <=>
            \E h \in 1..hops : /\ a.last <= h
                               /\ a.pick[h] < Len(segments[h])
                               /\ b = PickItem(segments, [a.pick EXCEPT ![h] = @ + 1], h)
  <1>1. hops \in Nat /\ a.last \in 1..hops
    BY PickFacts DEF ItemOK
  <1>2. \A h : h \in a.last..hops <=> h \in 1..hops /\ a.last <= h
    BY <1>1
  <1> QED BY <1>2 DEF Successors

LEMMA SuccessorOK ==
  ASSUME Merging, NEW a, ItemOK(a), NEW b, NEW h \in 1..hops, a.last <= h,
         a.pick[h] < Len(segments[h]), b = PickItem(segments, [a.pick EXCEPT ![h] = @ + 1], h)
  PROVE  /\ ItemOK(b) /\ b.last = h
         /\ b.pick[h] = a.pick[h] + 1
         /\ \A j \in 1..hops : j # h => b.pick[j] = a.pick[j]
         /\ a.lower <= b.lower /\ a.lower \in Nat /\ b.lower \in Nat
  <1>0. SegmentsOK /\ Len(segments) = hops
    BY DEF Merging
  <1>1. PICK p : p = a.pick /\ p \in [1..hops -> Nat] /\ IsPick(p)
    BY DEF ItemOK, IsPick
  <1>2. PICK q : q = [p EXCEPT ![h] = @ + 1]
    OBVIOUS
  <1>3. q \in [1..hops -> Nat] /\ q[h] = p[h] + 1 /\ \A j \in 1..hops : j # h => q[j] = p[j]
    <2>1. p \in [1..hops -> Nat]
      BY <1>1, Zenon
    <2> QED BY <2>1, <1>2
  <1>4. b.pick = q /\ b.last = h /\ b.lower = LowerOf(segments, q)
    BY <1>1, <1>2 DEF PickItem
  <1>5. IsPick(q)
    <2>1. ASSUME NEW j \in 1..hops PROVE q[j] \in 1..Len(segments[j])
      <3>1. CASE j = h
        <4>1. PICK s \in Seq(FoundPath) : s = segments[h]
          BY <1>0 DEF SegmentsOK, Alternatives
        <4>2. Len(s) \in Nat /\ p[h] \in 1..Len(s) /\ p[h] < Len(s)
          BY <4>1, <1>1, LenProperties DEF IsPick
        <4>3. p[h] + 1 \in 1..Len(s)
          BY <4>2
        <4> QED BY <3>1, <4>1, <4>3, <1>3
      <3>2. CASE j # h
        BY <3>2, <1>1, <1>3 DEF IsPick
      <3> QED BY <3>1, <3>2
    <2> QED BY <2>1, <1>3 DEF IsPick
  <1>6. \A j \in 1..hops : p[j] <= q[j]
    <2> SUFFICES ASSUME NEW j \in 1..hops PROVE p[j] <= q[j]
      OBVIOUS
    <2>1. p[j] \in Nat
      BY <1>1
    <2> QED BY <2>1, <1>3
  <1>7. /\ LowerOf(segments, p) <= LowerOf(segments, q)
        /\ LowerOf(segments, p) \in Nat /\ LowerOf(segments, q) \in Nat
    BY <1>1, <1>5, <1>6, LowerGrows
  <1>8. a.lower = LowerOf(segments, p)
    BY <1>1 DEF ItemOK
  <1> QED BY <1>1, <1>3, <1>4, <1>5, <1>7, <1>8 DEF ItemOK

LEMMA SuccessorItem ==
  ASSUME Merging, NEW a, ItemOK(a), NEW b \in Successors(a)
  PROVE  ItemOK(b) /\ a.lower <= b.lower /\ b.lower \in Nat
  <1>1. PICK h \in 1..hops : /\ a.last <= h /\ a.pick[h] < Len(segments[h])
                             /\ b = PickItem(segments, [a.pick EXCEPT ![h] = @ + 1], h)
    BY SuccessorIs
  <1> QED BY <1>1, SuccessorOK

LEMMA UnderSuccessor ==
  ASSUME Merging, NEW a, ItemOK(a), NEW b \in Successors(a), NEW q, IsPick(q), Under(b, q)
  PROVE  Under(a, q) /\ q # a.pick
  <1>1. PICK h \in 1..hops : /\ a.last <= h /\ a.pick[h] < Len(segments[h])
                             /\ b = PickItem(segments, [a.pick EXCEPT ![h] = @ + 1], h)
    BY SuccessorIs
  <1>2. /\ b.last = h /\ b.pick[h] = a.pick[h] + 1 /\ \A j \in 1..hops : j # h => b.pick[j] = a.pick[j]
    BY <1>1, SuccessorOK
  <1>3. a.last \in 1..hops /\ hops \in Nat /\ \A j \in 1..hops : a.pick[j] \in Nat /\ q[j] \in Nat
    BY PickFacts DEF ItemOK, IsPick
  <1>4. ASSUME NEW j \in 1..hops
        PROVE  IF j < a.last THEN q[j] = a.pick[j] ELSE a.pick[j] <= q[j]
    <2>1. IF j < h THEN q[j] = b.pick[j] ELSE b.pick[j] <= q[j]
      BY <1>2 DEF Under
    <2>2. PICK x \in Nat : x = a.pick[j]
      BY <1>3
    <2>3. PICK y \in Nat : y = q[j]
      BY <1>3
    <2>4. CASE j < h
      <3>1. q[j] = a.pick[j]
        <4>1. j # h
          BY <2>4, <1>3
        <4> QED BY <4>1, <2>1, <2>4, <1>2
      <3> QED BY <3>1, <2>2
    <2>5. CASE ~(j < h)
      <3>1. ~(j < a.last)
        BY <2>5, <1>1, <1>3
      <3>2. a.pick[j] <= q[j]
        <4>1. CASE j = h
          BY <4>1, <2>1, <2>2, <2>3, <2>5, <1>2
        <4>2. CASE j # h
          BY <4>2, <2>1, <2>5, <1>2
        <4> QED BY <4>1, <4>2
      <3> QED BY <3>1, <3>2
    <2> QED BY <2>4, <2>5
  <1>5. q[h] # a.pick[h]
    <2>1. b.pick[h] <= q[h]
      <3>1. ~(h < h)
        BY <1>3
      <3> QED BY <3>1, <1>2 DEF Under
    <2>2. PICK x \in Nat : x = a.pick[h]
      BY <1>3
    <2>3. x + 1 <= q[h]
      BY <2>1, <2>2, <1>2
    <2> QED BY <2>2, <2>3
  <1> QED BY <1>4, <1>5 DEF Under

\* Everything below an item is its own pick or below a successor.
LEMMA SuccessorsCover ==
  ASSUME Merging, NEW a, ItemOK(a), NEW q, IsPick(q), Under(a, q), q # a.pick
  PROVE  \E b \in Successors(a) : Under(b, q)
  <1>1. PICK p : p = a.pick /\ p \in [1..hops -> Nat] /\ IsPick(p)
    BY DEF ItemOK, IsPick
  <1>2. q \in [1..hops -> Nat] /\ hops \in Nat /\ a.last \in 1..hops
    BY PickFacts DEF ItemOK, IsPick
  <1> DEFINE X == {h \in 1..hops : q[h] # p[h]}
  <1>3. X # {} /\ X \in SUBSET Nat
    <2>1. X # {}
      <3> SUFFICES ASSUME X = {} PROVE FALSE
        OBVIOUS
      <3>1. \A h \in 1..hops : q[h] = p[h]
        OBVIOUS
      <3>2. q = p
        BY <3>1, <1>1, <1>2, SamePick
      <3> QED BY <3>2, <1>1
    <2> QED BY <2>1, <1>2
  <1>4. PICK h \in X : \A k \in X : h <= k
    <2> HIDE DEF X
    <2> QED BY <1>3, LeastNat
  <1>5. h \in 1..hops /\ q[h] # p[h] /\ \A j \in 1..hops : j < h => q[j] = p[j]
    BY <1>4, <1>2
  <1> HIDE DEF X
  <1>6. ASSUME NEW j \in 1..hops PROVE IF j < a.last THEN q[j] = p[j] ELSE p[j] <= q[j]
    BY <1>1 DEF Under
  <1>7. a.last <= h
    <2>1. ~(h < a.last)
      BY <1>5, <1>6
    <2> QED BY <2>1, <1>2, <1>5
  <1>8. p[h] <= q[h] /\ q[h] \in 1..Len(segments[h]) /\ p[h] \in Nat
    <2>1. ~(h < a.last)
      BY <1>2, <1>5, <1>7
    <2> QED BY <2>1, <1>1, <1>5, <1>6 DEF IsPick
  <1>9. PICK b : b = PickItem(segments, [a.pick EXCEPT ![h] = @ + 1], h)
    OBVIOUS
  <1>10. p[h] < Len(segments[h])
    <2>1. PICK s \in Seq(FoundPath) : s = segments[h]
      BY <1>5 DEF Merging, SegmentsOK, Alternatives
    <2>2. PICK n \in Nat : n = Len(segments[h])
      BY <2>1, LenProperties
    <2> QED BY <2>2, <1>5, <1>8
  <1>11. b \in Successors(a)
    BY <1>1, <1>5, <1>7, <1>9, <1>10, SuccessorIs
  <1>12. /\ b.last = h /\ b.pick[h] = p[h] + 1 /\ \A j \in 1..hops : j # h => b.pick[j] = p[j]
    BY <1>1, <1>5, <1>7, <1>9, <1>10, SuccessorOK
  <1>13. ASSUME NEW j \in 1..hops PROVE IF j < b.last THEN q[j] = b.pick[j] ELSE b.pick[j] <= q[j]
    <2>1. CASE j < h
      <3>1. j # h
        BY <2>1, <1>5
      <3> QED BY <3>1, <2>1, <1>5, <1>12
    <2>2. CASE j = h
      <3>1. PICK x \in Nat : x = p[h]
        BY <1>8
      <3>2. PICK y \in Nat : y = q[h]
        BY <1>2, <1>5
      <3>3. x <= y /\ x # y
        BY <3>1, <3>2, <1>5, <1>8
      <3>4. x + 1 <= y
        BY <3>3
      <3>5. ~(j < h)
        BY <2>2, <1>5
      <3> QED BY <3>1, <3>2, <3>4, <3>5, <2>2, <1>12
    <2>3. CASE ~(j < h) /\ j # h
      <3>1. ~(j < a.last)
        BY <2>3, <1>2, <1>5, <1>7
      <3> QED BY <3>1, <2>3, <1>6, <1>12
    <2> QED BY <2>1, <2>2, <2>3
  <1> QED BY <1>11, <1>13 DEF Under

\* No pick is below two successors.
LEMMA SuccessorsApart ==
  ASSUME Merging, NEW a, ItemOK(a), NEW b \in Successors(a), NEW c \in Successors(a),
         NEW q, IsPick(q), Under(b, q), Under(c, q)
  PROVE  b = c
  <1>1. PICK h \in 1..hops : /\ a.last <= h /\ a.pick[h] < Len(segments[h])
                             /\ b = PickItem(segments, [a.pick EXCEPT ![h] = @ + 1], h)
    BY SuccessorIs
  <1>2. PICK k \in 1..hops : /\ a.last <= k /\ a.pick[k] < Len(segments[k])
                             /\ c = PickItem(segments, [a.pick EXCEPT ![k] = @ + 1], k)
    BY SuccessorIs
  <1>3. b.last = h /\ b.pick[h] = a.pick[h] + 1 /\ \A j \in 1..hops : j # h => b.pick[j] = a.pick[j]
    BY <1>1, SuccessorOK
  <1>4. c.last = k /\ c.pick[k] = a.pick[k] + 1 /\ \A j \in 1..hops : j # k => c.pick[j] = a.pick[j]
    BY <1>2, SuccessorOK
  <1>5. hops \in Nat /\ \A j \in 1..hops : a.pick[j] \in Nat /\ q[j] \in Nat
    BY PickFacts DEF ItemOK, IsPick
  <1>6. ~(h < k)
    <2> SUFFICES ASSUME h < k PROVE FALSE
      OBVIOUS
    <2>1. h # k
      BY <1>5
    <2>2. q[h] = a.pick[h]
      BY <2>1, <1>4 DEF Under
    <2>3. a.pick[h] + 1 <= q[h]
      <3>1. ~(h < h)
        BY <1>5
      <3> QED BY <3>1, <1>3 DEF Under
    <2>4. PICK x \in Nat : x = a.pick[h]
      BY <1>5
    <2> QED BY <2>2, <2>3, <2>4
  <1>7. ~(k < h)
    <2> SUFFICES ASSUME k < h PROVE FALSE
      OBVIOUS
    <2>1. h # k
      BY <1>5
    <2>2. q[k] = a.pick[k]
      BY <2>1, <1>3 DEF Under
    <2>3. a.pick[k] + 1 <= q[k]
      <3>1. ~(k < k)
        BY <1>5
      <3> QED BY <3>1, <1>4 DEF Under
    <2>4. PICK x \in Nat : x = a.pick[k]
      BY <1>5
    <2> QED BY <2>2, <2>3, <2>4
  <1>8. h = k
    BY <1>5, <1>6, <1>7
  <1> QED BY <1>1, <1>2, <1>8

(***************************************************************************)
(* The invariant of the merge and of the fallback.                         *)
(***************************************************************************)
HopRequest(h) ==
    [sources |-> HopFrom(h), goals |-> HopTo(h), k |-> query.k, turn |-> query.turn,
     bans |-> query.bans]

Emitted == {routes[i] : i \in DOMAIN routes}

\* The hops before the current one have their alternatives.
HopInv ==
    /\ SegmentsOK
    /\ stage \in {"ask", "hop"} => Len(segments) = hop - 1
    /\ stage \in {"merge", "bar", "search"} => Len(segments) = hops
    /\ stage \in {"ask", "hop", "merge", "bar", "search"} => query.k > 0 /\ query.forced # <<>>
    /\ stage = "hop" => request = HopRequest(hop)
    /\ stage \in {"idle", "ask", "hop"} => frontier = {} /\ ready = {} /\ routes = <<>>
    /\ stage \in {"idle", "ask", "hop", "merge"} => path = <<>>
    /\ stage = "idle" => segments = <<>>

\* What is returned: distinct routes through the via points, cheapest first.
GoodRoute(r) ==
    /\ IsRoute(r.vertices)
    /\ r = Costed(r.vertices)
    /\ PassesVias(r.vertices, hops - 1)

RouteInv ==
    /\ routes \in Seq(FoundPath)
    /\ \A r \in Emitted : GoodRoute(r)
    /\ \A i, j \in DOMAIN routes : routes[i] = routes[j] => i = j
    /\ RoutesAscend

\* r is what the pick p stitches to.
FromPick(r, p) == IsPick(p) /\ IsRoute(Stitch(p)) /\ r = Costed(Stitch(p))

\* The frontier's subtrees are apart, hold no pick that was stitched, and every other
\* route among the picks is ready or emitted.
TreeInv ==
    /\ \A a \in frontier : ItemOK(a)
    /\ \A a, b \in frontier : \A q : IsPick(q) /\ Under(a, q) /\ Under(b, q) => a = b
    /\ \A r \in ready \cup Emitted : \E p : FromPick(r, p) /\ \A a \in frontier : ~Under(a, p)
    /\ \A p : IsPick(p) /\ IsRoute(Stitch(p)) =>
          (\E a \in frontier : Under(a, p)) \/ Costed(Stitch(p)) \in ready \cup Emitted

\* Nothing ready or to be found undercuts what was emitted.
OrderInv ==
    /\ IsFiniteSet(ready)
    /\ ready \cap Emitted = {}
    /\ \A r \in Emitted : \A x \in ready : r.cost <= x.cost
    /\ CanExplore => \A r \in Emitted : \A a \in frontier : r.cost <= a.lower

\* After the merge: unless the budget ran out, no route among the picks is left out of
\* fewer than k.
EndInv ==
    (stage \in {"bar", "search", "return"} /\ Len(segments) = hops /\ explored < kMaxStitchedPicks) =>
       \A p : (IsPick(p) /\ IsRoute(Stitch(p)) /\ Costed(Stitch(p)) \notin Emitted) =>
          /\ stage = "return" /\ Len(routes) = query.k
          /\ \A r \in Emitted : r.cost <= Costed(Stitch(p)).cost

\* The fallback's path so far passes the via points before this hop.
GreedyInv ==
    stage \in {"bar", "search"} =>
       /\ routes = <<>>
       /\ hop = 1 => path = <<>>
       /\ hop > 1 => /\ path # <<>>
                     /\ path[Len(path)] = query.forced[hop - 1]
                     /\ PassesVias(path, hop - 1)

CallInv ==
    stage = "search" => \/ pc = "idle"
                        \/ /\ call.sources = HopSources(ArrivalBearing)
                           /\ call.goalSeed = BuildSeedTable(HopGoals)

ViaInv ==
    /\ HopInv
    /\ RouteInv
    /\ stage = "merge" => TreeInv /\ OrderInv
    /\ EndInv
    /\ GreedyInv
    /\ CallInv

LEMMA CostedIs ==
  ASSUME QueryOK, IsGraph(graph), NEW w \in Seq(Vertex), IsRoute(w)
  PROVE  /\ Costed(w) \in FoundPath /\ Costed(w).vertices = w
         /\ Costed(w).cost \in Nat
  <1>1. /\ w # <<>> /\ WholeSeed[w[1]] \in Nat /\ WholeGoals[w[Len(w)]] \in Nat /\ Costed(w).cost \in Nat
    BY WholeNumbers
  <1>2. PICK n \in Nat : n = Len(w) /\ n >= 1
    BY <1>1, PathLen
  <1>3. Head(w) = w[1] /\ \A i \in 1..n : w[i] \in Vertex
    BY <1>1, <1>2, PathLen
  <1>4. PICK m \in Nat : m = n - 1 /\ Len(w) - 1 = m
    BY <1>2
  <1> DEFINE D == [i \in 1..m |-> SelectEdge(graph, w[i], w[i + 1]).distance_nm]
  <1>5. \A i \in 1..m : D[i] \in Nat
    <2> SUFFICES ASSUME NEW i \in 1..m PROVE SelectEdge(graph, w[i], w[i + 1]).distance_nm \in Nat
      OBVIOUS
    <2>1. n >= 2 /\ i \in 1..n /\ i + 1 \in 1..n /\ i \in 1..(Len(w) - 1)
      BY <1>2, <1>4
    <2>2. Usable(graph, w[i], w[i + 1]) # {}
      BY <2>1, <1>2 DEF IsRoute, Recostable, PathUsable
    <2> QED BY <2>1, <2>2, <1>3, StepNumbers
  <1>6. Total(D, m) \in Nat
    <2> HIDE DEF D
    <2> QED BY <1>5, TotalNat
  <1>7. EnrouteDistance(graph, w) = Total(D, m)
    BY <1>4 DEF EnrouteDistance
  <1> HIDE DEF D
  <1>8. DistanceOfPathMulti(graph, w, WholeSeed, WholeGoals) \in Nat
    BY <1>1, <1>3, <1>6, <1>7 DEF DistanceOfPathMulti
  <1>9. /\ Costed(w).vertices = w
        /\ Costed(w).distance_nm = DistanceOfPathMulti(graph, w, WholeSeed, WholeGoals)
    BY DEF Costed
  <1>10. Costed(w) = [vertices |-> Costed(w).vertices, cost |-> Costed(w).cost,
                      distance_nm |-> Costed(w).distance_nm]
    BY DEF Costed
  <1> QED BY <1>1, <1>8, <1>9, <1>10 DEF FoundPath

\* What only the graph and the query decide.
LEMMA SameQuery ==
  ASSUME UNCHANGED <<graph, query>>
  PROVE  /\ hops' = hops /\ (QueryOK' <=> QueryOK)
         /\ \A h : HopCall(h)' = HopCall(h) /\ HopRequest(h)' = HopRequest(h)
         /\ \A w : (IsRoute(w)' <=> IsRoute(w)) /\ Costed(w)' = Costed(w)
         /\ \A p, n : PassesVias(p, n)' <=> PassesVias(p, n)
         /\ \A r : GoodRoute(r)' <=> GoodRoute(r)
         /\ \A h, s : Alternatives(h, s)' <=> Alternatives(h, s)
  <1>1. hops' = hops /\ (QueryOK' <=> QueryOK)
    BY DEF hops, QueryOK, RequestOK
  <1>2. \A h : HopFrom(h)' = HopFrom(h) /\ HopTo(h)' = HopTo(h)
    BY <1>1 DEF HopFrom, HopTo
  <1>3. \A h : HopCall(h)' = HopCall(h) /\ HopRequest(h)' = HopRequest(h)
    BY <1>2 DEF HopCall, HopRequest
  <1>4. WholeSeed' = WholeSeed /\ WholeGoals' = WholeGoals
    BY DEF WholeSeed, WholeGoals
  <1>5. \A w : (IsRoute(w)' <=> IsRoute(w)) /\ Costed(w)' = Costed(w)
    BY <1>4 DEF IsRoute, Costed
  <1>6. \A p, n : PassesVias(p, n)' <=> PassesVias(p, n)
    BY DEF PassesVias
  <1>7. \A r : GoodRoute(r)' <=> GoodRoute(r)
    BY <1>1, <1>4 DEF GoodRoute, IsRoute, Costed, PassesVias
  <1>8. \A h, s : Alternatives(h, s)' <=> Alternatives(h, s)
    BY <1>3 DEF Alternatives
  <1> QED BY <1>1, <1>3, <1>5, <1>6, <1>7, <1>8

LEMMA SamePicks ==
  ASSUME UNCHANGED <<graph, query, segments>>
  PROVE  /\ Merging' <=> Merging
         /\ SegmentsOK' <=> SegmentsOK
         /\ \A p : (IsPick(p)' <=> IsPick(p)) /\ Stitch(p)' = Stitch(p)
         /\ \A p : (IsRoute(Stitch(p))' <=> IsRoute(Stitch(p))) /\ Costed(Stitch(p))' = Costed(Stitch(p))
         /\ \A r, p : FromPick(r, p)' <=> FromPick(r, p)
         /\ \A a, p : Under(a, p)' <=> Under(a, p)
         /\ \A a : ItemOK(a)' <=> ItemOK(a)
  <1>1. hops' = hops /\ (QueryOK' <=> QueryOK) /\ \A h, s : Alternatives(h, s)' <=> Alternatives(h, s)
    BY SameQuery
  <1>2. SegmentsOK' <=> SegmentsOK
    BY <1>1 DEF SegmentsOK
  <1>3. Merging' <=> Merging
    BY <1>1, <1>2 DEF Merging
  <1>4. \A p : (IsPick(p)' <=> IsPick(p)) /\ Stitch(p)' = Stitch(p)
    BY <1>1 DEF IsPick, Stitch
  <1>5. WholeSeed' = WholeSeed /\ WholeGoals' = WholeGoals
    BY DEF WholeSeed, WholeGoals
  <1>6. \A p : (IsRoute(Stitch(p))' <=> IsRoute(Stitch(p))) /\ Costed(Stitch(p))' = Costed(Stitch(p))
    BY <1>4, <1>5 DEF IsRoute, Costed
  <1>7. \A r, p : FromPick(r, p)' <=> FromPick(r, p)
    BY <1>4, <1>6 DEF FromPick
  <1>8. \A a, p : Under(a, p)' <=> Under(a, p)
    BY <1>1 DEF Under
  <1>9. \A a : ItemOK(a)' <=> ItemOK(a)
    BY <1>1, <1>4 DEF ItemOK
  <1> QED BY <1>2, <1>3, <1>4, <1>6, <1>7, <1>8, <1>9

\* What a step that leaves the router alone keeps.
LEMMA ViaFrame ==
  ASSUME ViaInv, UNCHANGED forcedVars, graph' = graph, stage = "hop" => request' = request, CallInv'
  PROVE  ViaInv'
  <1>1. /\ stage' = stage /\ query' = query /\ hop' = hop /\ segments' = segments
        /\ frontier' = frontier /\ ready' = ready /\ explored' = explored /\ path' = path
        /\ routes' = routes
    BY DEF forcedVars
  <1>2. /\ hops' = hops /\ (\A r : GoodRoute(r)' <=> GoodRoute(r))
        /\ (\A p, n : PassesVias(p, n)' <=> PassesVias(p, n))
        /\ \A h : HopRequest(h)' = HopRequest(h)
    BY <1>1, SameQuery
  <1>3. /\ SegmentsOK' <=> SegmentsOK
        /\ \A p : (IsPick(p)' <=> IsPick(p)) /\ Stitch(p)' = Stitch(p)
        /\ \A p : (IsRoute(Stitch(p))' <=> IsRoute(Stitch(p))) /\ Costed(Stitch(p))' = Costed(Stitch(p))
        /\ \A r, p : FromPick(r, p)' <=> FromPick(r, p)
        /\ \A a, p : Under(a, p)' <=> Under(a, p)
        /\ \A a : ItemOK(a)' <=> ItemOK(a)
    BY <1>1, SamePicks
  <1>4. Emitted' = Emitted
    BY <1>1 DEF Emitted
  <1>5. HopInv'
    <2>1. HopInv
      BY DEF ViaInv
    <2>2. stage = "hop" => request' = HopRequest(hop)'
      <3>1. HopRequest(hop)' = HopRequest(hop)
        BY <1>1, <1>2 DEF HopRequest, HopFrom, HopTo
      <3> QED BY <2>1, <3>1 DEF HopInv
    <2> QED BY <2>1, <2>2, <1>1, <1>2, <1>3 DEF HopInv
  <1>6. RouteInv'
    BY <1>1, <1>2, <1>4 DEF ViaInv, RouteInv, RoutesAscend
  <1>7. TreeInv => TreeInv'
    BY <1>1, <1>3, <1>4 DEF TreeInv
  <1>8. OrderInv => OrderInv'
    BY <1>1, <1>4 DEF OrderInv, CanExplore
  <1>9. EndInv'
    BY <1>1, <1>2, <1>3, <1>4 DEF ViaInv, EndInv
  <1>10. GreedyInv'
    <2>1. PassesVias(path, hop - 1)' <=> PassesVias(path, hop - 1)
      BY <1>1 DEF PassesVias
    <2> QED BY <2>1, <1>1 DEF ViaInv, GreedyInv
  <1> QED BY <1>1, <1>5, <1>6, <1>7, <1>8, <1>9, <1>10 DEF ViaInv

\* Before the router is called, nothing it keeps depends on the graph or on the query.
LEMMA ViaIdle ==
  ASSUME segments' = <<>>, routes' = <<>>, path' = <<>>, frontier' = {}, ready' = {}, hop' = 1,
         hops' \in Nat, hops' >= 1, stage' \in {"idle", "ask", "return"},
         stage' = "ask" => query'.k > 0 /\ query'.forced # <<>>
  PROVE  ViaInv'
  <1>1. /\ Len(segments') = 0 /\ segments' \in Seq(Seq(FoundPath))
        /\ DOMAIN routes' = {} /\ routes' \in Seq(FoundPath)
    OBVIOUS
  <1>2. SegmentsOK'
    BY <1>1 DEF SegmentsOK
  <1>3. HopInv'
    BY <1>1, <1>2 DEF HopInv
  <1>4. RouteInv'
    BY <1>1 DEF RouteInv, RoutesAscend, Emitted
  <1>5. EndInv' /\ GreedyInv' /\ CallInv'
    BY <1>1 DEF EndInv, GreedyInv, CallInv
  <1> QED BY <1>3, <1>4, <1>5 DEF ViaInv

LEMMA ViaHops ==
  ASSUME SegmentsOK', Len(segments') = hop' - 1, stage' \in {"ask", "hop"},
         query'.k > 0, query'.forced # <<>>,
         stage' = "hop" => request' = HopRequest(hop)',
         frontier' = {}, ready' = {}, routes' = <<>>, path' = <<>>
  PROVE  ViaInv'
  <1>1. DOMAIN routes' = {} /\ routes' \in Seq(FoundPath)
    OBVIOUS
  <1>2. HopInv'
    BY DEF HopInv
  <1>3. RouteInv'
    BY <1>1 DEF RouteInv, RoutesAscend, Emitted
  <1>4. EndInv' /\ GreedyInv' /\ CallInv'
    BY DEF EndInv, GreedyInv, CallInv
  <1> QED BY <1>2, <1>3, <1>4 DEF ViaInv

(***************************************************************************)
(* The alternatives of each hop.                                           *)
(***************************************************************************)
LEMMA AskHopVia ==
  ASSUME ViaInv, AskHop
  PROVE  ViaInv'
  <1>1. /\ stage = "ask" /\ stage' = "hop"
        /\ query' = query /\ hop' = hop /\ segments' = segments /\ frontier' = frontier
        /\ ready' = ready /\ path' = path /\ routes' = routes
    BY DEF AskHop
  <1>2. /\ request' = [sources |-> HopSources(kNoBearing), goals |-> HopGoals,
                       k |-> query.k, turn |-> query.turn, bans |-> query.bans]
        /\ graph' = graph
    BY DEF AskHop, FindKShortestPathsMulti, FreshWorkspace
  <1>3. request' = HopRequest(hop)'
    <2>1. request' = HopRequest(hop)
      BY <1>2 DEF HopRequest, HopFrom, HopTo, HopSources, HopGoals
    <2>2. HopRequest(hop)' = HopRequest(hop)
      BY <1>1 DEF HopRequest, HopFrom, HopTo, hops
    <2> QED BY <2>1, <2>2
  <1>4. SegmentsOK'
    BY <1>1, <1>2, SamePicks DEF ViaInv, HopInv
  <1>5. HopInv
    BY DEF ViaInv
  <1> QED BY <1>1, <1>3, <1>4, <1>5, ViaHops DEF HopInv

LEMMA SearchHopVia ==
  ASSUME ViaInv, SearchHop
  PROVE  ViaInv'
  <1>1. stage = "hop" /\ YenStep /\ UNCHANGED forcedVars
    BY DEF SearchHop
  <1>2. graph' = graph /\ request' = request
    BY <1>1, SearchStepFrame
       DEF YenStep, FirstSearch, FirstDone, SourceSpur, NodeSpur, SpurDone, Accept, Search,
           Skip, Begin, astarVars, yenVars
  <1>3. CallInv'
    BY <1>1 DEF CallInv, forcedVars
  <1> QED BY <1>1, <1>2, <1>3, ViaFrame

\* What Yen found for a hop, sorted, are its alternatives.
LEMMA SortedAlternatives ==
  ASSUME YInv, QueryOK, IsGraph(graph), request = HopRequest(hop), results # <<>>,
         hop \in Nat \ {0}, hop <= hops
  PROVE  Alternatives(hop, ByCost(results)) /\ ByCost(results) \in Seq(FoundPath)
  <1>1. /\ results \in Seq(FoundPath) /\ (\A i \in DOMAIN results : TrueRoute(results[i]))
        /\ \A i, j \in DOMAIN results : results[i].vertices = results[j].vertices => i = j
    BY DEF YInv, AcceptedOK
  <1>2. PICK n \in Nat : n = Len(results) /\ DOMAIN results = 1..n /\ n # 0
    <2>1. Len(results) \in Nat /\ DOMAIN results = 1..Len(results)
      BY <1>1, LenProperties
    <2>2. Len(results) # 0
      BY <1>1, EmptySeq
    <2> QED BY <2>1, <2>2, Zenon
  <1>3. \A i \in 1..n : results[i] \in FoundPath
    BY <1>1, <1>2, ElementOfSeq
  <1>4. \A i \in 1..n : results[i].cost \in Nat
    BY <1>3 DEF FoundPath
  <1>5. PICK q \in [1..n -> 1..n] :
            /\ DOMAIN ByCost(results) = 1..n
            /\ \A i \in 1..n : ByCost(results)[i] = results[q[i]]
            /\ \A i, j \in 1..n : q[i] = q[j] => i = j
            /\ \A i, j \in 1..n : i <= j => results[q[i]].cost <= results[q[j]].cost
    <2>1. DOMAIN results = 1..n
      BY <1>2
    <2> QED BY <2>1, <1>4, ByCostSorts
  <1>6. PICK s : s = ByCost(results)
    OBVIOUS
  <1>7. s = [i \in 1..n |-> results[q[i]]]
    <2>1. s = [i \in 1..n |-> s[i]]
      BY <1>2, <1>6 DEF ByCost
    <2> QED BY <2>1, <1>5, <1>6
  <1>8. s \in Seq(FoundPath) /\ s # <<>>
    <2>1. s \in [1..n -> FoundPath]
      BY <1>3, <1>5, <1>7
    <2>2. s \in Seq(FoundPath)
      BY <2>1, SeqDef
    <2>3. DOMAIN s = 1..n /\ 1 \in 1..n
      BY <2>1, <1>2
    <2> QED BY <2>2, <2>3
  <1>9. Question = HopCall(hop)
    <2>1. /\ request.sources = HopFrom(hop) /\ request.goals = HopTo(hop)
          /\ request.turn = query.turn /\ request.bans = query.bans
      BY DEF HopRequest
    <2> QED BY <2>1 DEF Question, HopCall, PlainCall, goal_seed, source_bearing, goal_bearing
  <1>10. ASSUME NEW i \in 1..n
         PROVE  /\ s[i].vertices \in Routes(graph, HopCall(hop))
                /\ s[i].cost = RouteCost(graph, HopCall(hop), s[i].vertices)
    <2>1. q[i] \in 1..n /\ s[i] = results[q[i]]
      BY <1>5, <1>6
    <2> QED BY <2>1, <1>1, <1>2, <1>9 DEF TrueRoute
  <1>11. ASSUME NEW i \in 1..n, NEW j \in 1..n, s[i].vertices = s[j].vertices PROVE i = j
    <2>1. q[i] \in 1..n /\ q[j] \in 1..n /\ results[q[i]].vertices = results[q[j]].vertices
      BY <1>5, <1>6, <1>11
    <2>2. q[i] = q[j]
      BY <2>1, <1>1, <1>2
    <2> QED BY <2>2, <1>5
  <1>12. ASSUME NEW i \in 1..n, NEW j \in 1..n, i <= j PROVE s[i].cost <= s[j].cost
    <2>1. s[i] = results[q[i]] /\ s[j] = results[q[j]]
      BY <1>5, <1>6, Zenon
    <2>2. results[q[i]].cost <= results[q[j]].cost
      BY <1>12, <1>5, Zenon
    <2> QED BY <2>1, <2>2, Zenon
  <1>13. DOMAIN s = 1..n
    BY <1>5, <1>6
  <1> QED BY <1>6, <1>8, <1>10, <1>11, <1>12, <1>13 DEF Alternatives

\* One more hop has its alternatives.
LEMMA SegmentsGrow ==
  ASSUME SegmentsOK, UNCHANGED <<graph, query>>, QueryOK, hop \in Nat \ {0}, hop <= hops,
         Len(segments) = hop - 1, NEW s \in Seq(FoundPath), Alternatives(hop, s),
         segments' = Append(segments, s)
  PROVE  SegmentsOK' /\ Len(segments') = hop
  <1>1. hops \in Nat /\ hops' = hops /\ \A h, t : Alternatives(h, t)' <=> Alternatives(h, t)
    BY SameQuery, HopsNat
  <1>2. segments \in Seq(Seq(FoundPath)) /\ \A h \in 1..Len(segments) : Alternatives(h, segments[h])
    BY DEF SegmentsOK
  <1>3. PICK z : z = segments'
    OBVIOUS
  <1>4. /\ z \in Seq(Seq(FoundPath)) /\ Len(z) = Len(segments) + 1 /\ z[Len(segments) + 1] = s
        /\ \A h \in 1..Len(segments) : z[h] = segments[h]
    BY <1>2, <1>3, AppendProperties
  <1>5. Len(z) = hop /\ z[hop] = s
    <2>1. Len(segments) + 1 = hop
      OBVIOUS
    <2> QED BY <2>1, <1>4
  <1>6. ASSUME NEW h \in 1..hop PROVE Alternatives(h, z[h])
    <2>1. CASE h = hop
      BY <2>1, <1>5
    <2>2. CASE h # hop
      <3>1. h \in 1..Len(segments)
        BY <2>2
      <3> QED BY <3>1, <1>2, <1>4
    <2> QED BY <2>1, <2>2
  <1> QED BY <1>1, <1>3, <1>4, <1>5, <1>6 DEF SegmentsOK

\* The merge starts from the pick of the cheapest alternatives; every pick is below it.
LEMMA FirstPick ==
  ASSUME SegmentsOK', hops' \in Nat, hops' >= 1, Len(segments') = hops', routes' = <<>>, ready' = {},
         frontier' = {PickItem(segments', [h \in 1..hops' |-> 1], 1)}
  PROVE  TreeInv' /\ OrderInv'
  <1>1. PICK n \in Nat : n = hops' /\ n >= 1 /\ Len(segments') = n
    OBVIOUS
  <1>2. PICK p : p = [h \in 1..n |-> 1]
    OBVIOUS
  <1>3. p \in [1..n -> Nat] /\ \A h \in 1..n : p[h] = 1
    BY <1>2
  <1>4. PICK a : a = PickItem(segments', p, 1)
    OBVIOUS
  <1>5. frontier' = {a} /\ a.pick = p /\ a.last = 1 /\ a.lower = LowerOf(segments', p)
    BY <1>1, <1>2, <1>4 DEF PickItem
  <1>6. ASSUME NEW h \in 1..n PROVE 1 \in 1..Len(segments'[h])
    <2>1. Alternatives(h, segments[h])'
      BY <1>1 DEF SegmentsOK
    <2>2. PICK s \in Seq(FoundPath) : s = segments'[h] /\ s # <<>>
      BY <2>1 DEF Alternatives
    <2>3. Len(s) \in Nat /\ Len(s) # 0
      BY <2>2, LenProperties, EmptySeq
    <2>4. 1 \in 1..Len(s)
      BY <2>3
    <2> QED BY <2>2, <2>4
  <1>7. IsPick(p)'
    BY <1>1, <1>3, <1>6 DEF IsPick
  <1>8. ItemOK(a)'
    BY <1>1, <1>5, <1>7 DEF ItemOK
  <1>9. ASSUME NEW q, IsPick(q)' PROVE Under(a, q)'
    <2>1. ASSUME NEW h \in 1..n PROVE IF h < 1 THEN q[h] = p[h] ELSE p[h] <= q[h]
      <3>1. q[h] \in 1..Len(segments'[h])
        BY <1>1, <1>9 DEF IsPick
      <3>2. ~(h < 1) /\ p[h] = 1
        BY <1>3
      <3> QED BY <3>1, <3>2
    <2> QED BY <2>1, <1>1, <1>5 DEF Under
  <1>10. Emitted' = {}
    <2>1. DOMAIN routes' = {}
      OBVIOUS
    <2> QED BY <2>1 DEF Emitted
  <1>11. TreeInv'
    BY <1>5, <1>8, <1>9, <1>10 DEF TreeInv
  <1>12. OrderInv'
    BY <1>10, FS_EmptySet DEF OrderInv
  <1> QED BY <1>11, <1>12

\* A query with via points has at least two hops.
LEMMA TwoHops ==
  ASSUME QueryOK, query.forced # <<>>
  PROVE  hops \in Nat /\ hops >= 2
  <1>1. query.forced \in Seq(Vertex \cup {kNoVertex})
    BY DEF QueryOK
  <1>2. Len(query.forced) \in Nat /\ Len(query.forced) # 0
    BY <1>1, LenProperties, EmptySeq
  <1> QED BY <1>2 DEF hops

LEMMA GraphIsGraph ==
  ASSUME Inv
  PROVE  IsGraph(graph) /\ QueryOK /\ hop \in Nat \ {0} /\ hops \in Nat /\ hops >= 1 /\ path \in Seq(Vertex)
  BY HopsNat DEF Inv, AInv, Types, FInv

LEMMA HopDoneVia ==
  ASSUME Inv, ViaInv, HopDone
  PROVE  ViaInv'
  <1>1. /\ stage = "hop" /\ query' = query /\ ready' = ready /\ path' = path /\ routes' = routes
        /\ graph' = graph
    BY DEF HopDone, searchVars, astarVars
  <1>2. HopInv
    BY DEF ViaInv
  <1>3. /\ SegmentsOK /\ Len(segments) = hop - 1 /\ query.k > 0 /\ query.forced # <<>>
        /\ request = HopRequest(hop) /\ frontier = {} /\ ready = {} /\ routes = <<>> /\ path = <<>>
    BY <1>1, <1>2 DEF HopInv
  <1>4. IsGraph(graph) /\ QueryOK /\ hop \in Nat \ {0} /\ hops \in Nat /\ hops >= 1
    BY GraphIsGraph
  <1>5. hop <= hops /\ YInv
    BY <1>1 DEF Inv, FInv
  <1>6. hops' = hops
    BY <1>1 DEF hops
  <1>7. CASE results = <<>>
    <2>1. stage' = "return" /\ UNCHANGED <<segments, hop, frontier>>
      BY <1>7 DEF HopDone
    <2>2. SegmentsOK'
      BY <2>1, <1>1, <1>3, SamePicks
    <2>3. Len(segments') # hops'
      BY <2>1, <1>3, <1>4, <1>5, <1>6
    <2>4. HopInv'
      BY <2>1, <2>2 DEF HopInv
    <2>5. RouteInv'
      <3>1. DOMAIN routes' = {} /\ routes' \in Seq(FoundPath)
        BY <1>1, <1>3
      <3> QED BY <3>1 DEF RouteInv, RoutesAscend, Emitted
    <2>6. EndInv' /\ GreedyInv' /\ CallInv'
      BY <2>1, <2>3 DEF EndInv, GreedyInv, CallInv
    <2> QED BY <2>1, <2>4, <2>5, <2>6 DEF ViaInv
  <1>8. CASE results # <<>>
    <2>1. Alternatives(hop, ByCost(results)) /\ ByCost(results) \in Seq(FoundPath)
      BY <1>3, <1>4, <1>5, <1>8, SortedAlternatives
    <2>2. /\ segments' = Append(segments, ByCost(results)) /\ hop' = hop + 1
          /\ stage' = IF hop = hops THEN "merge" ELSE "ask"
          /\ frontier' = IF hop = hops
                           THEN {PickItem(Append(segments, ByCost(results)), [h \in 1..hops |-> 1], 1)}
                           ELSE {}
      BY <1>8 DEF HopDone
    <2>3. SegmentsOK' /\ Len(segments') = hop
      BY <2>1, <2>2, <1>1, <1>3, <1>4, <1>5, SegmentsGrow
    <2>4. CASE hop # hops
      <3>1. Len(segments') = hop' - 1
        BY <2>2, <2>3, <1>4
      <3> QED BY <3>1, <2>2, <2>3, <2>4, <1>1, <1>3, ViaHops
    <2>5. CASE hop = hops
      <3>1. /\ stage' = "merge" /\ frontier' = {PickItem(segments', [h \in 1..hops' |-> 1], 1)}
        BY <2>2, <2>5, <1>6
      <3>2. TreeInv' /\ OrderInv'
        BY <3>1, <2>3, <2>5, <1>1, <1>3, <1>4, <1>6, FirstPick
      <3>3. HopInv'
        BY <3>1, <2>3, <2>5, <1>1, <1>3, <1>6 DEF HopInv
      <3>4. RouteInv'
        <4>1. DOMAIN routes' = {} /\ routes' \in Seq(FoundPath)
          BY <1>1, <1>3
        <4> QED BY <4>1 DEF RouteInv, RoutesAscend, Emitted
      <3>5. EndInv' /\ GreedyInv' /\ CallInv'
        BY <3>1 DEF EndInv, GreedyInv, CallInv
      <3> QED BY <3>2, <3>3, <3>4, <3>5 DEF ViaInv
    <2> QED BY <2>4, <2>5
  <1> QED BY <1>7, <1>8

(***************************************************************************)
(* The merge.                                                              *)
(***************************************************************************)
LEMMA OneMore ==
  ASSUME NEW S, NEW s \in Seq(S), NEW x \in S, NEW z, z = Append(s, x)
  PROVE  \E n \in Nat : /\ n = Len(s) + 1 /\ z \in Seq(S) /\ Len(z) = n
                        /\ DOMAIN z = DOMAIN s \cup {n} /\ n \notin DOMAIN s
                        /\ z[n] = x /\ \A i \in DOMAIN s : z[i] = s[i] /\ i < n
  <1>1. PICK m \in Nat : m = Len(s) /\ DOMAIN s = 1..m
    BY LenProperties
  <1>2. z \in Seq(S) /\ Len(z) = m + 1 /\ z[m + 1] = x /\ \A i \in 1..m : z[i] = s[i]
    BY <1>1, AppendProperties
  <1>3. DOMAIN z = 1..(m + 1)
    BY <1>2, LenProperties
  <1>4. m + 1 \in Nat /\ 1..(m + 1) = (1..m) \cup {m + 1} /\ m + 1 \notin 1..m /\ \A i \in 1..m : i < m + 1
    OBVIOUS
  <1> QED BY <1>1, <1>2, <1>3, <1>4

LEMMA MergeFacts ==
  ASSUME Inv, ViaInv, stage = "merge"
  PROVE  Merging /\ TreeInv /\ OrderInv /\ RouteInv /\ query.k \in Nat /\ query.k > 0
  <1>1. HopInv /\ RouteInv /\ TreeInv /\ OrderInv
    BY DEF ViaInv
  <1>2. SegmentsOK /\ Len(segments) = hops /\ query.k > 0 /\ query.forced # <<>>
    BY <1>1 DEF HopInv
  <1>3. IsGraph(graph) /\ QueryOK
    BY GraphIsGraph
  <1>4. hops >= 2
    BY <1>2, <1>3, TwoHops
  <1>5. query.k \in Int
    BY <1>3 DEF QueryOK, RequestOK
  <1>6. query.k \in Nat
    BY <1>2, <1>5
  <1> QED BY <1>1, <1>2, <1>3, <1>4, <1>6 DEF Merging

LEMMA ItemLower ==
  ASSUME Merging, NEW a, ItemOK(a)
  PROVE  a.lower \in Nat
  <1>1. PICK p : p = a.pick /\ IsPick(p) /\ p \in [1..hops -> Nat]
    BY DEF ItemOK, IsPick
  <1>2. \A h \in 1..hops : p[h] <= p[h]
    <2> SUFFICES ASSUME NEW h \in 1..hops PROVE p[h] <= p[h]
      OBVIOUS
    <2>1. p[h] \in Nat
      BY <1>1
    <2> QED BY <2>1
  <1>3. LowerOf(segments, p) \in Nat
    BY <1>1, <1>2, LowerGrows
  <1> QED BY <1>1, <1>3 DEF ItemOK

\* What a pick stitches to, if it is a route, is a good one.
LEMMA FromPickIs ==
  ASSUME Merging, NEW r, NEW p, FromPick(r, p)
  PROVE  /\ r \in FoundPath /\ r.cost \in Nat /\ r.vertices = Stitch(p) /\ r.vertices \in Seq(Vertex)
         /\ GoodRoute(r)
  <1>1. PICK w \in Seq(Vertex) : w = Stitch(p)
    BY StitchIsPath DEF FromPick
  <1>2. IsRoute(w) /\ r = Costed(w) /\ IsPick(p)
    BY <1>1 DEF FromPick
  <1>3. r \in FoundPath /\ r.vertices = w /\ r.cost \in Nat
    BY <1>2, CostedIs DEF Merging
  <1>4. PassesVias(w, hops - 1)
    BY <1>1, <1>2, StitchPasses
  <1> QED BY <1>1, <1>2, <1>3, <1>4 DEF GoodRoute

LEMMA FoundIs ==
  ASSUME Merging, TreeInv
  PROVE  /\ \A r \in ready \cup Emitted : /\ r \in FoundPath /\ r.cost \in Nat
                                          /\ r.vertices \in Seq(Vertex) /\ GoodRoute(r)
         /\ \A r, q \in ready \cup Emitted : r.vertices = q.vertices => r = q
  <1>1. ASSUME NEW r \in ready \cup Emitted
        PROVE  r \in FoundPath /\ r.cost \in Nat /\ r.vertices \in Seq(Vertex) /\ GoodRoute(r)
    <2>1. PICK p : FromPick(r, p)
      BY DEF TreeInv
    <2> QED BY <2>1, FromPickIs
  <1>2. \A r \in ready \cup Emitted : r = Costed(r.vertices)
    BY <1>1 DEF GoodRoute
  <1> QED BY <1>1, <1>2

LEMMA FirstReadyIs ==
  ASSUME Merging, TreeInv, OrderInv, ready # {}
  PROVE  FirstReady \in ready /\ \A q \in ready : FirstReady.cost <= q.cost
  <1>1. /\ IsFiniteSet(ready) /\ (\A c \in ready : c.cost \in Nat /\ c.vertices \in Seq(Vertex))
        /\ \A c, d \in ready : c.vertices = d.vertices => c = d
    BY FoundIs DEF OrderInv
  <1>2. \E c \in ready : \A d \in ready \ {c} : Before(c, d)
    BY <1>1, FirstBefore
  <1>3. FirstReady \in ready /\ \A d \in ready \ {FirstReady} : Before(FirstReady, d)
    BY <1>2 DEF FirstReady
  <1>4. ASSUME NEW d \in ready PROVE FirstReady.cost <= d.cost
    <2>1. PICK c \in ready : c = FirstReady
      BY <1>3
    <2>2. c.cost \in Nat /\ d.cost \in Nat
      BY <1>1
    <2>3. CASE d = c
      BY <2>1, <2>2, <2>3
    <2>4. CASE d # c
      BY <2>1, <2>2, <2>4, <1>3 DEF Before
    <2> QED BY <2>3, <2>4
  <1> QED BY <1>3, <1>4

LEMMA EmitVia ==
  ASSUME Inv, ViaInv, Emit
  PROVE  ViaInv'
  <1>1. /\ stage = "merge" /\ stage' = "merge" /\ query' = query /\ hop' = hop /\ segments' = segments
        /\ frontier' = frontier /\ explored' = explored /\ path' = path /\ graph' = graph
        /\ MayEmit
    BY DEF Emit, searchVars, astarVars
  <1>2. Merging /\ TreeInv /\ OrderInv /\ RouteInv
    BY <1>1, MergeFacts
  <1>3. PICK f : f = FirstReady
    OBVIOUS
  <1>4. f \in ready /\ \A q \in ready : f.cost <= q.cost
    BY <1>1, <1>2, <1>3, FirstReadyIs DEF MayEmit
  <1>5. routes' = Append(routes, f) /\ ready' = ready \ {f}
    BY <1>3 DEF Emit
  <1>6. f \in FoundPath /\ f.cost \in Nat /\ GoodRoute(f)
    BY <1>2, <1>4, FoundIs
  <1>7. PICK z : z = routes'
    OBVIOUS
  <1>8. PICK n \in Nat : /\ z \in Seq(FoundPath) /\ DOMAIN z = DOMAIN routes \cup {n} /\ n \notin DOMAIN routes
                         /\ z[n] = f /\ \A i \in DOMAIN routes : z[i] = routes[i] /\ i < n
    BY <1>2, <1>5, <1>6, <1>7, OneMore DEF RouteInv
  <1>9. Emitted' = Emitted \cup {f}
    BY <1>7, <1>8 DEF Emitted
  <1>10. f \notin Emitted /\ \A i \in DOMAIN routes : routes[i] \in Emitted
    BY <1>2, <1>4 DEF OrderInv, Emitted
  <1>11. /\ hops' = hops /\ (\A r : GoodRoute(r)' <=> GoodRoute(r)) /\ (SegmentsOK' <=> SegmentsOK)
         /\ \A p : (IsPick(p)' <=> IsPick(p)) /\ Stitch(p)' = Stitch(p)
         /\ \A p : (IsRoute(Stitch(p))' <=> IsRoute(Stitch(p))) /\ Costed(Stitch(p))' = Costed(Stitch(p))
         /\ \A r, p : FromPick(r, p)' <=> FromPick(r, p)
         /\ \A a, p : Under(a, p)' <=> Under(a, p)
         /\ \A a : ItemOK(a)' <=> ItemOK(a)
    BY <1>1, SamePicks, SameQuery
  <1>12. HopInv'
    BY <1>1, <1>11 DEF ViaInv, HopInv
  <1>13. RouteInv'
    <2>1. \A r \in Emitted' : GoodRoute(r)'
      BY <1>2, <1>6, <1>9, <1>11 DEF RouteInv
    <2>2. ASSUME NEW i \in DOMAIN z, NEW j \in DOMAIN z, z[i] = z[j] PROVE i = j
      <3>1. CASE i = n /\ j = n
        BY <3>1
      <3>2. CASE i = n /\ j \in DOMAIN routes
        BY <3>2, <2>2, <1>8, <1>10
      <3>3. CASE i \in DOMAIN routes /\ j = n
        BY <3>3, <2>2, <1>8, <1>10
      <3>4. CASE i \in DOMAIN routes /\ j \in DOMAIN routes
        BY <3>4, <2>2, <1>2, <1>8 DEF RouteInv
      <3> QED BY <3>1, <3>2, <3>3, <3>4, <1>8
    <2>3. ASSUME NEW i \in DOMAIN z, NEW j \in DOMAIN z, i < j PROVE z[i].cost <= z[j].cost
      <3>0. DOMAIN routes \in SUBSET Nat
        BY <1>2, LenProperties DEF RouteInv
      <3>1. CASE i = n
        <4>1. j \in DOMAIN routes \/ j = n
          BY <1>8
        <4>2. ~(n < n) /\ (j \in DOMAIN routes => j < n /\ j \in Nat)
          BY <3>0, <1>8
        <4> QED BY <4>1, <4>2, <3>1, <2>3
      <3>2. CASE i \in DOMAIN routes /\ j = n
        <4>1. routes[i].cost <= f.cost
          BY <3>2, <1>2, <1>4, <1>10 DEF OrderInv
        <4> QED BY <4>1, <3>2, <1>8
      <3>3. CASE i \in DOMAIN routes /\ j \in DOMAIN routes
        BY <3>3, <2>3, <1>2, <1>8 DEF RouteInv, RoutesAscend
      <3> QED BY <3>1, <3>2, <3>3, <1>8
    <2> QED BY <2>1, <2>2, <2>3, <1>7, <1>8 DEF RouteInv, RoutesAscend
  <1>14. TreeInv'
    <2>1. ready' \cup Emitted' = ready \cup Emitted
      BY <1>4, <1>5, <1>9
    <2> QED BY <2>1, <1>1, <1>2, <1>11 DEF TreeInv
  <1>15. OrderInv'
    <2>1. IsFiniteSet(ready') /\ ready' \cap Emitted' = {}
      BY <1>2, <1>5, <1>9, FS_Subset DEF OrderInv
    <2>2. \A r \in Emitted' : \A x \in ready' : r.cost <= x.cost
      BY <1>2, <1>4, <1>5, <1>9 DEF OrderInv
    <2>3. CanExplore' <=> CanExplore
      BY <1>1 DEF CanExplore
    <2>4. ASSUME CanExplore, NEW a \in frontier PROVE f.cost <= a.lower
      <3>1. PICK b \in frontier : f.cost <= b.lower /\ b.lower <= a.lower
        BY <2>4, <1>1, <1>3 DEF MayEmit, LeastItems
      <3>2. a.lower \in Nat /\ b.lower \in Nat
        BY <1>2, <3>1, ItemLower DEF TreeInv
      <3> QED BY <3>1, <3>2, <1>6
    <2>5. CanExplore' => \A r \in Emitted' : \A a \in frontier' : r.cost <= a.lower
      BY <2>3, <2>4, <1>1, <1>2, <1>9 DEF OrderInv
    <2> QED BY <2>1, <2>2, <2>5 DEF OrderInv
  <1>16. EndInv' /\ GreedyInv' /\ CallInv'
    BY <1>1 DEF EndInv, GreedyInv, CallInv
  <1> QED BY <1>12, <1>13, <1>14, <1>15, <1>16 DEF ViaInv

\* Exploring an item splits its subtree into its own pick and its successors' subtrees.
LEMMA ExploreTree ==
  ASSUME Merging, TreeInv, UNCHANGED <<graph, query, segments, routes>>, NEW a \in frontier,
         frontier' = (frontier \ {a}) \cup Successors(a),
         ready' = IF IsRoute(Stitch(a.pick)) THEN ready \cup {Costed(Stitch(a.pick))} ELSE ready
  PROVE  TreeInv'
  <1>1. /\ \A p : (IsPick(p)' <=> IsPick(p)) /\ Stitch(p)' = Stitch(p)
        /\ \A p : (IsRoute(Stitch(p))' <=> IsRoute(Stitch(p))) /\ Costed(Stitch(p))' = Costed(Stitch(p))
        /\ \A r, p : FromPick(r, p)' <=> FromPick(r, p)
        /\ \A b, p : Under(b, p)' <=> Under(b, p)
        /\ \A b : ItemOK(b)' <=> ItemOK(b)
    BY SamePicks
  <1>2. Emitted' = Emitted
    BY DEF Emitted
  <1>3. PICK S : S = Successors(a) /\ frontier' = (frontier \ {a}) \cup S
    OBVIOUS
  <1>4. ItemOK(a) /\ Under(a, a.pick) /\ IsPick(a.pick)
    BY UnderSelf DEF TreeInv, ItemOK
  <1>5. \A b \in S : \A q : IsPick(q) /\ Under(b, q) => Under(a, q) /\ q # a.pick
    BY <1>3, <1>4, UnderSuccessor
  <1>6. \A b, c \in S : \A q : IsPick(q) /\ Under(b, q) /\ Under(c, q) => b = c
    BY <1>3, <1>4, SuccessorsApart
  <1>7. \A q : IsPick(q) /\ Under(a, q) /\ q # a.pick => \E b \in S : Under(b, q)
    BY <1>3, <1>4, SuccessorsCover
  <1>8. \A b, c \in frontier : \A q : IsPick(q) /\ Under(b, q) /\ Under(c, q) => b = c
    BY DEF TreeInv
  <1>9. \A b \in S : ItemOK(b)
    BY <1>3, <1>4, SuccessorItem
  <1>10. \A b \in frontier' : ItemOK(b)'
    BY <1>1, <1>3, <1>9 DEF TreeInv
  <1>11. ASSUME NEW b \in frontier', NEW c \in frontier', NEW q, IsPick(q), Under(b, q), Under(c, q)
         PROVE  b = c
    <2>1. CASE b \in S /\ c \in S
      BY <2>1, <1>6, <1>11
    <2>2. CASE b \in S /\ c \in frontier \ {a}
      BY <2>2, <1>5, <1>8, <1>11
    <2>3. CASE b \in frontier \ {a} /\ c \in S
      BY <2>3, <1>5, <1>8, <1>11
    <2>4. CASE b \in frontier \ {a} /\ c \in frontier \ {a}
      BY <2>4, <1>8, <1>11
    <2> QED BY <2>1, <2>2, <2>3, <2>4, <1>3
  <1>12. ASSUME NEW r \in ready' \cup Emitted
         PROVE  \E p : FromPick(r, p) /\ \A b \in frontier' : ~Under(b, p)
    <2>1. CASE r \in ready \cup Emitted
      <3>1. PICK p : FromPick(r, p) /\ \A b \in frontier : ~Under(b, p)
        BY <2>1 DEF TreeInv
      <3>2. IsPick(p)
        BY <3>1 DEF FromPick
      <3>3. ASSUME NEW b \in frontier' PROVE ~Under(b, p)
        BY <3>1, <3>2, <1>3, <1>5
      <3> QED BY <3>1, <3>3
    <2>2. CASE r \notin ready \cup Emitted
      <3>1. IsRoute(Stitch(a.pick)) /\ r = Costed(Stitch(a.pick))
        BY <2>2
      <3>2. FromPick(r, a.pick)
        BY <3>1, <1>4 DEF FromPick
      <3>3. ASSUME NEW b \in frontier' PROVE ~Under(b, a.pick)
        <4>1. CASE b \in S
          BY <4>1, <1>4, <1>5
        <4>2. CASE b \in frontier \ {a}
          BY <4>2, <1>4, <1>8
        <4> QED BY <4>1, <4>2, <1>3
      <3> QED BY <3>2, <3>3
    <2> QED BY <2>1, <2>2
  <1>13. ASSUME NEW p, IsPick(p), IsRoute(Stitch(p))
         PROVE  (\E b \in frontier' : Under(b, p)) \/ Costed(Stitch(p)) \in ready' \cup Emitted
    <2>1. CASE Costed(Stitch(p)) \in ready \cup Emitted
      BY <2>1
    <2>2. CASE \E b \in frontier : Under(b, p)
      <3>1. PICK b \in frontier : Under(b, p)
        BY <2>2
      <3>2. CASE b # a
        BY <3>1, <3>2, <1>3
      <3>3. CASE b = a /\ p = a.pick
        BY <3>3, <1>13
      <3>4. CASE b = a /\ p # a.pick
        BY <3>1, <3>4, <1>3, <1>7, <1>13
      <3> QED BY <3>2, <3>3, <3>4
    <2> QED BY <2>1, <2>2, <1>13 DEF TreeInv
  <1>14. \A r \in ready' \cup Emitted' : \E p : FromPick(r, p)' /\ \A b \in frontier' : ~Under(b, p)'
    BY <1>1, <1>2, <1>12
  <1>15. \A p : IsPick(p)' /\ IsRoute(Stitch(p))' =>
            (\E b \in frontier' : Under(b, p)') \/ Costed(Stitch(p))' \in ready' \cup Emitted'
    BY <1>1, <1>2, <1>13
  <1>16. \A b, c \in frontier' : \A q : IsPick(q)' /\ Under(b, q)' /\ Under(c, q)' => b = c
    BY <1>1, <1>11
  <1> QED BY <1>10, <1>14, <1>15, <1>16 DEF TreeInv

\* A route stitched now was not ready before, and undercuts nothing that was emitted.
LEMMA ExploreOrder ==
  ASSUME Merging, TreeInv, OrderInv, UNCHANGED <<graph, query, segments, routes>>, NEW a \in frontier,
         CanExplore, frontier' = (frontier \ {a}) \cup Successors(a),
         ready' = IF IsRoute(Stitch(a.pick)) THEN ready \cup {Costed(Stitch(a.pick))} ELSE ready
  PROVE  OrderInv'
  <1>1. Emitted' = Emitted
    BY DEF Emitted
  <1>2. PICK w : w = Stitch(a.pick)
    OBVIOUS
  <1>3. PICK r : r = Costed(w)
    OBVIOUS
  <1>4. ItemOK(a) /\ Under(a, a.pick) /\ IsPick(a.pick) /\ a.lower \in Nat
    BY UnderSelf, ItemLower DEF TreeInv, ItemOK
  <1>5. \A e \in Emitted : e.cost <= a.lower /\ e.cost \in Nat
    BY FoundIs DEF OrderInv
  <1>6. ready' = IF IsRoute(w) THEN ready \cup {r} ELSE ready
    BY <1>2, <1>3
  <1>7. ASSUME IsRoute(w) PROVE r \notin Emitted /\ \A e \in Emitted : e.cost <= r.cost
    <2>1. FromPick(r, a.pick)
      BY <1>2, <1>3, <1>4, <1>7 DEF FromPick
    <2>2. r.cost \in Nat /\ r.vertices = w
      BY <2>1, <1>2, FromPickIs
    <2>3. a.lower <= r.cost
      <3>1. LowerOf(segments, a.pick) <= Costed(w).cost
        BY <1>2, <1>4, <1>7, LowerBelow
      <3> QED BY <3>1, <1>3, <1>4 DEF ItemOK
    <2>4. \A e \in Emitted : e.cost <= r.cost
      <3> SUFFICES ASSUME NEW e \in Emitted PROVE e.cost <= r.cost
        OBVIOUS
      <3>1. e.cost \in Nat /\ e.cost <= a.lower
        BY <1>5
      <3> QED BY <3>1, <2>2, <2>3, <1>4
    <2>5. r \notin Emitted
      <3> SUFFICES ASSUME r \in Emitted PROVE FALSE
        OBVIOUS
      <3>1. PICK p : FromPick(r, p) /\ \A b \in frontier : ~Under(b, p)
        BY DEF TreeInv
      <3>2. IsPick(p) /\ Stitch(p) = w
        BY <3>1, <2>2, FromPickIs DEF FromPick
      <3>3. IsSimple(Stitch(a.pick))
        BY <1>2, <1>7 DEF IsRoute
      <3>4. a.pick = p
        BY <3>2, <3>3, <1>2, <1>4, StitchUnique
      <3> QED BY <3>1, <3>4, <1>4
    <2> QED BY <2>4, <2>5
  <1>8. IsFiniteSet(ready')
    <2>1. IsFiniteSet(ready) /\ IsFiniteSet(ready \cup {r})
      BY FS_AddElement DEF OrderInv
    <2> QED BY <2>1, <1>6
  <1>9. ready' \cap Emitted' = {} /\ \A e \in Emitted' : \A x \in ready' : e.cost <= x.cost
    BY <1>1, <1>6, <1>7 DEF OrderInv
  <1>10. ASSUME NEW e \in Emitted, NEW b \in frontier' PROVE e.cost <= b.lower
    <2>1. CASE b \in frontier
      BY <2>1 DEF OrderInv
    <2>2. CASE b \in Successors(a)
      <3>1. a.lower <= b.lower /\ b.lower \in Nat
        BY <2>2, <1>4, SuccessorItem
      <3>2. e.cost \in Nat /\ e.cost <= a.lower
        BY <1>5
      <3> QED BY <3>1, <3>2, <1>4
    <2> QED BY <2>1, <2>2
  <1> QED BY <1>1, <1>8, <1>9, <1>10 DEF OrderInv

LEMMA ExploreVia ==
  ASSUME Inv, ViaInv, Explore
  PROVE  ViaInv'
  <1>1. /\ stage = "merge" /\ stage' = "merge" /\ query' = query /\ hop' = hop /\ segments' = segments
        /\ routes' = routes /\ path' = path /\ graph' = graph /\ CanExplore
    BY DEF Explore, searchVars, astarVars
  <1>2. Merging /\ TreeInv /\ OrderInv /\ RouteInv
    BY <1>1, MergeFacts
  <1>3. PICK a \in frontier :
            /\ frontier' = (frontier \ {a}) \cup Successors(a)
            /\ ready' = IF IsRoute(Stitch(a.pick)) THEN ready \cup {Costed(Stitch(a.pick))} ELSE ready
    BY DEF Explore, LeastItems
  <1>4. TreeInv' /\ OrderInv'
    BY <1>1, <1>2, <1>3, ExploreTree, ExploreOrder
  <1>5. /\ hops' = hops /\ (\A r : GoodRoute(r)' <=> GoodRoute(r)) /\ (SegmentsOK' <=> SegmentsOK)
    BY <1>1, SamePicks, SameQuery
  <1>6. HopInv'
    BY <1>1, <1>5 DEF ViaInv, HopInv
  <1>7. Emitted' = Emitted
    BY <1>1 DEF Emitted
  <1>8. RouteInv'
    BY <1>1, <1>2, <1>5, <1>7 DEF RouteInv, RoutesAscend
  <1>9. EndInv' /\ GreedyInv' /\ CallInv'
    BY <1>1 DEF EndInv, GreedyInv, CallInv
  <1> QED BY <1>4, <1>6, <1>8, <1>9 DEF ViaInv

\* While the budget lasts, no route among the picks undercuts what was emitted.
LEMMA NothingUndercuts ==
  ASSUME Merging, TreeInv, OrderInv, explored < kMaxStitchedPicks,
         NEW p, IsPick(p), IsRoute(Stitch(p)), Costed(Stitch(p)) \notin Emitted, NEW e \in Emitted
  PROVE  e.cost <= Costed(Stitch(p)).cost
  <1>1. PICK r : r = Costed(Stitch(p))
    OBVIOUS
  <1>2. FromPick(r, p)
    BY <1>1 DEF FromPick
  <1>3. r.cost \in Nat
    BY <1>2, FromPickIs
  <1>4. e.cost \in Nat
    BY FoundIs
  <1>5. CASE r \in ready
    BY <1>1, <1>5 DEF OrderInv
  <1>6. CASE \E a \in frontier : Under(a, p)
    <2>1. PICK a \in frontier : Under(a, p)
      BY <1>6
    <2>2. ItemOK(a) /\ IsPick(a.pick) /\ a.lower = LowerOf(segments, a.pick)
      BY <2>1 DEF TreeInv, ItemOK
    <2>3. CanExplore
      BY <2>1 DEF CanExplore
    <2>4. e.cost <= a.lower
      BY <2>1, <2>3 DEF OrderInv
    <2>5. ASSUME NEW h \in 1..hops PROVE a.pick[h] <= p[h]
      <3>1. IF h < a.last THEN p[h] = a.pick[h] ELSE a.pick[h] <= p[h]
        BY <2>1 DEF Under
      <3>2. p[h] \in Nat /\ a.pick[h] \in Nat
        BY <2>2 DEF IsPick
      <3>3. ASSUME p[h] = a.pick[h] PROVE a.pick[h] <= p[h]
        BY <3>2, <3>3
      <3> QED BY <3>1, <3>3
    <2>6. LowerOf(segments, a.pick) <= LowerOf(segments, p)
      BY <2>2, <2>5, LowerGrows
    <2>7. LowerOf(segments, p) <= r.cost /\ LowerOf(segments, p) \in Nat
      BY <1>1, LowerBelow
    <2>8. a.lower \in Nat
      BY <2>2, ItemLower
    <2> QED BY <2>2, <2>4, <2>6, <2>7, <2>8, <1>1, <1>3, <1>4
  <1> QED BY <1>1, <1>5, <1>6 DEF TreeInv

LEMMA MergeDoneVia ==
  ASSUME Inv, ViaInv, MergeDone
  PROVE  ViaInv'
  <1>1. /\ stage = "merge" /\ stage' = (IF routes # <<>> THEN "return" ELSE "bar") /\ hop' = 1
        /\ query' = query /\ segments' = segments /\ frontier' = frontier /\ ready' = ready
        /\ explored' = explored /\ path' = path /\ routes' = routes /\ graph' = graph
        /\ Len(routes) = query.k \/ (~MayEmit /\ ~CanExplore)
    BY DEF MergeDone, searchVars, astarVars
  <1>2. Merging /\ TreeInv /\ OrderInv /\ RouteInv /\ query.k \in Nat /\ query.k > 0
    BY <1>1, MergeFacts
  <1>3. /\ hops' = hops /\ (\A r : GoodRoute(r)' <=> GoodRoute(r)) /\ (SegmentsOK' <=> SegmentsOK)
        /\ \A p : (IsPick(p)' <=> IsPick(p)) /\ Stitch(p)' = Stitch(p)
        /\ \A p : (IsRoute(Stitch(p))' <=> IsRoute(Stitch(p))) /\ Costed(Stitch(p))' = Costed(Stitch(p))
    BY <1>1, SamePicks, SameQuery
  <1>4. Emitted' = Emitted
    BY <1>1 DEF Emitted
  <1>5. HopInv'
    BY <1>1, <1>3 DEF ViaInv, HopInv
  <1>6. RouteInv'
    BY <1>1, <1>2, <1>3, <1>4 DEF RouteInv, RoutesAscend
  <1>7. ASSUME explored < kMaxStitchedPicks, NEW p, IsPick(p), IsRoute(Stitch(p)),
               Costed(Stitch(p)) \notin Emitted
        PROVE  /\ stage' = "return" /\ Len(routes) = query.k
               /\ \A r \in Emitted : r.cost <= Costed(Stitch(p)).cost
    <2>1. \A r \in Emitted : r.cost <= Costed(Stitch(p)).cost
      BY <1>2, <1>7, NothingUndercuts
    <2>2. Len(routes) = query.k
      <3> SUFFICES ASSUME ~MayEmit, ~CanExplore PROVE FALSE
        BY <1>1
      <3>1. frontier = {} /\ ready = {}
        BY <1>7 DEF MayEmit, CanExplore
      <3> QED BY <3>1, <1>2, <1>7 DEF TreeInv
    <2>3. routes # <<>>
      <3>1. Len(routes) # 0
        BY <2>2, <1>2
      <3> QED BY <3>1
    <2> QED BY <2>1, <2>2, <2>3, <1>1
  <1>8. EndInv'
    BY <1>1, <1>3, <1>4, <1>7 DEF EndInv
  <1>9. GreedyInv'
    <2>1. stage' = "bar" => routes' = <<>> /\ path' = <<>>
      BY <1>1 DEF ViaInv, HopInv
    <2> QED BY <2>1, <1>1 DEF GreedyInv
  <1>10. CallInv'
    BY <1>1 DEF CallInv
  <1> QED BY <1>1, <1>5, <1>6, <1>8, <1>9, <1>10 DEF ViaInv

(***************************************************************************)
(* The fallback.                                                           *)
(***************************************************************************)
LEMMA NewWorkspaceVia ==
  ASSUME ViaInv, NewWorkspace
  PROVE  ViaInv'
  <1>1. /\ stage = "bar" /\ stage' = "search" /\ query' = query /\ hop' = hop /\ segments' = segments
        /\ explored' = explored /\ path' = path /\ routes' = routes /\ graph' = graph /\ pc' = "idle"
    BY DEF NewWorkspace, FreshWorkspace
  <1>2. /\ hops' = hops /\ (\A r : GoodRoute(r)' <=> GoodRoute(r)) /\ (SegmentsOK' <=> SegmentsOK)
        /\ \A p : (IsPick(p)' <=> IsPick(p)) /\ Stitch(p)' = Stitch(p)
        /\ \A p : (IsRoute(Stitch(p))' <=> IsRoute(Stitch(p))) /\ Costed(Stitch(p))' = Costed(Stitch(p))
    BY <1>1, SamePicks, SameQuery
  <1>3. Emitted' = Emitted
    BY <1>1 DEF Emitted
  <1>4. HopInv'
    BY <1>1, <1>2 DEF ViaInv, HopInv
  <1>5. RouteInv'
    BY <1>1, <1>2, <1>3 DEF ViaInv, RouteInv, RoutesAscend
  <1>6. EndInv'
    BY <1>1, <1>2, <1>3 DEF ViaInv, EndInv
  <1>7. GreedyInv'
    <2>1. PassesVias(path, hop - 1)' <=> PassesVias(path, hop - 1)
      BY <1>1 DEF PassesVias
    <2> QED BY <2>1, <1>1 DEF ViaInv, GreedyInv
  <1>8. CallInv'
    BY <1>1 DEF CallInv
  <1> QED BY <1>1, <1>4, <1>5, <1>6, <1>7, <1>8 DEF ViaInv

LEMMA SameHop ==
  ASSUME UNCHANGED <<query, hop, path>>
  PROVE  HopSources(ArrivalBearing)' = HopSources(ArrivalBearing) /\ HopGoals' = HopGoals
  <1>1. ArrivalBearing' = ArrivalBearing /\ hops' = hops
    BY DEF ArrivalBearing, hops
  <1> QED BY <1>1 DEF HopSources, HopGoals

LEMMA BarredSearchVia ==
  ASSUME ViaInv, BarredSearch
  PROVE  ViaInv'
  <1>1. stage = "search" /\ UNCHANGED forcedVars
    BY DEF BarredSearch
  <1>2. graph' = graph /\ call' = PlainCall(HopSources(ArrivalBearing), HopGoals, query.turn, HopBans)
    BY DEF BarredSearch, Begin
  <1>3. call'.sources = HopSources(ArrivalBearing) /\ call'.goalSeed = BuildSeedTable(HopGoals)
    BY <1>2, PlainCallFields
  <1>4. HopSources(ArrivalBearing)' = HopSources(ArrivalBearing) /\ HopGoals' = HopGoals
    BY <1>1, SameHop DEF forcedVars
  <1>5. CallInv'
    BY <1>3, <1>4 DEF CallInv
  <1> QED BY <1>1, <1>2, <1>5, ViaFrame

LEMMA SearchBarredVia ==
  ASSUME ViaInv, SearchBarred
  PROVE  ViaInv'
  <1>1. stage = "search" /\ UNCHANGED forcedVars /\ SearchStep
    BY DEF SearchBarred
  <1>2. graph' = graph /\ call' = call /\ pc # "idle"
    BY <1>1, SearchStepFrame
  <1>3. HopSources(ArrivalBearing)' = HopSources(ArrivalBearing) /\ HopGoals' = HopGoals
    BY <1>1, SameHop DEF forcedVars
  <1>4. CallInv'
    BY <1>1, <1>2, <1>3 DEF ViaInv, CallInv
  <1> QED BY <1>1, <1>2, <1>4, ViaFrame

\* The route a barred search finds runs from this hop's via point to the next one's.
LEMMA BarredRoute ==
  ASSUME Inv, CallInv, stage = "search", pc = "done", result.found
  PROVE  /\ result.vertices \in Seq(Vertex) /\ result.vertices # <<>>
         /\ hop # 1 => result.vertices[1] = query.forced[hop - 1]
         /\ hop # hops => result.vertices[Len(result.vertices)] = query.forced[hop]
  <1>1. PICK r : r = result.vertices
    OBVIOUS
  <1>2. r \in Routes(graph, call)
    BY <1>1 DEF Inv, AInv, AnswerIsTrue
  <1>3. Flyable(graph, call, r) /\ call.goalSeed[r[Len(r)]] >= 0
    BY <1>2, RoutesAre
  <1>4. /\ r \in Seq(Vertex) /\ Len(r) \in Nat /\ Len(r) >= 1 /\ (\A i \in 1..Len(r) : r[i] \in Vertex)
        /\ BuildSeedTable(call.sources)[r[1]] >= 0
    BY <1>3, FlyableFacts
  <1>5. r # <<>> /\ r[1] \in Vertex /\ r[Len(r)] \in Vertex
    <2>1. 1 \in 1..Len(r) /\ Len(r) \in 1..Len(r)
      BY <1>4
    <2>2. r # <<>>
      BY <1>3 DEF Flyable
    <2> QED BY <2>1, <2>2, <1>4
  <1>6. call.sources = HopSources(ArrivalBearing) /\ call.goalSeed = BuildSeedTable(HopGoals)
    BY DEF CallInv
  <1>7. ArrivalBearing \in Heading
    BY ArrivalHeading DEF Inv
  <1>8. QueryOK /\ hop \in 1..hops
    BY GraphIsGraph DEF Inv, FInv
  <1>9. /\ hop # 1 => query.forced[hop - 1] \in Vertex \cup {kNoVertex}
        /\ hop # hops => query.forced[hop] \in Vertex \cup {kNoVertex}
    BY <1>8, HopEnds
  <1>10. ASSUME hop # 1 PROVE r[1] = query.forced[hop - 1]
    <2>1. PICK v \in Vertex \cup {kNoVertex} : v = query.forced[hop - 1]
      BY <1>9, <1>10
    <2>2. call.sources = <<[vertex |-> v, cost |-> 0, bearing |-> ArrivalBearing]>>
      BY <2>1, <1>6, <1>10 DEF HopSources, At
    <2>3. BuildSeedTable(call.sources)[r[1]] = IF r[1] = v THEN 0 ELSE -1
      BY <2>2, <1>5, <1>7, SingleSeed
    <2>4. ~(-1 >= 0)
      OBVIOUS
    <2> QED BY <2>1, <2>3, <2>4, <1>4
  <1>11. ASSUME hop # hops PROVE r[Len(r)] = query.forced[hop]
    <2>1. PICK v \in Vertex \cup {kNoVertex} : v = query.forced[hop]
      BY <1>9, <1>11
    <2>2. HopGoals = At(v, kNoBearing)
      BY <2>1, <1>11 DEF HopGoals
    <2>3. BuildSeedTable(HopGoals)[r[Len(r)]] = IF r[Len(r)] = v THEN 0 ELSE -1
      BY <2>2, <1>5, ViaTables
    <2>4. ~(-1 >= 0)
      OBVIOUS
    <2> QED BY <2>1, <2>3, <2>4, <1>3, <1>6
  <1> QED BY <1>1, <1>4, <1>5, <1>10, <1>11

\* A path that goes on passes the via points it has passed.
LEMMA ViasLonger ==
  ASSUME NEW w, NEW v, NEW n \in Nat, DOMAIN w \subseteq DOMAIN v, \A i \in DOMAIN w : v[i] = w[i],
         PassesVias(w, n)
  PROVE  PassesVias(v, n)
  BY DEF PassesVias

LEMMA ViasMore ==
  ASSUME NEW v \in Seq(Vertex), v # <<>>, NEW n \in Nat, PassesVias(v, n), v[Len(v)] = query.forced[n + 1]
  PROVE  PassesVias(v, n + 1)
  <1>1. PICK m \in Nat : m = Len(v) /\ DOMAIN v = 1..m /\ m >= 1
    BY PathLen
  <1>2. PICK at \in [1..n -> 1..m] : /\ \A h \in 1..n : v[at[h]] = query.forced[h]
                                     /\ \A h \in 1..(n - 1) : at[h] <= at[h + 1]
    BY <1>1 DEF PassesVias
  <1> DEFINE bt == [h \in 1..(n + 1) |-> IF h = n + 1 THEN m ELSE at[h]]
  <1>3. ASSUME NEW h \in 1..(n + 1) PROVE h = n + 1 \/ h \in 1..n
    OBVIOUS
  <1>4. ASSUME NEW h \in 1..(n + 1) PROVE bt[h] \in 1..m /\ v[bt[h]] = query.forced[h]
    <2>1. CASE h = n + 1
      <3>1. bt[h] = m /\ m \in 1..m
        BY <2>1, <1>1
      <3> QED BY <3>1, <2>1, <1>1
    <2>2. CASE h # n + 1
      <3>1. h \in 1..n /\ bt[h] = at[h]
        BY <2>2, <1>3
      <3> QED BY <3>1, <1>2
    <2> QED BY <2>1, <2>2
  <1>5. ASSUME NEW h \in 1..n PROVE bt[h] <= bt[h + 1]
    <2>1. h \in 1..(n + 1) /\ h + 1 \in 1..(n + 1) /\ h # n + 1
      OBVIOUS
    <2>2. bt[h] = at[h] /\ at[h] \in 1..m
      BY <2>1, <1>2
    <2>3. CASE h = n
      <3>1. bt[h + 1] = m
        BY <2>1, <2>3
      <3> QED BY <3>1, <2>2, <1>1
    <2>4. CASE h # n
      <3>1. h \in 1..(n - 1) /\ h + 1 # n + 1
        BY <2>4
      <3>2. bt[h + 1] = at[h + 1]
        BY <2>1, <3>1
      <3> QED BY <3>1, <3>2, <2>2, <1>2
    <2> QED BY <2>3, <2>4
  <1>6. bt \in [1..(n + 1) -> DOMAIN v] /\ (n + 1) - 1 = n
    BY <1>1, <1>4
  <1> HIDE DEF bt
  <1> QED BY <1>4, <1>5, <1>6 DEF PassesVias

LEMMA NoVias ==
  ASSUME NEW w
  PROVE  PassesVias(w, 0)
  <1>1. PICK f : f = [h \in 1..0 |-> 1]
    OBVIOUS
  <1>2. f \in [1..0 -> DOMAIN w]
    BY <1>1
  <1>3. (\A h \in 1..0 : w[f[h]] = query.forced[h]) /\ \A h \in 1..(0 - 1) : f[h] <= f[h + 1]
    OBVIOUS
  <1> QED BY <1>2, <1>3, Zenon DEF PassesVias

\* A path that goes on along r, from where it ends, ends where r ends.
LEMMA GoesOn ==
  ASSUME NEW y \in Seq(Vertex), y # <<>>, NEW r \in Seq(Vertex), r # <<>>, y[Len(y)] = r[1],
         NEW n \in Nat, PassesVias(y, n), NEW w, w = y \o Tail(r)
  PROVE  w \in Seq(Vertex) /\ w # <<>> /\ PassesVias(w, n) /\ w[Len(w)] = r[Len(r)]
  <1>1. /\ w \in Seq(Vertex) /\ (\A i \in 1..Len(y) : w[i] = y[i]) /\ Len(y) <= Len(w)
        /\ Lies(w, r, Len(y), Len(w)) /\ Len(w) \in Nat
    BY TailAfter
  <1>2. PICK k \in Nat : k = Len(y) /\ k >= 1 /\ DOMAIN y = 1..k
    BY PathLen
  <1>3. PICK l \in Nat : l = Len(w) /\ k <= l /\ DOMAIN w = 1..l
    BY <1>1, <1>2, LenProperties
  <1>4. w # <<>>
    <2>1. l # 0
      BY <1>2, <1>3
    <2> QED BY <2>1, <1>3
  <1>5. DOMAIN y \subseteq DOMAIN w
    BY <1>2, <1>3
  <1>6. \A i \in DOMAIN y : w[i] = y[i]
    BY <1>1, <1>2
  <1>7. PassesVias(w, n)
    BY <1>5, <1>6, ViasLonger
  <1>8. PICK m \in Nat : m = Len(r) /\ m >= 1
    BY PathLen
  <1>9. l + 1 = k + m /\ \A i \in 1..m : w[(k - 1) + i] = r[i]
    BY <1>1, <1>2, <1>3, <1>8 DEF Lies
  <1>10. m \in 1..m /\ (k - 1) + m = l
    BY <1>8, <1>9, <1>2, <1>3
  <1>11. w[(k - 1) + m] = r[m]
    BY <1>9, <1>10
  <1> QED BY <1>1, <1>3, <1>4, <1>7, <1>8, <1>10, <1>11

\* The fallback's path after one more hop.
LEMMA BarredWhole ==
  ASSUME Inv, GreedyInv, CallInv, stage = "search", pc = "done", result.found,
         NEW w, w = path \o (IF path = <<>> THEN result.vertices ELSE Tail(result.vertices))
  PROVE  /\ w \in Seq(Vertex) /\ w # <<>>
         /\ hop # 1 => PassesVias(w, hop - 1)
         /\ hop # hops => w[Len(w)] = query.forced[hop] /\ PassesVias(w, hop)
  <1>1. PICK r : r = result.vertices
    OBVIOUS
  <1>2. /\ r \in Seq(Vertex) /\ r # <<>>
        /\ hop # 1 => r[1] = query.forced[hop - 1]
        /\ hop # hops => r[Len(r)] = query.forced[hop]
    BY <1>1, BarredRoute
  <1>3. hop \in Nat \ {0} /\ path \in Seq(Vertex)
    BY GraphIsGraph
  <1>4. CASE hop = 1
    <2>1. path = <<>>
      BY <1>4 DEF GreedyInv
    <2>2. w = r
      <3>1. w = <<>> \o r
        BY <2>1, <1>1
      <3> QED BY <3>1, <1>2, ConcatEmptySeq
    <2>3. ASSUME hop # hops PROVE PassesVias(w, hop)
      <3>1. PassesVias(w, 0)
        BY NoVias
      <3>2. w[Len(w)] = query.forced[0 + 1]
        BY <2>2, <2>3, <1>2, <1>4
      <3>3. PassesVias(w, 0 + 1)
        BY <3>1, <3>2, <2>2, <1>2, ViasMore
      <3> QED BY <3>3, <1>4
    <2> QED BY <2>2, <2>3, <1>2, <1>4
  <1>5. CASE hop # 1
    <2>1. path # <<>> /\ path[Len(path)] = query.forced[hop - 1] /\ PassesVias(path, hop - 1)
      <3>1. hop > 1
        BY <1>3, <1>5
      <3> QED BY <3>1 DEF GreedyInv
    <2>2. w = path \o Tail(r)
      BY <2>1, <1>1
    <2>3. PICK n \in Nat : n = hop - 1 /\ n + 1 = hop
      BY <1>3, <1>5
    <2>4. w \in Seq(Vertex) /\ w # <<>> /\ PassesVias(w, n) /\ w[Len(w)] = r[Len(r)]
      <3>1. PassesVias(path, n) /\ path[Len(path)] = r[1]
        BY <2>1, <2>3, <1>2, <1>5
      <3> QED BY <3>1, <2>1, <2>2, <1>2, <1>3, GoesOn
    <2>5. ASSUME hop # hops PROVE w[Len(w)] = query.forced[hop] /\ PassesVias(w, hop)
      <3>1. w[Len(w)] = query.forced[hop]
        BY <2>4, <2>5, <1>2
      <3>2. PassesVias(w, n + 1)
        BY <3>1, <2>3, <2>4, ViasMore
      <3> QED BY <3>1, <3>2, <2>3
    <2> QED BY <2>3, <2>4, <2>5, <1>5
  <1> QED BY <1>4, <1>5

LEMMA BarredDoneVia ==
  ASSUME Inv, ViaInv, BarredDone
  PROVE  ViaInv'
  <1>1. /\ stage = "search" /\ pc = "done" /\ query' = query /\ segments' = segments
        /\ explored' = explored /\ graph' = graph
    BY DEF BarredDone, searchVars, astarVars
  <1>2. /\ hops' = hops /\ (\A r : GoodRoute(r)' <=> GoodRoute(r)) /\ (SegmentsOK' <=> SegmentsOK)
        /\ \A p : (IsPick(p)' <=> IsPick(p)) /\ Stitch(p)' = Stitch(p)
        /\ \A p : (IsRoute(Stitch(p))' <=> IsRoute(Stitch(p))) /\ Costed(Stitch(p))' = Costed(Stitch(p))
        /\ \A p, n : PassesVias(p, n)' <=> PassesVias(p, n)
    BY <1>1, SamePicks, SameQuery
  <1>3. HopInv /\ RouteInv /\ EndInv /\ GreedyInv /\ CallInv
    BY DEF ViaInv
  <1>4. routes = <<>> /\ SegmentsOK /\ Len(segments) = hops /\ query.k > 0 /\ query.forced # <<>>
    BY <1>1, <1>3 DEF HopInv, GreedyInv
  <1>5. IsGraph(graph) /\ QueryOK /\ hop \in Nat \ {0} /\ hops \in Nat /\ hops >= 2 /\ hop <= hops
    BY <1>1, <1>4, GraphIsGraph, TwoHops DEF Inv, FInv
  <1>6. Emitted = {} /\ DOMAIN routes = {}
    BY <1>4 DEF Emitted
  <1>7. stage' \in {"return", "bar"}
    BY DEF BarredDone
  <1>8. HopInv'
    BY <1>1, <1>2, <1>4, <1>7 DEF HopInv
  <1>9. EndInv'
    <2>1. ASSUME explored < kMaxStitchedPicks, NEW p, IsPick(p), IsRoute(Stitch(p)) PROVE FALSE
      BY <2>1, <1>1, <1>3, <1>4, <1>6 DEF EndInv
    <2> QED BY <2>1, <1>1, <1>2 DEF EndInv
  <1>10. CallInv'
    BY <1>7 DEF CallInv
  <1>11. CASE ~result.found
    <2>1. stage' = "return" /\ UNCHANGED <<path, hop, routes>>
      BY <1>11 DEF BarredDone
    <2>2. RouteInv'
      <3>1. DOMAIN routes' = {} /\ routes' \in Seq(FoundPath)
        BY <2>1, <1>4
      <3> QED BY <3>1 DEF RouteInv, RoutesAscend, Emitted
    <2>3. GreedyInv'
      BY <2>1 DEF GreedyInv
    <2> QED BY <2>1, <2>2, <2>3, <1>8, <1>9, <1>10 DEF ViaInv
  <1>12. CASE result.found
    <2>1. PICK w : w = path \o (IF path = <<>> THEN result.vertices ELSE Tail(result.vertices))
      OBVIOUS
    <2>2. /\ w \in Seq(Vertex) /\ w # <<>>
          /\ hop # 1 => PassesVias(w, hop - 1)
          /\ hop # hops => w[Len(w)] = query.forced[hop] /\ PassesVias(w, hop)
      BY <2>1, <1>1, <1>3, <1>12, BarredWhole
    <2>3. /\ path' = w /\ hop' = hop + 1 /\ stage' = IF hop = hops THEN "return" ELSE "bar"
          /\ routes' = IF hop = hops /\ IsRoute(w) THEN <<Costed(w)>> ELSE routes
      BY <2>1, <1>12 DEF BarredDone
    <2>4. RouteInv'
      <3>1. CASE hop = hops /\ IsRoute(w)
        <4>1. PICK r : r = Costed(w)
          OBVIOUS
        <4>2. r \in FoundPath /\ r.vertices = w
          BY <4>1, <3>1, <2>2, <1>5, CostedIs
        <4>3. GoodRoute(r)
          <5>1. PassesVias(w, hops - 1)
            <6>1. hop # 1
              BY <3>1, <1>5
            <6> QED BY <6>1, <3>1, <2>2
          <5> QED BY <5>1, <4>1, <4>2, <3>1 DEF GoodRoute
        <4>4. routes' = <<r>>
          BY <4>1, <3>1, <2>3
        <4>5. DOMAIN routes' = {1} /\ routes'[1] = r /\ routes' \in Seq(FoundPath) /\ ~(1 < 1)
          BY <4>2, <4>4
        <4>6. \A x \in Emitted' : GoodRoute(x)'
          BY <4>3, <4>5, <1>2 DEF Emitted
        <4> QED BY <4>5, <4>6 DEF RouteInv, RoutesAscend
      <3>2. CASE ~(hop = hops /\ IsRoute(w))
        <4>1. DOMAIN routes' = {} /\ routes' \in Seq(FoundPath)
          BY <3>2, <2>3, <1>4
        <4> QED BY <4>1 DEF RouteInv, RoutesAscend, Emitted
      <3> QED BY <3>1, <3>2
    <2>5. GreedyInv'
      <3> SUFFICES ASSUME stage' = "bar" PROVE /\ routes' = <<>> /\ hop' # 1 /\ path' # <<>>
                                               /\ path'[Len(path')] = query'.forced[hop' - 1]
                                               /\ PassesVias(path, hop - 1)'
        BY <1>7 DEF GreedyInv
      <3>1. hop # hops
        BY <2>3
      <3>2. hop' - 1 = hop /\ hop' # 1
        BY <2>3, <1>5
      <3>3. PassesVias(path, hop - 1)'
        <4>1. PassesVias(w, hop)
          BY <3>1, <2>2
        <4> QED BY <4>1, <3>2, <2>3, <1>1 DEF PassesVias
      <3> QED BY <3>1, <3>2, <3>3, <2>2, <2>3, <1>1, <1>4
    <2> QED BY <2>3, <2>4, <2>5, <1>8, <1>9, <1>10 DEF ViaInv
  <1> QED BY <1>11, <1>12

LEMMA ForcedStepVia ==
  ASSUME Inv, ViaInv, ForcedStep
  PROVE  ViaInv'
  BY AskHopVia, SearchHopVia, HopDoneVia, EmitVia, ExploreVia, MergeDoneVia,
     NewWorkspaceVia, BarredSearchVia, SearchBarredVia, BarredDoneVia DEF ForcedStep

(***************************************************************************)
(* FindRoutes.                                                             *)
(***************************************************************************)
LEMMA AroundVia ==
  ASSUME Inv, ViaInv, Refuse \/ Admit \/ RunForced \/ RunOne \/ RunSeveral \/ Return \/ UNCHANGED vars
  PROVE  ViaInv'
  <1>1. HopInv /\ CallInv /\ TInv /\ FInv
    BY DEF ViaInv, Inv
  <1>2. step \in {"call", "run"} => /\ stage = "idle" /\ segments = <<>> /\ routes = <<>> /\ path = <<>>
                                    /\ frontier = {} /\ ready = {} /\ hop = 1
    BY <1>1 DEF TInv, FInv, HopInv
  <1>3. CASE Admit
    <2>1. step = "call" /\ UNCHANGED forcedVars
      BY <1>3 DEF Admit
    <2>2. /\ stage' = stage /\ query' = query /\ hop' = hop /\ segments' = segments
          /\ frontier' = frontier /\ ready' = ready /\ path' = path /\ routes' = routes
      BY <2>1 DEF forcedVars
    <2>3. hops' \in Nat /\ hops' >= 1
      BY <2>2, GraphIsGraph DEF hops
    <2> QED BY <2>1, <2>2, <2>3, <1>2, ViaIdle
  <1>4. CASE RunForced
    <2>1. PICK q : q = [sources |-> Sources, goals |-> Goals, forced |-> asked.forced, k |-> Count,
                        turn |-> asked.turn, bans |-> asked.bans]
      OBVIOUS
    <2>2. FindPaths(q) /\ step = "run"
      BY <1>4, <2>1 DEF RunForced
    <2>3. /\ query' = q /\ stage' = (IF q.k <= 0 \/ q.forced = <<>> THEN "return" ELSE "ask")
          /\ UNCHANGED <<hop, segments, frontier, ready, path, routes>>
      BY <2>2 DEF FindPaths
    <2>4. Count \in Int /\ asked.forced \in Seq(Vertex \cup {kNoVertex})
      BY <1>1, AskedFacts
    <2>5. q.k \in Int /\ q.k = Count /\ q.forced = asked.forced
      BY <2>1, <2>4
    <2>6. hops' \in Nat /\ hops' >= 1
      <3>1. Len(asked.forced) \in Nat /\ hops' = Len(asked.forced) + 1
        BY <2>3, <2>4, <2>5, LenProperties DEF hops
      <3> QED BY <3>1
    <2>7. stage' \in {"ask", "return"} /\ (stage' = "ask" => query'.k > 0 /\ query'.forced # <<>>)
      BY <2>3, <2>5
    <2> QED BY <2>2, <2>3, <2>6, <2>7, <1>2, ViaIdle
  <1>5. CASE RunOne \/ RunSeveral
    <2>1. UNCHANGED forcedVars /\ step = "run" /\ graph' = graph
      BY <1>5 DEF RunOne, RunSeveral, Begin, FindKShortestPathsMulti, FreshWorkspace
    <2>2. stage = "idle" /\ stage' = "idle"
      BY <2>1, <1>2 DEF forcedVars
    <2>3. CallInv'
      BY <2>2 DEF CallInv
    <2> QED BY <2>1, <2>2, <2>3, ViaFrame
  <1>6. CASE Refuse \/ Return \/ UNCHANGED vars
    <2>1. UNCHANGED forcedVars /\ UNCHANGED searchVars
      BY <1>6 DEF Refuse, Return, vars
    <2>2. /\ graph' = graph /\ request' = request /\ call' = call /\ pc' = pc
      BY <2>1 DEF searchVars, astarVars, yenVars
    <2>3. HopSources(ArrivalBearing)' = HopSources(ArrivalBearing) /\ HopGoals' = HopGoals /\ stage' = stage
      BY <2>1, SameHop DEF forcedVars
    <2>4. CallInv'
      BY <2>2, <2>3, <1>1 DEF CallInv
    <2> QED BY <2>1, <2>2, <2>4, ViaFrame
  <1> QED BY <1>3, <1>4, <1>5, <1>6

LEMMA WorkVia ==
  ASSUME Inv, ViaInv, Work
  PROVE  ViaInv'
  <1>1. CASE step = "forced" /\ ForcedStep
    BY <1>1, ForcedStepVia
  <1>2. CASE step \in {"astar", "yen"} /\ UNCHANGED forcedVars /\ (SearchStep \/ YenStep)
    <2>1. stage = "idle" /\ stage' = "idle"
      BY <1>2 DEF Inv, TInv, forcedVars
    <2>2. graph' = graph
      BY <1>2, SearchStepFrame
         DEF YenStep, FirstSearch, FirstDone, SourceSpur, NodeSpur, SpurDone, Accept, Search,
             Skip, Begin, astarVars, yenVars
    <2>3. CallInv'
      BY <2>1 DEF CallInv
    <2> QED BY <2>1, <2>2, <2>3, <1>2, ViaFrame
  <1> QED BY <1>1, <1>2 DEF Work

LEMMA InitVia ==
  ASSUME Init
  PROVE  ViaInv
  <1>1. /\ stage = "idle" /\ query = NoQuery /\ hop = 1 /\ segments = <<>> /\ frontier = {} /\ ready = {}
        /\ path = <<>> /\ routes = <<>>
    BY DEF Init, ForcedInit
  <1>2. hops \in Nat /\ hops >= 1
    BY GraphIsGraph, InitInv
  <1>3. /\ Len(segments) = 0 /\ segments \in Seq(Seq(FoundPath))
        /\ DOMAIN routes = {} /\ routes \in Seq(FoundPath)
    BY <1>1
  <1>4. HopInv
    BY <1>1, <1>2, <1>3 DEF HopInv, SegmentsOK
  <1>5. RouteInv
    BY <1>3 DEF RouteInv, RoutesAscend, Emitted
  <1>6. EndInv /\ GreedyInv /\ CallInv
    BY <1>1 DEF EndInv, GreedyInv, CallInv
  <1> QED BY <1>1, <1>4, <1>5, <1>6 DEF ViaInv

LEMMA ViaInvHolds == Spec => [](Inv /\ ViaInv)
  <1>1. Init => Inv /\ ViaInv
    BY InitInv, InitVia
  <1>2. Inv /\ ViaInv /\ [Next]_vars => (Inv /\ ViaInv)'
    BY NextKeeps, WorkVia, AroundVia DEF Next, Progress, Finished
  <1> QED BY <1>1, <1>2, PTL DEF Spec

\* What is returned is what the properties ask for.
LEMMA GoodIsForced ==
  ASSUME RouteInv, QueryOK
  PROVE  RoutesAreForced
  <1>1. ASSUME NEW r \in {routes[i] : i \in DOMAIN routes}
        PROVE  /\ IsSimple(r.vertices)
               /\ Recostable(graph, r.vertices, WholeSeed, WholeGoals, query.bans)
               /\ r = Costed(r.vertices)
               /\ \E at \in [1..(hops - 1) -> DOMAIN r.vertices] :
                     /\ \A h \in 1..(hops - 1) : r.vertices[at[h]] = query.forced[h]
                     /\ \A h \in 1..(hops - 2) : at[h] <= at[h + 1]
    <2>1. GoodRoute(r)
      BY DEF RouteInv, Emitted
    <2>2. IsRoute(r.vertices) /\ r = Costed(r.vertices) /\ PassesVias(r.vertices, hops - 1)
      BY <2>1 DEF GoodRoute
    <2>3. (hops - 1) - 1 = hops - 2
      BY HopsNat
    <2>4. \E at \in [1..(hops - 1) -> DOMAIN r.vertices] :
             /\ \A h \in 1..(hops - 1) : r.vertices[at[h]] = query.forced[h]
             /\ \A h \in 1..(hops - 2) : at[h] <= at[h + 1]
      BY <2>2, <2>3 DEF PassesVias
    <2> QED BY <2>2, <2>4 DEF IsRoute
  <1> QED BY <1>1 DEF RoutesAreForced, RouteInv

LEMMA NothingLeftOut ==
  ASSUME Inv, ViaInv
  PROVE  BestCombinations
  <1>1. RoutesAscend
    BY DEF ViaInv, RouteInv
  <1> SUFFICES ASSUME stage \in {"merge", "bar", "return"}, Len(segments) = hops,
                      explored < kMaxStitchedPicks, NEW p \in Picks, IsRoute(Stitch(p)),
                      \A i \in DOMAIN routes : routes[i].vertices # Stitch(p)
               PROVE  /\ \A i \in DOMAIN routes : routes[i].cost <= Costed(Stitch(p)).cost
                      /\ stage # "merge" => Len(routes) = query.k
    BY <1>1 DEF BestCombinations
  <1>2. IsPick(p)
    <2>1. p \in [1..hops -> Nat]
      BY DEF Picks
    <2>2. ASSUME NEW h \in 1..hops PROVE p[h] \in 1..Len(segments[h])
      <3>1. p[h] \in 1..query.k /\ p[h] <= Len(segments[h])
        BY DEF Picks
      <3>2. h \in 1..Len(segments) /\ SegmentsOK
        BY DEF ViaInv, HopInv
      <3>3. PICK s \in Seq(FoundPath) : s = segments[h]
        BY <3>2 DEF SegmentsOK, Alternatives
      <3>4. PICK n \in Nat : n = Len(segments[h])
        BY <3>3, LenProperties
      <3> QED BY <3>1, <3>4
    <2> QED BY <2>1, <2>2 DEF IsPick
  <1>3. Costed(Stitch(p)) \notin Emitted
    <2>1. Costed(Stitch(p)).vertices = Stitch(p)
      BY DEF Costed
    <2> QED BY <2>1 DEF Emitted
  <1>4. \A i \in DOMAIN routes : routes[i] \in Emitted
    BY DEF Emitted
  <1>5. CASE stage = "merge"
    <2>1. Merging /\ TreeInv /\ OrderInv
      BY <1>5, MergeFacts
    <2>2. \A r \in Emitted : r.cost <= Costed(Stitch(p)).cost
      BY <2>1, <1>2, <1>3, NothingUndercuts
    <2> QED BY <2>2, <1>4, <1>5
  <1>6. CASE stage \in {"bar", "return"}
    <2>1. Len(routes) = query.k /\ \A r \in Emitted : r.cost <= Costed(Stitch(p)).cost
      BY <1>2, <1>3, <1>6 DEF ViaInv, EndInv
    <2> QED BY <2>1, <1>4
  <1> QED BY <1>5, <1>6

(***************************************************************************)
(* The theorems.                                                           *)
(***************************************************************************)
\* Whatever ForcedRouter::FindPaths has put into its answer, from the merge or from the
\* fallback, is a simple route that passes the via points in order and carries the cost
\* and distance of the whole path, and nothing is in it twice.
THEOREM ViaRoutesAreForced == Spec => []RoutesAreForced
  <1>1. Inv /\ ViaInv => RoutesAreForced
    BY GoodIsForced, GraphIsGraph DEF ViaInv
  <1> QED BY <1>1, ViaInvHolds, PTL

\* The merge emits routes in the order of their true costs; while its budget lasts no
\* combination it left out is cheaper, and an answer of fewer than k routes leaves out
\* none, for every network, number of via points and k.
THEOREM ViaMergeIsBest == Spec => []BestCombinations
  <1>1. Inv /\ ViaInv => BestCombinations
    BY NothingLeftOut
  <1> QED BY <1>1, ViaInvHolds, PTL
=============================================================================
