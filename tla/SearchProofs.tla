---------------------------- MODULE SearchProofs ----------------------------
(***************************************************************************)
(* Proofs about the searches of NavDatabase::FindRoutes, for every         *)
(* network, question, k and number of via points.                          *)
(*                                                                         *)
(* A single search, for every graph, every list of sources and goals and   *)
(* every set of bans: AInv is an invariant of it, and contains             *)
(* AnswerIsTrue and ShortestFound.  Every reached vertex has a loopless    *)
(* chain of closed predecessors back to a source (Parents, Chains), each   *)
(* link the first cheapest of its parallel edges, so that what the walk    *)
(* back reports is a route and its numbers are those of re-costing it.     *)
(* Every edge looked at has had its effect (Scans) and every vertex        *)
(* reached and not closed is in the open set with its key (Opens), so an   *)
(* empty open set means that nothing else can be reached.  The chord bound *)
(* is consistent, so vertices are closed in the order of their keys        *)
(* (Keys): a closed vertex is never improved, and a key that cannot beat   *)
(* the best total ends the search with the cheapest route.  RoutesAre      *)
(* shows that the brute-force reference of module AStar is the set of      *)
(* flyable paths to a goal.                                                *)
(*                                                                         *)
(* Inv has a part for each layer.  AInv asks of its arguments what CallOK  *)
(* says; the layers above show that they only pass such arguments.  YInv   *)
(* is about Yen's loop: the accepted paths and the candidates are distinct *)
(* routes with their true numbers, the shared tables are as they were      *)
(* before the round, and the search under way is the one the loop asked    *)
(* for.  KInv, with the turn penalty off, accounts for every route not     *)
(* accepted yet: it leaves the accepted paths at some position n, and      *)
(* there either a candidate no dearer goes as far with it (Covered), or    *)
(* the round has still to come to n (Ahead).  That is what starting a      *)
(* round at the last path's deviation must not break.  FInv and TInv say   *)
(* who may be running.                                                     *)
(*                                                                         *)
(* The provers cannot use an induction principle with a predicate as its   *)
(* parameter; NatSetInduction is one for a set of naturals.                *)
(***************************************************************************)
EXTENDS RouteSearch, SequenceTheorems, FiniteSetTheorems, TLAPS

(***************************************************************************)
(* Induction over the naturals, for a set instead of a predicate.          *)
(***************************************************************************)
\* A set of naturals has a least element.
LEMMA LeastNat ==
  ASSUME NEW T \in SUBSET Nat, T # {}
  PROVE  \E m \in T : \A k \in T : m <= k
  <1>1. PICK x \in T : \A y \in T : ~(<<y, x>> \in OpToRel(<, Nat))
    BY WFMin, NatLessThanWellFounded
  <1>2. \A y \in T : ~(y < x)
    BY <1>1 DEF OpToRel
  <1> QED BY <1>2

\* A set that holds zero and every successor of its elements holds all naturals.
LEMMA NatSetInduction ==
  ASSUME NEW S, 0 \in S, \A n \in Nat : n \in S => n + 1 \in S
  PROVE  Nat \subseteq S
  <1> SUFFICES ASSUME Nat \ S # {} PROVE FALSE
    OBVIOUS
  <1>1. PICK m \in Nat \ S : \A k \in Nat \ S : m <= k
    BY LeastNat
  <1>2. m # 0 /\ m - 1 \in Nat /\ (m - 1) + 1 = m
    BY <1>1
  <1>3. m - 1 \in S
    BY <1>1, <1>2
  <1> QED BY <1>1, <1>2, <1>3

\* The first of the cheapest elements of a set of positions.
LEMMA FirstLeast ==
  ASSUME NEW D \in SUBSET Nat, D # {}, NEW c \in [D -> Nat]
  PROVE  \E i \in D : \A j \in D : c[i] < c[j] \/ (c[i] = c[j] /\ i <= j)
  <1> DEFINE costs == {c[i] : i \in D}
  <1>1. PICK m \in costs : \A k \in costs : m <= k
    <2>1. costs # {} /\ costs \in SUBSET Nat
      OBVIOUS
    <2> QED BY <2>1, LeastNat
  <1> DEFINE best == {i \in D : c[i] = m}
  <1>2. PICK i \in best : \A k \in best : i <= k
    <2>1. best # {} /\ best \in SUBSET Nat
      BY <1>1
    <2> QED BY <2>1, LeastNat
  <1>3. ASSUME NEW j \in D PROVE c[i] < c[j] \/ (c[i] = c[j] /\ i <= j)
    <2>1. c[i] = m /\ m <= c[j] /\ m \in Nat /\ c[j] \in Nat /\ i \in D
      BY <1>1, <1>2
    <2>2. CASE c[j] = m
      BY <2>1, <2>2, <1>2
    <2>3. CASE c[j] # m
      BY <2>1, <2>3
    <2> QED BY <2>2, <2>3
  <1> QED BY <1>2, <1>3

\* A sequence of numbers that never falls is largest at its end.
LEMMA NeverFalls ==
  ASSUME NEW n \in Nat, NEW a \in [1..n -> Nat],
         \A i \in 1..(n - 1) : a[i] <= a[i + 1],
         NEW m \in 1..n
  PROVE  a[m] <= a[n]
  <1> DEFINE S == {k \in Nat : m + k <= n => a[m] <= a[m + k]}
  <1>1. 0 \in S
    OBVIOUS
  <1>2. ASSUME NEW k \in Nat, k \in S PROVE k + 1 \in S
    <2>1. CASE m + (k + 1) <= n
      <3>1. a[m] <= a[m + k] /\ m + k \in 1..(n - 1)
        BY <1>2, <2>1
      <3>2. a[m + k] <= a[(m + k) + 1] /\ (m + k) + 1 = m + (k + 1)
        BY <3>1
      <3>3. a[m] \in Nat /\ a[m + k] \in Nat /\ a[m + (k + 1)] \in Nat
        BY <3>1, <2>1
      <3> QED BY <3>1, <3>2, <3>3
    <2> QED BY <2>1
  <1> HIDE DEF S
  <1>3. n - m \in S
    <2>1. Nat \subseteq S
      BY <1>1, <1>2, NatSetInduction
    <2> QED BY <2>1
  <1> QED BY <1>3 DEF S

(***************************************************************************)
(* The running total.                                                      *)
(***************************************************************************)
IsSum(s, F, n) == s = [i \in 0 .. n |-> IF i = 0 THEN 0 ELSE s[i - 1] + F[i]]

\* The recursion that defines Total has a solution.
LEMMA SumExists ==
  ASSUME NEW F, NEW n \in Nat
  PROVE  \E s : IsSum(s, F, n)
  <1> DEFINE S == {k \in Nat : \E s : IsSum(s, F, k)}
  <1>1. 0 \in S
    <2>1. IsSum([i \in 0 .. 0 |-> 0], F, 0)
      BY DEF IsSum
    <2> QED BY <2>1
  <1>2. ASSUME NEW k \in Nat, k \in S PROVE k + 1 \in S
    <2>1. PICK s : IsSum(s, F, k)
      BY <1>2
    <2> DEFINE t == [i \in 0 .. k + 1 |-> IF i = k + 1 THEN s[k] + F[k + 1] ELSE s[i]]
    <2>2. ASSUME NEW i \in 0 .. k + 1 PROVE t[i] = IF i = 0 THEN 0 ELSE t[i - 1] + F[i]
      BY <2>1 DEF IsSum
    <2>3. IsSum(t, F, k + 1)
      BY <2>2 DEF IsSum
    <2> QED BY <2>3
  <1> HIDE DEF S
  <1>3. Nat \subseteq S
    BY <1>1, <1>2, NatSetInduction
  <1> QED BY <1>3 DEF S

\* Two solutions agree where both are defined.
LEMMA SumUnique ==
  ASSUME NEW F, NEW n \in Nat, NEW m \in Nat, NEW s, NEW t, IsSum(s, F, n), IsSum(t, F, m),
         NEW k \in 0 .. n, k <= m
  PROVE  s[k] = t[k]
  <1> DEFINE S == {i \in Nat : i <= n /\ i <= m => s[i] = t[i]}
  <1>1. 0 \in S
    BY DEF IsSum
  <1>2. ASSUME NEW i \in Nat, i \in S PROVE i + 1 \in S
    <2>1. CASE i + 1 <= n /\ i + 1 <= m
      <3>1. s[i] = t[i] /\ i \in 0 .. n /\ i \in 0 .. m /\ i + 1 \in 0 .. n /\ i + 1 \in 0 .. m
        BY <2>1, <1>2
      <3>2. s[i + 1] = s[(i + 1) - 1] + F[i + 1]
        BY <3>1 DEF IsSum
      <3>3. t[i + 1] = t[(i + 1) - 1] + F[i + 1]
        BY <3>1 DEF IsSum
      <3>4. (i + 1) - 1 = i
        OBVIOUS
      <3> QED BY <3>1, <3>2, <3>3, <3>4
    <2>2. CASE ~(i + 1 <= n /\ i + 1 <= m)
      BY <2>2
    <2> QED BY <2>1, <2>2
  <1> HIDE DEF S
  <1>3. Nat \subseteq S
    BY <1>1, <1>2, NatSetInduction
  <1> QED BY <1>3 DEF S

LEMMA TotalIsSum ==
  ASSUME NEW F, NEW n \in Nat
  PROVE  \E s : IsSum(s, F, n) /\ Total(F, n) = s[n]
  <1> DEFINE s == CHOOSE s : IsSum(s, F, n)
  <1>1. IsSum(s, F, n)
    BY SumExists
  <1>2. Total(F, n) = s[n]
    BY DEF Total, IsSum
  <1> QED BY <1>1, <1>2

\* Total starts at zero and grows by the next term.
LEMMA TotalSteps ==
  ASSUME NEW F
  PROVE  /\ Total(F, 0) = 0
         /\ \A n \in Nat : Total(F, n + 1) = Total(F, n) + F[n + 1]
  <1>1. Total(F, 0) = 0
    BY TotalIsSum DEF IsSum
  <1>2. ASSUME NEW n \in Nat PROVE Total(F, n + 1) = Total(F, n) + F[n + 1]
    <2>1. PICK s : IsSum(s, F, n) /\ Total(F, n) = s[n]
      BY TotalIsSum
    <2>2. PICK t : IsSum(t, F, n + 1) /\ Total(F, n + 1) = t[n + 1]
      BY TotalIsSum
    <2>3. s[n] = t[n]
      BY <2>1, <2>2, SumUnique
    <2>4. t[n + 1] = t[n] + F[n + 1]
      BY <2>2 DEF IsSum
    <2> QED BY <2>1, <2>2, <2>3, <2>4
  <1> QED BY <1>1, <1>2

\* The total of natural numbers is one.
LEMMA TotalNat ==
  ASSUME NEW n \in Nat, NEW F, \A i \in 1..n : F[i] \in Nat
  PROVE  Total(F, n) \in Nat
  <1> DEFINE S == {k \in Nat : k <= n => Total(F, k) \in Nat}
  <1>1. 0 \in S
    BY TotalSteps
  <1>2. ASSUME NEW k \in Nat, k \in S PROVE k + 1 \in S
    BY <1>2, TotalSteps
  <1> HIDE DEF S
  <1>3. n \in S
    BY <1>1, <1>2, NatSetInduction
  <1> QED BY <1>3 DEF S

\* The total of zeros is zero.
LEMMA TotalZero ==
  ASSUME NEW n \in Nat, NEW F, \A i \in 1..n : F[i] = 0
  PROVE  Total(F, n) = 0
  <1> DEFINE S == {k \in Nat : k <= n => Total(F, k) = 0}
  <1>1. 0 \in S
    BY TotalSteps
  <1>2. ASSUME NEW k \in Nat, k \in S PROVE k + 1 \in S
    BY <1>2, TotalSteps
  <1> HIDE DEF S
  <1>3. n \in S
    BY <1>1, <1>2, NatSetInduction
  <1> QED BY <1>3 DEF S

\* What grows by F and H at every step has grown by their totals.
LEMMA Telescope ==
  ASSUME NEW n \in Nat, NEW F, NEW H, NEW a,
         \A i \in 1..n : F[i] \in Nat /\ H[i] \in Nat,
         \A i \in 1..(n + 1) : a[i] \in Nat,
         \A i \in 1..n : a[i + 1] = a[i] + F[i] + H[i]
  PROVE  a[n + 1] = a[1] + Total(F, n) + Total(H, n)
  <1> DEFINE S == {k \in Nat : k <= n => a[k + 1] = a[1] + Total(F, k) + Total(H, k)}
  <1>1. 0 \in S
    BY TotalSteps
  <1>2. ASSUME NEW k \in Nat, k \in S PROVE k + 1 \in S
    <2>1. CASE k + 1 <= n
      <3>1. a[k + 1] = a[1] + Total(F, k) + Total(H, k) /\ k + 1 \in 1..n
        BY <1>2, <2>1
      <3>2. a[(k + 1) + 1] = a[k + 1] + F[k + 1] + H[k + 1]
        BY <3>1
      <3>3. Total(F, k + 1) = Total(F, k) + F[k + 1] /\ Total(H, k + 1) = Total(H, k) + H[k + 1]
        BY TotalSteps
      <3>4. Total(F, k) \in Nat /\ Total(H, k) \in Nat /\ F[k + 1] \in Nat /\ H[k + 1] \in Nat
            /\ a[1] \in Nat
        BY TotalNat, <3>1, <2>1
      <3> QED BY <3>1, <3>2, <3>3, <3>4
    <2> QED BY <2>1
  <1> HIDE DEF S
  <1>3. n \in S
    BY <1>1, <1>2, NatSetInduction
  <1> QED BY <1>3 DEF S

(***************************************************************************)
(* The cost model.                                                         *)
(***************************************************************************)
Heading == (0..359) \cup {kNoBearing}

LEMMA VertexFinite == Vertex \in SUBSET Nat /\ IsFiniteSet(Vertex) /\ kNoVertex \notin Vertex
  BY VertexAssumption, FS_CardinalityType DEF kNoVertex

\* A turn costs a natural number, and nothing when the penalty is off.
LEMMA TurnNat ==
  ASSUME NEW turn \in BOOLEAN, NEW a \in Heading, NEW b \in Heading
  PROVE  /\ TurnCost(turn, a, b) \in Nat
         /\ ~turn => TurnCost(turn, a, b) = 0
  <1>1. CASE turn /\ a >= 0 /\ b >= 0
    <2> DEFINE angle == TurnAngleDeg(a, b)
    <2>1. angle \in 0..180
      BY <1>1 DEF TurnAngleDeg, Heading, kNoBearing
    <2> HIDE DEF angle
    <2>2. (angle > 45 /\ angle <= 90) => (20 * (angle - 45)) \div 45 \in Nat
      BY <2>1
    <2>3. (angle > 90 /\ angle < 180) => 20 + (180 * (angle - 90) * (angle - 90)) \div 8100 \in Nat
      <3> SUFFICES ASSUME angle > 90 PROVE 20 + (180 * (angle - 90) * (angle - 90)) \div 8100 \in Nat
        OBVIOUS
      <3>1. PICK n \in Nat : n = angle - 90
        BY <2>1
      <3>2. 180 * n \in Nat
        BY <3>1
      <3>3. PICK m \in Nat : m = 180 * n
        BY <3>2
      <3>4. m * n \in Nat
        BY <3>1, <3>3
      <3>5. PICK k \in Nat : k = m * n
        BY <3>4
      <3>6. 20 + k \div 8100 \in Nat
        BY <3>5
      <3> QED BY <3>1, <3>3, <3>5, <3>6
    <2>4. TurnPenalty(angle) \in Nat
      BY <2>1, <2>2, <2>3 DEF TurnPenalty
    <2> QED BY <1>1, <2>4 DEF TurnCost, angle
  <1>2. CASE ~(turn /\ a >= 0 /\ b >= 0)
    BY <1>2 DEF TurnCost
  <1> QED BY <1>1, <1>2

\* The first cheapest usable edge is the one SelectEdge takes.
FirstCheapest(gr, w, v, i) ==
    /\ i \in Usable(gr, w, v)
    /\ \A j \in Usable(gr, w, v) :
          \/ EdgeCost(gr[w][i]) < EdgeCost(gr[w][j])
          \/ EdgeCost(gr[w][i]) = EdgeCost(gr[w][j]) /\ i <= j

LEMMA RowFacts ==
  ASSUME NEW gr, IsGraph(gr), NEW w \in Vertex
  PROVE  /\ gr[w] \in Seq(Edge)
         /\ Len(gr[w]) \in Nat
         /\ DOMAIN gr[w] = 1..Len(gr[w])
         /\ \A i \in DOMAIN gr[w] :
               /\ gr[w][i] \in Edge
               /\ gr[w][i].to \in Vertex
               /\ EdgeCost(gr[w][i]) \in Nat
               /\ gr[w][i].distance_nm \in Nat
               /\ Chord[w][gr[w][i].to] \in Nat
               /\ Chord[w][gr[w][i].to] <= EdgeCost(gr[w][i])
  <1>1. gr[w] \in Seq(Edge)
    BY DEF IsGraph
  <1>2. Len(gr[w]) \in Nat /\ DOMAIN gr[w] = 1..Len(gr[w])
    BY <1>1, LenProperties
  <1>3. ASSUME NEW i \in DOMAIN gr[w] PROVE gr[w][i] \in Edge
    BY <1>1, <1>2, ElementOfSeq
  <1>4. ASSUME NEW e \in Edge PROVE e.to \in Vertex /\ EdgeCost(e) \in Nat /\ e.distance_nm \in Nat
                                    /\ e.distance_nm <= EdgeCost(e)
    BY DEF Edge, EdgeCost
  <1>5. \A x \in Vertex : Chord[w][x] \in Nat
    BY ChordAssumption
  <1>6. ASSUME NEW i \in DOMAIN gr[w] PROVE Chord[w][gr[w][i].to] <= gr[w][i].distance_nm
    BY DEF IsGraph
  <1>7. ASSUME NEW i \in DOMAIN gr[w]
        PROVE  /\ gr[w][i] \in Edge
               /\ gr[w][i].to \in Vertex
               /\ EdgeCost(gr[w][i]) \in Nat
               /\ gr[w][i].distance_nm \in Nat
               /\ Chord[w][gr[w][i].to] \in Nat
               /\ Chord[w][gr[w][i].to] <= EdgeCost(gr[w][i])
    <2>1. gr[w][i] \in Edge
      BY <1>3
    <2>2. /\ gr[w][i].to \in Vertex /\ EdgeCost(gr[w][i]) \in Nat /\ gr[w][i].distance_nm \in Nat
          /\ gr[w][i].distance_nm <= EdgeCost(gr[w][i])
      BY <2>1, <1>4
    <2> QED BY <2>1, <2>2, <1>5, <1>6
  <1> QED BY <1>1, <1>2, <1>7

LEMMA SelectIs ==
  ASSUME NEW gr, IsGraph(gr), NEW w \in Vertex, NEW v \in Vertex,
         NEW i, FirstCheapest(gr, w, v, i)
  PROVE  SelectEdge(gr, w, v) = gr[w][i]
  <1> DEFINE U == Usable(gr, w, v)
  <1>1. \A j \in U : j \in Nat /\ EdgeCost(gr[w][j]) \in Nat
    BY RowFacts DEF Usable
  <1> DEFINE P(k) == \A j \in U : \/ EdgeCost(gr[w][k]) < EdgeCost(gr[w][j])
                                  \/ EdgeCost(gr[w][k]) = EdgeCost(gr[w][j]) /\ k <= j
  <1>2. i \in U /\ P(i)
    BY DEF FirstCheapest
  <1>3. ASSUME NEW k \in U, P(k) PROVE k = i
    <2> HIDE DEF U
    <2>1. /\ EdgeCost(gr[w][k]) < EdgeCost(gr[w][i])
             \/ (EdgeCost(gr[w][k]) = EdgeCost(gr[w][i]) /\ k <= i)
          /\ EdgeCost(gr[w][i]) < EdgeCost(gr[w][k])
             \/ (EdgeCost(gr[w][i]) = EdgeCost(gr[w][k]) /\ i <= k)
      BY <1>2, <1>3
    <2> QED BY <1>1, <1>2, <2>1
  <1>4. (CHOOSE k \in U : P(k)) = i
    BY <1>2, <1>3
  <1> QED BY <1>4 DEF SelectEdge

LEMMA SelectSome ==
  ASSUME NEW gr, IsGraph(gr), NEW w \in Vertex, NEW v \in Vertex, Usable(gr, w, v) # {}
  PROVE  \E i \in DOMAIN gr[w] : FirstCheapest(gr, w, v, i)
  <1> DEFINE U == Usable(gr, w, v)
             c == [i \in U |-> EdgeCost(gr[w][i])]
  <1>1. U \in SUBSET Nat /\ c \in [U -> Nat] /\ U \subseteq DOMAIN gr[w]
    BY RowFacts DEF Usable
  <1>2. PICK i \in U : \A j \in U : c[i] < c[j] \/ (c[i] = c[j] /\ i <= j)
    <2> HIDE DEF U, c
    <2> QED BY <1>1, FirstLeast DEF U
  <1>3. FirstCheapest(gr, w, v, i)
    BY <1>2 DEF FirstCheapest
  <1> QED BY <1>1, <1>3

(***************************************************************************)
(* Endpoints.                                                              *)
(***************************************************************************)
LEMMA EndpointFacts ==
  ASSUME NEW E \in Seq(SeededEndpoint)
  PROVE  /\ Len(E) \in Nat
         /\ DOMAIN E = 1..Len(E)
         /\ \A i \in DOMAIN E : /\ E[i] \in SeededEndpoint
                                /\ E[i].vertex \in Vertex \cup {kNoVertex}
                                /\ E[i].cost \in Nat
                                /\ E[i].bearing \in Heading
  <1>1. Len(E) \in Nat /\ DOMAIN E = 1..Len(E)
    BY LenProperties
  <1>2. ASSUME NEW i \in DOMAIN E PROVE E[i] \in SeededEndpoint
    BY <1>1, ElementOfSeq
  <1>3. ASSUME NEW e \in SeededEndpoint
        PROVE  e.vertex \in Vertex \cup {kNoVertex} /\ e.cost \in Nat /\ e.bearing \in Heading
    BY DEF SeededEndpoint, Heading
  <1> QED BY <1>1, <1>2, <1>3

\* The seed table holds the least cost of the endpoints at a vertex, or -1.
LEMMA SeedTable ==
  ASSUME NEW E \in Seq(SeededEndpoint), NEW v \in Vertex
  PROVE  /\ BuildSeedTable(E)[v] \in Nat \cup {-1}
         /\ BuildBearingTable(E)[v] \in Heading
         /\ AtVertex(E, v) = {} <=> BuildSeedTable(E)[v] = -1
         /\ AtVertex(E, v) # {} =>
               /\ \E i \in AtVertex(E, v) : E[i].cost = BuildSeedTable(E)[v]
               /\ \A i \in AtVertex(E, v) : BuildSeedTable(E)[v] <= E[i].cost
  <1>1. CASE AtVertex(E, v) = {}
    BY <1>1 DEF BuildSeedTable, BuildBearingTable, Heading, kNoBearing
  <1>2. CASE AtVertex(E, v) # {}
    <2> DEFINE U == AtVertex(E, v)
               c == [i \in U |-> E[i].cost]
               P(i) == \A j \in U : E[i].cost < E[j].cost \/ (E[i].cost = E[j].cost /\ i <= j)
    <2>1. U \in SUBSET Nat /\ c \in [U -> Nat] /\ U \subseteq DOMAIN E
      BY EndpointFacts DEF AtVertex
    <2>2. \E i \in U : \A j \in U : c[i] < c[j] \/ (c[i] = c[j] /\ i <= j)
      <3>1. U # {}
        BY <1>2
      <3> HIDE DEF U, c
      <3> QED BY <2>1, <3>1, FirstLeast
    <2>3. \E i \in U : P(i)
      BY <2>2
    <2> DEFINE i0 == CHOOSE i \in U : P(i)
    <2>4. i0 \in U /\ P(i0)
      <3> HIDE DEF U, P
      <3> QED BY <2>3
    <2>5. CheapestAt(E, v) = E[i0]
      BY DEF CheapestAt
    <2> HIDE DEF i0
    <2>6. BuildSeedTable(E)[v] = E[i0].cost /\ BuildBearingTable(E)[v] = E[i0].bearing
      BY <1>2, <2>5 DEF BuildSeedTable, BuildBearingTable
    <2>7. E[i0].cost \in Nat /\ E[i0].bearing \in Heading
      BY <2>1, <2>4, EndpointFacts
    <2>8. \A j \in U : E[i0].cost <= E[j].cost
      BY <2>4, <2>1, EndpointFacts
    <2> QED BY <1>2, <2>4, <2>6, <2>7, <2>8
  <1> QED BY <1>1, <1>2

LEMMA SeedTableTypes ==
  ASSUME NEW E \in Seq(SeededEndpoint)
  PROVE  /\ BuildSeedTable(E) \in [Vertex -> Nat \cup {-1}]
         /\ BuildBearingTable(E) \in [Vertex -> Heading]
  <1>1. \A v \in Vertex : BuildSeedTable(E)[v] \in Nat \cup {-1}
    BY SeedTable
  <1>2. \A v \in Vertex : BuildBearingTable(E)[v] \in Heading
    BY SeedTable
  <1>3. BuildSeedTable(E) \in [Vertex -> Nat \cup {-1}]
    BY <1>1 DEF BuildSeedTable
  <1>4. BuildBearingTable(E) \in [Vertex -> Heading]
    BY <1>2 DEF BuildBearingTable
  <1> QED BY <1>3, <1>4

(***************************************************************************)
(* The lower bound: finite when there is a goal, then never above a step   *)
(* plus the bound after it, and never above a goal's seed.                 *)
(***************************************************************************)
InRange(goals) == {i \in DOMAIN goals : goals[i].vertex \in Vertex}

LEMMA HeuristicIs ==
  ASSUME NEW goals \in Seq(SeededEndpoint), NEW v \in Vertex, InRange(goals) # {}
  PROVE  /\ MultiGoalHeuristic(goals, v) \in Nat
         /\ \E i \in InRange(goals) :
               MultiGoalHeuristic(goals, v) = Chord[v][goals[i].vertex] + goals[i].cost
         /\ \A i \in InRange(goals) :
               MultiGoalHeuristic(goals, v) <= Chord[v][goals[i].vertex] + goals[i].cost
  <1> DEFINE U == InRange(goals)
             via(i) == Chord[v][goals[i].vertex] + goals[i].cost
             c == [i \in U |-> via(i)]
             P(i) == \A j \in U : via(i) <= via(j)
  <1>1. ASSUME NEW i \in U PROVE via(i) \in Nat
    <2>1. goals[i].vertex \in Vertex /\ goals[i].cost \in Nat
      BY EndpointFacts DEF InRange
    <2>2. \A x \in Vertex : Chord[v][x] \in Nat
      BY ChordAssumption
    <2> QED BY <2>1, <2>2
  <1>2. U \in SUBSET Nat /\ c \in [U -> Nat]
    BY <1>1, EndpointFacts DEF InRange
  <1>3. \E i \in U : \A j \in U : c[i] < c[j] \/ (c[i] = c[j] /\ i <= j)
    <2>1. U # {}
      OBVIOUS
    <2> HIDE DEF U, c
    <2> QED BY <1>2, <2>1, FirstLeast
  <1>4. \E i \in U : P(i)
    <2>1. PICK i \in U : \A j \in U : c[i] < c[j] \/ (c[i] = c[j] /\ i <= j)
      BY <1>3
    <2>2. \A j \in U : via(i) <= via(j)
      <3>1. \A j \in U : c[j] = via(j)
        OBVIOUS
      <3> HIDE DEF U, c, via
      <3> QED BY <2>1, <3>1, <1>1
    <2> QED BY <2>2
  <1> DEFINE i0 == CHOOSE i \in U : P(i)
  <1>5. i0 \in U /\ P(i0)
    <2> HIDE DEF U, P
    <2> QED BY <1>4, SMTT(30)
  <1>6. MultiGoalHeuristic(goals, v) = via(i0)
    BY DEF MultiGoalHeuristic, InRange
  <1> HIDE DEF i0, c
  <1> QED BY <1>1, <1>5, <1>6

LEMMA HeuristicFacts ==
  ASSUME NEW goals \in Seq(SeededEndpoint), NEW v \in Vertex, NEW w \in Vertex
  PROVE  /\ InRange(goals) = {} => MultiGoalHeuristic(goals, v) = kInfinity
         /\ InRange(goals) # {} =>
               /\ MultiGoalHeuristic(goals, v) \in Nat
               /\ MultiGoalHeuristic(goals, v) <= Chord[v][w] + MultiGoalHeuristic(goals, w)
         /\ \A i \in AtVertex(goals, v) :
               InRange(goals) # {} /\ MultiGoalHeuristic(goals, v) <= goals[i].cost
  <1>1. InRange(goals) = {} => MultiGoalHeuristic(goals, v) = kInfinity
    BY DEF MultiGoalHeuristic, InRange
  <1>2. ASSUME InRange(goals) # {}
        PROVE  MultiGoalHeuristic(goals, v) <= Chord[v][w] + MultiGoalHeuristic(goals, w)
    <2>1. PICK i \in InRange(goals) :
             MultiGoalHeuristic(goals, w) = Chord[w][goals[i].vertex] + goals[i].cost
      BY <1>2, HeuristicIs
    <2>2. goals[i].vertex \in Vertex /\ goals[i].cost \in Nat
      BY EndpointFacts DEF InRange
    <2>3. MultiGoalHeuristic(goals, v) \in Nat
          /\ MultiGoalHeuristic(goals, v) <= Chord[v][goals[i].vertex] + goals[i].cost
      BY <1>2, HeuristicIs
    <2>4. PICK x \in Vertex : x = goals[i].vertex
      BY <2>2
    <2>5. Chord[v][x] <= Chord[v][w] + Chord[w][x] /\ Chord[v][x] \in Nat /\ Chord[v][w] \in Nat
          /\ Chord[w][x] \in Nat
      BY ChordAssumption
    <2> QED BY <2>1, <2>2, <2>3, <2>4, <2>5, SMTT(40)
  <1>3. ASSUME NEW i \in AtVertex(goals, v)
        PROVE  InRange(goals) # {} /\ MultiGoalHeuristic(goals, v) <= goals[i].cost
    <2>1. i \in InRange(goals) /\ goals[i].vertex = v /\ goals[i].cost \in Nat
      BY EndpointFacts DEF AtVertex, InRange
    <2>2. Chord[v][v] = 0
      BY ChordAssumption
    <2> QED BY <2>1, <2>2, HeuristicIs
  <1> QED BY <1>1, <1>2, <1>3, HeuristicIs

(***************************************************************************)
(* Routes, the reference: it grows paths step by step, and what it yields  *)
(* are the flyable paths to a goal, all of them.                           *)
(***************************************************************************)
Flyable(gr, c, p) ==
    /\ p \in Seq(Vertex)
    /\ p # <<>>
    /\ BuildSeedTable(c.sources)[p[1]] >= 0
    /\ \A i \in 1..Len(p) : ~NodeBlocked(c.bans, p[i])
    /\ \A i \in 1..(Len(p) - 1) : /\ ~EdgeBlocked(c.bans, p[i], p[i + 1])
                                  /\ Usable(gr, p[i], p[i + 1]) # {}
    /\ IsSimple(p)

Starts(c) ==
    {<<v>> : v \in {w \in Vertex : BuildSeedTable(c.sources)[w] >= 0 /\ ~NodeBlocked(c.bans, w)}}

Longer(gr, c, P) ==
    {q \in UNION {{Append(p, v) : v \in {x \in Vertex : PathUsable(gr, Append(p, x), c.bans)}} : p \in P} :
        IsSimple(q)}

IsUpto(f, gr, c, N) ==
    f = [n \in 0..N |-> IF n = 0 THEN {} ELSE Starts(c) \cup Longer(gr, c, f[n - 1])]

LEMMA UptoExists ==
  ASSUME NEW gr, NEW c, NEW N \in Nat
  PROVE  \E f : IsUpto(f, gr, c, N)
  <1> DEFINE S == {k \in Nat : \E f : IsUpto(f, gr, c, k)}
  <1>1. 0 \in S
    <2>1. IsUpto([n \in 0..0 |-> {}], gr, c, 0)
      BY DEF IsUpto
    <2> QED BY <2>1
  <1>2. ASSUME NEW k \in Nat, k \in S PROVE k + 1 \in S
    <2>1. PICK f : IsUpto(f, gr, c, k)
      BY <1>2
    <2> DEFINE t == [n \in 0..(k + 1) |->
                        IF n = k + 1 THEN Starts(c) \cup Longer(gr, c, f[k]) ELSE f[n]]
    <2>2. ASSUME NEW n \in 0..(k + 1)
          PROVE  t[n] = IF n = 0 THEN {} ELSE Starts(c) \cup Longer(gr, c, t[n - 1])
      <3>1. CASE n = k + 1
        BY <3>1
      <3>2. CASE n # k + 1
        <4>1. n \in 0..k /\ t[n] = f[n] /\ (n # 0 => t[n - 1] = f[n - 1])
          BY <3>2
        <4>2. f[n] = IF n = 0 THEN {} ELSE Starts(c) \cup Longer(gr, c, f[n - 1])
          BY <4>1, <2>1 DEF IsUpto
        <4> HIDE DEF t
        <4> QED BY <4>1, <4>2
      <3> QED BY <3>1, <3>2
    <2>3. IsUpto(t, gr, c, k + 1)
      BY <2>2 DEF IsUpto
    <2> QED BY <2>3
  <1> HIDE DEF S
  <1>3. Nat \subseteq S
    BY <1>1, <1>2, NatSetInduction
  <1> QED BY <1>3 DEF S

\* A path of one vertex.
LEMMA FlyableStart ==
  ASSUME NEW gr, NEW c, NEW p
  PROVE  p \in Starts(c) <=> Flyable(gr, c, p) /\ Len(p) = 1
  <1>1. ASSUME p \in Starts(c) PROVE Flyable(gr, c, p) /\ Len(p) = 1
    <2>1. PICK v \in Vertex : p = <<v>> /\ BuildSeedTable(c.sources)[v] >= 0 /\ ~NodeBlocked(c.bans, v)
      BY <1>1 DEF Starts
    <2>2. p \in Seq(Vertex) /\ Len(p) = 1 /\ p[1] = v /\ p # <<>> /\ DOMAIN p = 1..1
      BY <2>1
    <2> QED BY <2>1, <2>2 DEF Flyable, IsSimple
  <1>2. ASSUME Flyable(gr, c, p), Len(p) = 1 PROVE p \in Starts(c)
    <2>1. p \in Seq(Vertex) /\ p[1] \in Vertex /\ BuildSeedTable(c.sources)[p[1]] >= 0
          /\ ~NodeBlocked(c.bans, p[1])
      BY <1>2 DEF Flyable
    <2>2. p = <<p[1]>>
      BY <2>1, <1>2
    <2> QED BY <2>1, <2>2 DEF Starts
  <1> QED BY <1>1, <1>2

\* A longer one is a flyable path and a usable step.
LEMMA FlyableStep ==
  ASSUME NEW gr, NEW c, NEW q, NEW v \in Vertex, Flyable(gr, c, q),
         PathUsable(gr, Append(q, v), c.bans), IsSimple(Append(q, v))
  PROVE  Flyable(gr, c, Append(q, v))
  <1> DEFINE p == Append(q, v)
  <1>1. q \in Seq(Vertex) /\ q # <<>> /\ Len(q) \in Nat /\ Len(q) >= 1
    BY EmptySeq DEF Flyable
  <1>2. p \in Seq(Vertex) /\ p # <<>> /\ Len(p) = Len(q) + 1
        /\ \A i \in 1..Len(q) : p[i] = q[i]
    BY <1>1, AppendProperties
  <1>3. p[1] = q[1] /\ DOMAIN p = 1..Len(p) /\ Len(p) >= 2
    BY <1>1, <1>2
  <1> HIDE DEF p
  <1>4. /\ \A i \in DOMAIN p : ~NodeBlocked(c.bans, p[i])
        /\ \A i \in 1..(Len(p) - 1) : ~EdgeBlocked(c.bans, p[i], p[i + 1])
                                      /\ Usable(gr, p[i], p[i + 1]) # {}
        /\ IsSimple(p)
    BY <1>3 DEF PathUsable, p
  <1>5. BuildSeedTable(c.sources)[p[1]] >= 0
    BY <1>3 DEF Flyable
  <1>6. Flyable(gr, c, p)
    BY <1>2, <1>3, <1>4, <1>5 DEF Flyable
  <1> QED BY <1>6 DEF p

LEMMA FlyableFront ==
  ASSUME NEW gr, NEW c, NEW p, Flyable(gr, c, p), Len(p) >= 2
  PROVE  \E q, v : /\ Flyable(gr, c, q) /\ v \in Vertex /\ p = Append(q, v) /\ Len(q) = Len(p) - 1
                   /\ PathUsable(gr, Append(q, v), c.bans)
  <1>1. p \in Seq(Vertex) /\ p # <<>> /\ Len(p) \in Nat /\ DOMAIN p = 1..Len(p)
        /\ \A i \in 1..Len(p) : p[i] \in Vertex
    BY LenProperties DEF Flyable
  <1> DEFINE n == Len(p) - 1
             q == SubSeq(p, 1, n)
             v == p[Len(p)]
  <1>2. q \in Seq(Vertex) /\ Len(q) = n /\ \A i \in 1..n : q[i] = p[i]
    BY <1>1, SubSeqProperties
  <1>3. v \in Vertex /\ n \in Nat /\ n >= 1 /\ n + 1 = Len(p)
    BY <1>1
  <1> HIDE DEF q, v
  <1>4. Append(q, v) = p
    <2>1. Append(q, v) \in Seq(Vertex) /\ Len(Append(q, v)) = n + 1
          /\ (\A i \in 1..n : Append(q, v)[i] = q[i]) /\ Append(q, v)[n + 1] = v
      BY <1>2, <1>3, AppendProperties
    <2>2. \A i \in 1..Len(p) : Append(q, v)[i] = p[i]
      BY <2>1, <1>2, <1>3 DEF v
    <2> QED BY <2>1, <2>2, <1>1, <1>3, SeqEqual
  <1>5. Flyable(gr, c, q)
    <2>1. q # <<>> /\ q[1] = p[1] /\ DOMAIN q = 1..n
      BY <1>2, <1>3
    <2>2. IsSimple(q)
      <3>1. \A i, j \in 1..Len(p) : p[i] = p[j] => i = j
        BY <1>1 DEF Flyable, IsSimple
      <3> QED BY <3>1, <2>1, <1>2, <1>3 DEF IsSimple
    <2>3. \A i \in 1..Len(q) : ~NodeBlocked(c.bans, q[i])
      BY <1>2, <1>3 DEF Flyable
    <2>4. ASSUME NEW i \in 1..(Len(q) - 1)
          PROVE  ~EdgeBlocked(c.bans, q[i], q[i + 1]) /\ Usable(gr, q[i], q[i + 1]) # {}
      <3>1. i \in 1..(Len(p) - 1) /\ q[i] = p[i] /\ q[i + 1] = p[i + 1]
        BY <1>2, <1>3
      <3> QED BY <3>1 DEF Flyable
    <2> QED BY <1>2, <2>1, <2>2, <2>3, <2>4 DEF Flyable
  <1>6. PathUsable(gr, p, c.bans)
    BY <1>1 DEF Flyable, PathUsable
  <1> QED BY <1>2, <1>3, <1>4, <1>5, <1>6

LEMMA UptoIs ==
  ASSUME NEW gr, NEW c, NEW N \in Nat, NEW f, IsUpto(f, gr, c, N)
  PROVE  \A p : p \in f[N] <=> Flyable(gr, c, p) /\ Len(p) <= N
  <1> DEFINE S == {k \in Nat : k <= N => \A p : p \in f[k] <=> Flyable(gr, c, p) /\ Len(p) <= k}
  <1>0. \A p : Flyable(gr, c, p) => Len(p) \in Nat /\ Len(p) >= 1
    BY EmptySeq DEF Flyable
  <1>1. 0 \in S
    <2>1. f[0] = {}
      BY DEF IsUpto
    <2> QED BY <2>1, <1>0
  <1>2. ASSUME NEW k \in Nat, k \in S PROVE k + 1 \in S
    <2> SUFFICES ASSUME k + 1 <= N, NEW p
                 PROVE  p \in f[k + 1] <=> Flyable(gr, c, p) /\ Len(p) <= k + 1
      OBVIOUS
    <2>1. \A q : q \in f[k] <=> Flyable(gr, c, q) /\ Len(q) <= k
      BY <1>2
    <2>2. f[k + 1] = Starts(c) \cup Longer(gr, c, f[k])
      <3>1. k + 1 \in 0..N /\ k + 1 # 0 /\ (k + 1) - 1 = k
        OBVIOUS
      <3>2. f[k + 1] = Starts(c) \cup Longer(gr, c, f[(k + 1) - 1])
        BY <3>1 DEF IsUpto
      <3> QED BY <3>1, <3>2
    <2>3. ASSUME p \in f[k + 1] PROVE Flyable(gr, c, p) /\ Len(p) <= k + 1
      <3>1. CASE p \in Starts(c)
        <4>1. Flyable(gr, c, p) /\ Len(p) = 1
          BY <3>1, FlyableStart
        <4> QED BY <4>1
      <3>2. CASE p \in Longer(gr, c, f[k])
        <4>1. PICK q, v : /\ q \in f[k] /\ v \in Vertex /\ PathUsable(gr, Append(q, v), c.bans)
                          /\ p = Append(q, v) /\ IsSimple(p)
          BY <3>2 DEF Longer
        <4>2. Flyable(gr, c, q) /\ Len(q) <= k
          BY <4>1, <2>1
        <4>3. Flyable(gr, c, p)
          BY <4>1, <4>2, FlyableStep
        <4>4. Len(p) = Len(q) + 1
          BY <4>1, <4>2, AppendProperties DEF Flyable
        <4> QED BY <4>2, <4>3, <4>4, <1>0
      <3> QED BY <2>2, <2>3, <3>1, <3>2
    <2>4. ASSUME Flyable(gr, c, p), Len(p) <= k + 1 PROVE p \in f[k + 1]
      <3>1. CASE Len(p) = 1
        BY <3>1, <2>4, <2>2, FlyableStart
      <3>2. CASE Len(p) # 1
        <4>1. Len(p) >= 2 /\ Len(p) \in Nat
          <5>1. PICK n \in Nat : n = Len(p) /\ n >= 1
            BY <2>4, <1>0
          <5>2. n # 1
            BY <3>2, <5>1
          <5>3. n >= 2
            BY <5>1, <5>2
          <5> QED BY <5>1, <5>3
        <4>2. PICK q, v : /\ Flyable(gr, c, q) /\ v \in Vertex /\ p = Append(q, v) /\ Len(q) = Len(p) - 1
                          /\ PathUsable(gr, Append(q, v), c.bans)
          BY <4>1, <2>4, FlyableFront
        <4>3. q \in f[k]
          BY <4>1, <4>2, <2>1, <2>4
        <4>4. IsSimple(p)
          BY <2>4 DEF Flyable
        <4>5. p \in Longer(gr, c, f[k])
          BY <4>2, <4>3, <4>4 DEF Longer
        <4> QED BY <2>2, <4>5
      <3> QED BY <3>1, <3>2
    <2> QED BY <2>3, <2>4
  <1> HIDE DEF S
  <1>3. N \in S
    BY <1>1, <1>2, NatSetInduction
  <1> QED BY <1>3 DEF S

\* A loopless path is no longer than there are vertices.
LEMMA SimpleIsShort ==
  ASSUME NEW p \in Seq(Vertex), IsSimple(p)
  PROVE  Len(p) <= Cardinality(Vertex)
  <1> SUFFICES ASSUME ~(Len(p) <= Cardinality(Vertex)) PROVE FALSE
    OBVIOUS
  <1>1. IsFiniteSet(1..Len(p)) /\ Cardinality(1..Len(p)) = Len(p) /\ Len(p) \in Nat
        /\ p \in [1..Len(p) -> Vertex] /\ Cardinality(Vertex) \in Nat
    <2>1. Len(p) \in Nat /\ p \in [1..Len(p) -> Vertex]
      BY LenProperties
    <2>2. IsFiniteSet(1..Len(p)) /\ Cardinality(1..Len(p)) = Len(p)
      <3>1. PICK n \in Nat : n = Len(p)
        BY <2>1
      <3>2. IsFiniteSet(1..n) /\ Cardinality(1..n) = n
        BY FS_Interval
      <3> QED BY <3>1, <3>2, SMTT(30)
    <2>3. Cardinality(Vertex) \in Nat
      BY VertexFinite, FS_CardinalityType
    <2> QED BY <2>1, <2>2, <2>3
  <1>2. \E i, j \in 1..Len(p) : i # j /\ p[i] = p[j]
    BY <1>1, VertexFinite, FS_PigeonHole
  <1> QED BY <1>1, <1>2 DEF IsSimple

LEMMA RoutesAre ==
  ASSUME NEW gr, NEW c, NEW p
  PROVE  p \in Routes(gr, c) <=> Flyable(gr, c, p) /\ c.goalSeed[p[Len(p)]] >= 0
  <1> DEFINE N == Cardinality(Vertex)
             f == CHOOSE f : IsUpto(f, gr, c, N)
  <1>1. N \in Nat
    BY VertexFinite, FS_CardinalityType
  <1>2. IsUpto(f, gr, c, N)
    BY <1>1, UptoExists
  <1>3. Routes(gr, c) = {q \in f[N] : c.goalSeed[q[Len(q)]] >= 0}
    BY DEF Routes, IsUpto, Starts, Longer
  <1> HIDE DEF f
  <1>4. p \in f[N] <=> Flyable(gr, c, p) /\ Len(p) <= N
    BY <1>1, <1>2, UptoIs
  <1>5. Flyable(gr, c, p) => Len(p) <= N
    BY SimpleIsShort DEF Flyable
  <1> QED BY <1>3, <1>4, <1>5

(***************************************************************************)
(* The invariant of a running search.                                      *)
(***************************************************************************)
\* Arguments a search can be called with: a goal of the table is a listed goal.
CallOK(c) ==
    /\ c.sources \in Seq(SeededEndpoint)
    /\ c.goals \in Seq(SeededEndpoint)
    /\ c.goalSeed \in [Vertex -> Nat \cup {-1}]
    /\ c.sourceBearing \in [Vertex -> Heading]
    /\ c.goalBearing \in [Vertex -> Heading]
    /\ c.turn \in BOOLEAN
    /\ \A v \in Vertex : c.goalSeed[v] >= 0 =>
          \E i \in AtVertex(c.goals, v) : c.goals[i].cost <= c.goalSeed[v]

Types ==
    /\ IsGraph(graph)
    /\ CallOK(call)
    /\ AStarTypeOK
    /\ result.found \in BOOLEAN

\* How far the sources have been seeded, and how far w's row has been looked at.
SeedBound   == IF pc = "seed" THEN cursor ELSE Len(call.sources) + 1
RowBound(w) == IF pc = "relax" /\ w = u THEN cursor ELSE Len(graph[w]) + 1

HeadingTo(w, v) == IF call.turn THEN BearingTo[w][v] ELSE kNoBearing

\* What the j-th edge out of w adds to the cost of reaching w.
StepCost(w, j) ==
    EdgeCost(graph[w][j]) + TurnCost(call.turn, inbound[w], HeadingTo(w, graph[w][j].to))

CanStep(w, j) ==
    /\ ~NodeBlocked(call.bans, graph[w][j].to)
    /\ ~EdgeBlocked(call.bans, w, graph[w][j].to)
    /\ graph[w][j].allowed

\* Every listed source is seeded, at no more than its cost.
Seeds ==
    \A i \in DOMAIN call.sources :
       (i < SeedBound /\ call.sources[i].vertex \in Vertex
          /\ ~NodeBlocked(call.bans, call.sources[i].vertex)) =>
          /\ Live(call.sources[i].vertex)
          /\ g[call.sources[i].vertex] <= call.sources[i].cost

FromSeed(v) ==
    /\ prev[v] = kNoVertex
    /\ geo[v] = g[v]
    /\ inbound[v] = call.sourceBearing[v]
    /\ \E i \in AtVertex(call.sources, v) : call.sources[i].cost = g[v]

FirstScanned(w, v, j) ==
    /\ j \in Usable(graph, w, v)
    /\ j < RowBound(w)
    /\ \A i \in Usable(graph, w, v) : i < RowBound(w) =>
          \/ EdgeCost(graph[w][j]) < EdgeCost(graph[w][i])
          \/ EdgeCost(graph[w][j]) = EdgeCost(graph[w][i]) /\ j <= i

\* v was reached from w by the first cheapest of the edges looked at.
FromStep(v, w) ==
    /\ prev[v] = w
    /\ Closed(w)
    /\ ~EdgeBlocked(call.bans, w, v)
    /\ inbound[v] = HeadingTo(w, v)
    /\ \E j \in DOMAIN graph[w] :
          /\ FirstScanned(w, v, j)
          /\ g[v] = g[w] + StepCost(w, j)
          /\ geo[v] = geo[w] + graph[w][j].distance_nm

Parents ==
    \A v \in Vertex : Live(v) =>
       /\ ~NodeBlocked(call.bans, v)
       /\ FromSeed(v) \/ \E w \in Vertex : FromStep(v, w)

\* The predecessors of v: a loopless path of closed vertices before it.
ChainTo(v, p) ==
    /\ p \in Seq(Vertex)
    /\ p # <<>>
    /\ p[Len(p)] = v
    /\ IsSimple(p)
    /\ prev[p[1]] = kNoVertex
    /\ \A i \in 1..(Len(p) - 1) : Closed(p[i]) /\ prev[p[i + 1]] = p[i]

Chains == \A v \in Vertex : Live(v) => \E p : ChainTo(v, p)

ClosedLive ==
    \A v \in Vertex : Closed(v) => Live(v) /\ pc # "seed" /\ InRange(call.goals) # {}

\* An edge that has been looked at has had its effect.
Scans ==
    \A w \in Vertex : Closed(w) =>
       \A j \in DOMAIN graph[w] :
          (j < RowBound(w) /\ CanStep(w, j)) =>
             /\ Live(graph[w][j].to)
             /\ g[graph[w][j].to] <= g[w] + StepCost(w, j)

Key(v) == Plus(g[v], Heuristic(v))

\* The open set holds every vertex that is reached and not closed, with its key.
Opens ==
    /\ \A o \in open : Live(o.vertex) /\ ~Below(o.f, Key(o.vertex))
    /\ pc # "walk" => \A v \in Vertex :
          (Live(v) /\ ~Closed(v)) => [f |-> Key(v), vertex |-> v] \in open

\* Vertices are closed in the order of their keys.
Keys ==
    /\ \A w \in Vertex : Closed(w) => \A o \in open : ~Below(o.f, Key(w))
    /\ pc = "relax" => Closed(u) /\ \A w \in Vertex : Closed(w) => ~Below(Key(u), Key(w))

BestSoFar ==
    /\ bestGoal = kNoVertex => bestTotal = kInfinity
    /\ bestGoal # kNoVertex =>
          Closed(bestGoal) /\ call.goalSeed[bestGoal] >= 0 /\ bestTotal = TotalAt(bestGoal)
    /\ \A v \in Vertex : (Closed(v) /\ call.goalSeed[v] >= 0) =>
          bestGoal # kNoVertex /\ ~Below(TotalAt(v), bestTotal)

SearchInv ==
    /\ Seeds /\ Parents /\ Chains /\ ClosedLive /\ Scans /\ Opens /\ Keys /\ BestSoFar

\* A goal was found: it is the cheapest way there is without turns.
Settled ==
    ~call.turn => \A p \in Routes(graph, call) : bestTotal <= RouteCost(graph, call, p)

\* The walk back has collected the end of the chain to the best goal.
Walking ==
    /\ bestGoal # kNoVertex
    /\ Settled
    /\ \E p, m : /\ ChainTo(bestGoal, p)
                 /\ m \in 0..Len(p)
                 /\ result = [NotFound EXCEPT !.vertices = SubSeq(p, m + 1, Len(p))]
                 /\ u = IF m = 0 THEN kNoVertex ELSE p[m]

Busy == pc \in {"seed", "pop", "relax", "walk"}

AInv ==
    /\ Types
    /\ Busy => SearchInv /\ result.vertices \in Seq(Vertex) /\ ~result.found
    /\ pc \in {"seed", "pop", "relax"} => result = NotFound
    /\ pc = "walk" => Walking
    /\ pc = "done" => /\ AnswerIsTrue
                      /\ ShortestFound
                      /\ result.vertices \in Seq(Vertex)

(***************************************************************************)
(* Facts every step uses.                                                  *)
(***************************************************************************)
Cost == Nat \cup {kInfinity}

LEMMA HeuristicCost ==
  ASSUME CallOK(call), NEW v \in Vertex
  PROVE  /\ Heuristic(v) \in Cost
         /\ InRange(call.goals) # {} => Heuristic(v) \in Nat
         /\ InRange(call.goals) = {} => Heuristic(v) = kInfinity
         /\ call.goalSeed[v] >= 0 => InRange(call.goals) # {} /\ Heuristic(v) <= call.goalSeed[v]
  <1>1. call.goals \in Seq(SeededEndpoint) /\ call.goalSeed[v] \in Nat \cup {-1}
    BY DEF CallOK
  <1>2. /\ InRange(call.goals) # {} => Heuristic(v) \in Nat
        /\ InRange(call.goals) = {} => Heuristic(v) = kInfinity
    BY <1>1, HeuristicFacts DEF Heuristic
  <1>3. ASSUME call.goalSeed[v] >= 0
        PROVE  InRange(call.goals) # {} /\ Heuristic(v) <= call.goalSeed[v]
    <2>1. PICK i \in AtVertex(call.goals, v) : call.goals[i].cost <= call.goalSeed[v]
      BY <1>3 DEF CallOK
    <2>2. InRange(call.goals) # {} /\ Heuristic(v) <= call.goals[i].cost
      BY <1>1, HeuristicFacts DEF Heuristic
    <2>3. call.goals[i].cost \in Nat
      BY <1>1, EndpointFacts DEF AtVertex
    <2> QED BY <1>1, <1>2, <2>1, <2>2, <2>3
  <1> QED BY <1>2, <1>3 DEF Cost

\* A step never takes more off the bound than it costs.
LEMMA Consistent ==
  ASSUME CallOK(call), NEW v \in Vertex, NEW w \in Vertex, InRange(call.goals) # {}
  PROVE  Heuristic(v) \in Nat /\ Heuristic(w) \in Nat /\ Heuristic(v) <= Chord[v][w] + Heuristic(w)
  BY HeuristicFacts DEF Heuristic, CallOK

\* What a search knows of the headings at a vertex.
LEMMA HeadingsKnown ==
  ASSUME Types, NEW v \in Vertex
  PROVE  /\ inbound[v] \in Heading /\ call.goalBearing[v] \in Heading
         /\ call.sourceBearing[v] \in Heading /\ call.turn \in BOOLEAN
  <1>1. inbound \in [Vertex -> Heading]
    BY Zenon DEF Types, AStarTypeOK, Heading
  <1>2. /\ call.goalBearing \in [Vertex -> Heading] /\ call.sourceBearing \in [Vertex -> Heading]
        /\ call.turn \in BOOLEAN
    BY Zenon DEF Types, CallOK
  <1> QED BY <1>1, <1>2, Zenon

LEMMA StepNat ==
  ASSUME Types, NEW w \in Vertex, NEW j \in DOMAIN graph[w]
  PROVE  /\ StepCost(w, j) \in Nat
         /\ EdgeCost(graph[w][j]) \in Nat
         /\ EdgeCost(graph[w][j]) <= StepCost(w, j)
         /\ graph[w][j].to \in Vertex
         /\ graph[w][j].distance_nm \in Nat
         /\ HeadingTo(w, graph[w][j].to) \in Heading
         /\ InRange(call.goals) # {} =>
               Heuristic(w) <= StepCost(w, j) + Heuristic(graph[w][j].to)
  <1>1. /\ graph[w][j].to \in Vertex /\ EdgeCost(graph[w][j]) \in Nat
        /\ graph[w][j].distance_nm \in Nat
        /\ Chord[w][graph[w][j].to] \in Nat
        /\ Chord[w][graph[w][j].to] <= EdgeCost(graph[w][j])
    BY RowFacts DEF Types
  <1>2. inbound[w] \in Heading /\ call.turn \in BOOLEAN
    BY HeadingsKnown, Zenon
  <1>3. PICK x \in Vertex : x = graph[w][j].to
    BY <1>1
  <1>4. HeadingTo(w, x) \in Heading
    BY BearingAssumption DEF HeadingTo, Heading
  <1>5. TurnCost(call.turn, inbound[w], HeadingTo(w, x)) \in Nat
    BY <1>2, <1>4, TurnNat
  <1>6. StepCost(w, j) \in Nat /\ EdgeCost(graph[w][j]) <= StepCost(w, j)
    BY <1>1, <1>3, <1>5 DEF StepCost
  <1>7. ASSUME InRange(call.goals) # {} PROVE Heuristic(w) <= StepCost(w, j) + Heuristic(x)
    <2>1. Heuristic(w) \in Nat /\ Heuristic(x) \in Nat /\ Heuristic(w) <= Chord[w][x] + Heuristic(x)
      BY <1>7, Consistent DEF Types
    <2> QED BY <2>1, <1>1, <1>3, <1>6
  <1> QED BY <1>1, <1>3, <1>4, <1>6, <1>7

\* What Relax changes and what it leaves alone.
LEMMA RelaxFacts ==
  ASSUME Types, NEW x \in Vertex, NEW cost, NEW dist, NEW from, NEW heading,
         Relax(x, cost, dist, from, heading)
  PROVE  /\ Live(x)' /\ g'[x] = cost /\ geo'[x] = dist /\ prev'[x] = from /\ inbound'[x] = heading
         /\ \A v \in Vertex \ {x} :
               /\ Live(v)' <=> Live(v)
               /\ g'[v] = g[v] /\ geo'[v] = geo[v] /\ prev'[v] = prev[v] /\ inbound'[v] = inbound[v]
         /\ \A v \in Vertex : Live(v) => Live(v)'
         /\ \A v \in Vertex : Closed(v)' <=> Closed(v)
  BY DEF Types, AStarTypeOK, Relax, Live, Closed

\* A reached vertex has a cost, and so a key.
LEMMA KeyCost ==
  ASSUME Types, NEW v \in Vertex
  PROVE  /\ g[v] \in Nat /\ Key(v) \in Cost
         /\ InRange(call.goals) # {} => Key(v) = g[v] + Heuristic(v) /\ Key(v) \in Nat
  <1>1. g[v] \in Nat
    BY DEF Types, AStarTypeOK
  <1>2. Heuristic(v) \in Cost /\ (InRange(call.goals) # {} => Heuristic(v) \in Nat)
    BY HeuristicCost DEF Types
  <1> QED BY <1>1, <1>2 DEF Key, Plus, Cost, kInfinity

\* A vertex that is not closed is reached at a lower cost: what the open set and
\* the order of closing need.
LEMMA RelaxKeeps ==
  ASSUME Types, Opens, Keys, BestSoFar, ClosedLive, pc # "walk",
         NEW x \in Vertex, ~Closed(x), NEW cost \in Nat, Below(cost, G(x)),
         NEW dist, NEW from, NEW heading,
         Relax(x, cost, dist, from, heading), Push(x, cost),
         graph' = graph, call' = call, pc' = pc, u' = u,
         bestTotal' = bestTotal, bestGoal' = bestGoal,
         \A w \in Vertex : Closed(w) => ~Below(Plus(cost, Heuristic(x)), Key(w))
  PROVE  Opens' /\ Keys' /\ BestSoFar' /\ ClosedLive'
  <1> USE RelaxFacts
  <1>1. \A v \in Vertex : Heuristic(v)' = Heuristic(v)
    BY DEF Heuristic
  <1>2. /\ \A v \in Vertex \ {x} : Key(v)' = Key(v)
        /\ Key(x)' = Plus(cost, Heuristic(x))
    BY <1>1 DEF Key
  <1>3. \A v \in Vertex : Closed(v) => v # x
    OBVIOUS
  <1>4. Heuristic(x) \in Cost /\ g[x] \in Nat
    BY HeuristicCost, KeyCost DEF Types
  <1>5. Live(x) => ~Below(Key(x), Key(x)')
    BY <1>2, <1>4 DEF Key, Plus, Below, Cost, kInfinity, G
  <1>6. open' = open \cup {[f |-> Key(x)', vertex |-> x]}
    BY <1>2 DEF Push
  <1>7. \A o \in open : o.f \in Cost /\ o.vertex \in Vertex
    BY DEF Types, AStarTypeOK, Cost
  <1>8. Opens'
    <2>1. ASSUME NEW o \in open' PROVE Live(o.vertex)' /\ ~Below(o.f, Key(o.vertex)')
      <3>1. CASE o \in open /\ o.vertex # x
        BY <3>1, <1>2, <1>7 DEF Opens
      <3>2. CASE o \in open /\ o.vertex = x
        <4>1. Live(x) /\ ~Below(o.f, Key(x)) /\ Key(x) \in Cost /\ Key(x)' \in Cost /\ o.f \in Cost
          <5>1. Key(x)' \in Cost
            BY <1>2, <1>4 DEF Plus, Cost, kInfinity
          <5> QED BY <5>1, <3>2, <1>7, KeyCost DEF Opens
        <4>2. ~Below(o.f, Key(x)')
          BY <4>1, <1>5 DEF Below, Cost, kInfinity
        <4> QED BY <4>2, <3>2
      <3>3. CASE o = [f |-> Key(x)', vertex |-> x]
        <4>1. Key(x)' \in Cost
          BY <1>2, <1>4 DEF Plus, Cost, kInfinity
        <4> QED BY <3>3, <4>1 DEF Below, Cost, kInfinity
      <3> QED BY <1>6, <3>1, <3>2, <3>3
    <2>2. ASSUME NEW v \in Vertex, Live(v)', ~Closed(v)'
          PROVE  [f |-> Key(v)', vertex |-> v] \in open'
      <3>1. CASE v = x
        BY <3>1, <1>6
      <3>2. CASE v # x
        BY <3>2, <2>2, <1>2, <1>6 DEF Opens
      <3> QED BY <3>1, <3>2
    <2> QED BY <2>1, <2>2 DEF Opens
  <1>9. Keys'
    <2>1. ASSUME NEW w \in Vertex, Closed(w)', NEW o \in open' PROVE ~Below(o.f, Key(w)')
      <3>1. Closed(w) /\ Key(w)' = Key(w)
        BY <2>1, <1>2, <1>3
      <3>2. CASE o \in open
        BY <3>1, <3>2 DEF Keys
      <3>3. CASE o = [f |-> Key(x)', vertex |-> x]
        BY <3>1, <3>3, <1>2
      <3> QED BY <1>6, <3>2, <3>3
    <2>2. ASSUME pc' = "relax"
          PROVE  Closed(u)' /\ \A w \in Vertex : Closed(w)' => ~Below(Key(u)', Key(w)')
      <3>1. u \in Vertex /\ Closed(u) /\ \A w \in Vertex : Closed(w) => ~Below(Key(u), Key(w))
        BY <2>2 DEF Keys, Types, AStarTypeOK
      <3>2. Key(u)' = Key(u)
        BY <3>1, <1>1, <1>2, <1>3 DEF Key
      <3>3. Closed(u)'
        BY <3>1 DEF Closed, Relax
      <3>4. ASSUME NEW w \in Vertex, Closed(w)' PROVE ~Below(Key(u)', Key(w)')
        BY <3>1, <3>2, <3>4, <1>2, <1>3
      <3> QED BY <3>3, <3>4
    <2> QED BY <2>1, <2>2 DEF Keys
  <1>10. \A v \in Vertex : Closed(v) => TotalAt(v)' = TotalAt(v)
    BY <1>3 DEF TotalAt, G, Inbound, ClosedLive
  <1>11. BestSoFar'
    <2>1. bestGoal # kNoVertex => bestGoal \in Vertex
      BY DEF Types, AStarTypeOK
    <2> QED BY <2>1, <1>10 DEF BestSoFar
  <1>12. ClosedLive'
    BY DEF ClosedLive
  <1> QED BY <1>8, <1>9, <1>11, <1>12

(***************************************************************************)
(* Seeding.                                                                *)
(***************************************************************************)
\* A vertex without a predecessor is a chain of its own.
LEMMA ChainOfOne ==
  ASSUME NEW v \in Vertex, prev[v] = kNoVertex
  PROVE  ChainTo(v, <<v>>)
  <1>1. <<v>> \in Seq(Vertex) /\ Len(<<v>>) = 1 /\ <<v>>[1] = v /\ <<v>> # <<>> /\ DOMAIN <<v>> = 1..1
    OBVIOUS
  <1> QED BY <1>1 DEF ChainTo, IsSimple

LEMMA SeedKeeps ==
  ASSUME AInv, SeedSource
  PROVE  AInv'
  <1>1. /\ pc = "seed" /\ pc' = pc /\ call' = call /\ graph' = graph /\ u' = u
        /\ cursor' = cursor + 1 /\ cursor \in DOMAIN call.sources
        /\ bestTotal' = bestTotal /\ bestGoal' = bestGoal /\ result' = result
        /\ Types /\ SearchInv
    <2>1. pc = "seed" /\ Types /\ SearchInv
      BY DEF SeedSource, AInv, Busy
    <2>2. cursor \in DOMAIN call.sources
      BY <2>1, EndpointFacts DEF SeedSource, Types, AStarTypeOK, CallOK
    <2> QED BY <2>1, <2>2 DEF SeedSource
  <1>s. PICK s \in SeededEndpoint : s = call.sources[cursor]
    BY <1>1, EndpointFacts DEF Types, CallOK
  <1>2. /\ s.vertex \in Vertex \cup {kNoVertex} /\ s.cost \in Nat
        /\ cursor \in Nat /\ cursor >= 1 /\ DOMAIN call.sources = 1..Len(call.sources)
    BY <1>1, <1>s, EndpointFacts DEF Types, CallOK, AStarTypeOK
  <1>3. \A v \in Vertex : ~Closed(v)
    BY <1>1 DEF SearchInv, ClosedLive
  <1>4. \A v \in Vertex : Live(v) => FromSeed(v) /\ ~NodeBlocked(call.bans, v)
    BY <1>1, <1>3 DEF SearchInv, Parents, FromStep
  <1>5. CASE Seedable(s)
    <2> DEFINE x == s.vertex
    <2>1. /\ x \in Vertex /\ ~NodeBlocked(call.bans, x) /\ Below(s.cost, G(x))
          /\ Relax(x, s.cost, s.cost, kNoVertex, call.sourceBearing[x]) /\ Push(x, s.cost)
      BY <1>5, <1>s DEF SeedSource, Seedable
    <2> HIDE DEF x
    <2>2. Opens' /\ Keys' /\ BestSoFar' /\ ClosedLive'
      BY <1>1, <1>2, <1>3, <2>1, RelaxKeeps DEF SearchInv
    <2>3. /\ Live(x)' /\ g'[x] = s.cost /\ geo'[x] = s.cost /\ prev'[x] = kNoVertex
          /\ inbound'[x] = call.sourceBearing[x]
          /\ \A v \in Vertex \ {x} :
               /\ Live(v)' <=> Live(v)
               /\ g'[v] = g[v] /\ geo'[v] = geo[v] /\ prev'[v] = prev[v] /\ inbound'[v] = inbound[v]
          /\ \A v \in Vertex : Live(v) => Live(v)'
          /\ \A v \in Vertex : ~Closed(v)'
      BY <1>1, <1>3, <2>1, RelaxFacts
    <2>4. \A v \in Vertex : Live(v)' => FromSeed(v)' /\ ~NodeBlocked(call.bans, v)
      <3>1. FromSeed(x)'
        <4>1. cursor \in AtVertex(call.sources, x)
          BY <1>1, <1>s DEF AtVertex, x
        <4> QED BY <4>1, <2>3, <1>1, <1>s DEF FromSeed
      <3>2. ASSUME NEW v \in Vertex \ {x}, Live(v)' PROVE FromSeed(v)' /\ ~NodeBlocked(call.bans, v)
        BY <3>2, <2>3, <1>4, <1>1 DEF FromSeed
      <3> QED BY <3>1, <3>2, <2>1
    <2>5. Parents'
      BY <2>4, <1>1 DEF Parents
    <2>6. Chains'
      <3>1. ASSUME NEW v \in Vertex, Live(v)' PROVE ChainTo(v, <<v>>)'
        <4>1. prev'[v] = kNoVertex
          BY <3>1, <2>4 DEF FromSeed
        <4>2. <<v>> \in Seq(Vertex) /\ Len(<<v>>) = 1 /\ <<v>>[1] = v /\ <<v>> # <<>> /\ DOMAIN <<v>> = 1..1
          OBVIOUS
        <4> QED BY <4>1, <4>2 DEF ChainTo, IsSimple
      <3> QED BY <3>1 DEF Chains
    <2>7. Scans'
      BY <2>3 DEF Scans
    <2>8. Seeds'
      <3> SUFFICES ASSUME NEW i \in DOMAIN call.sources, i < cursor + 1, NEW y \in Vertex,
                          call.sources[i].vertex = y, ~NodeBlocked(call.bans, y)
                   PROVE  Live(y)' /\ g'[y] <= call.sources[i].cost
        BY <1>1 DEF Seeds, SeedBound
      <3>1. CASE i = cursor
        BY <3>1, <2>3, <1>2, <1>s DEF x
      <3>2. CASE i # cursor
        <4>1. i < cursor
          BY <3>2, <1>2
        <4>2. Live(y) /\ g[y] <= call.sources[i].cost
          BY <4>1, <1>1 DEF SearchInv, Seeds, SeedBound
        <4>3. CASE y = x
          <5>1. s.cost <= g[x] /\ g[x] \in Nat
            BY <4>2, <4>3, <2>1, <1>1, <1>2, KeyCost DEF Below, G, kInfinity
          <5>2. call.sources[i].cost \in Nat
            BY <1>1, EndpointFacts DEF Types, CallOK
          <5> QED BY <5>1, <5>2, <4>2, <4>3, <2>3, <1>2
        <4>4. CASE y # x
          BY <4>2, <4>4, <2>3
        <4> QED BY <4>3, <4>4
      <3> QED BY <3>1, <3>2
    <2>9. Types'
      <3>1. CallOK(call)' /\ IsGraph(graph)' /\ result'.found \in BOOLEAN
        BY <1>1 DEF Types
      <3>2. /\ g' \in [Vertex -> Nat] /\ geo' \in [Vertex -> Nat]
            /\ prev' \in [Vertex -> Vertex \cup {kNoVertex}]
            /\ stamp' \in [Vertex -> 0..generation'] /\ closedStamp' \in [Vertex -> 0..generation']
            /\ generation' \in Nat
        BY <1>1, <1>2, <2>1, SMTT(40) DEF Types, AStarTypeOK, Relax
      <3>3. inbound' \in [Vertex -> (0..359) \cup {kNoBearing}]
        <4>1. call.sourceBearing[x] \in (0..359) \cup {kNoBearing}
          BY <1>1, <2>1, ZenonT(60) DEF Types, CallOK, Heading
        <4> QED BY <4>1, <1>1, <2>1 DEF Types, AStarTypeOK, Relax
      <3>4. \A o \in open' : o.f \in Nat \cup {kInfinity} /\ o.vertex \in Vertex
        <4>1. Plus(s.cost, Heuristic(x)) \in Nat \cup {kInfinity}
          BY <1>1, <1>2, <2>1, HeuristicCost DEF Types, Plus, Cost, kInfinity
        <4> QED BY <4>1, <1>1, <2>1 DEF Push, Types, AStarTypeOK
      <3>5. /\ pc' \in {"idle", "seed", "pop", "relax", "walk", "done"} /\ pc' # "relax"
            /\ cursor' \in Nat \ {0} /\ u' \in Vertex \cup {kNoVertex}
            /\ bestTotal' \in Nat \cup {kInfinity} /\ bestGoal' \in Vertex \cup {kNoVertex}
        BY <1>1, <1>2 DEF Types, AStarTypeOK
      <3>6. AStarTypeOK'
        BY <3>2, <3>3, <3>4, <3>5 DEF AStarTypeOK
      <3> QED BY <3>1, <3>6 DEF Types
    <2> QED BY <1>1, <2>2, <2>5, <2>6, <2>7, <2>8, <2>9 DEF AInv, Busy, SearchInv
  <1>6. CASE ~Seedable(s)
    <2>1. UNCHANGED <<wsVars, open>>
      BY <1>6, <1>s DEF SeedSource
    <2>2. UNCHANGED <<g, geo, prev, inbound, stamp, closedStamp, generation>>
      BY <2>1 DEF wsVars
    <2>3. \A v \in Vertex : /\ Live(v)' <=> Live(v)
                            /\ Closed(v)' <=> Closed(v)
                            /\ Key(v)' = Key(v)
                            /\ TotalAt(v)' = TotalAt(v)
      BY <2>2, <1>1 DEF Live, Closed, Key, Heuristic, TotalAt, G, Inbound
    <2>4. Seeds'
      <3> SUFFICES ASSUME NEW i \in DOMAIN call.sources, i < cursor + 1, NEW y \in Vertex,
                          call.sources[i].vertex = y, ~NodeBlocked(call.bans, y)
                   PROVE  Live(y)' /\ g'[y] <= call.sources[i].cost
        BY <1>1 DEF Seeds, SeedBound
      <3>1. CASE i = cursor
        <4>1. ~Below(s.cost, G(s.vertex)) /\ s.vertex \in Vertex
          BY <3>1, <1>6, <1>s DEF Seedable
        <4>2. g[s.vertex] \in Nat
          BY <4>1, <1>1, KeyCost
        <4>3. Live(s.vertex) /\ g[s.vertex] <= s.cost
          BY <4>1, <4>2, <1>2 DEF Below, G, kInfinity
        <4> QED BY <4>1, <4>3, <3>1, <2>2, <2>3, <1>s
      <3>2. CASE i # cursor
        <4>1. i < cursor
          BY <3>2, <1>2
        <4>2. Live(y) /\ g[y] <= call.sources[i].cost
          BY <4>1, <1>1 DEF SearchInv, Seeds, SeedBound
        <4> QED BY <4>2, <2>2, <2>3
      <3> QED BY <3>1, <3>2
    <2>5. Parents'
      BY <1>1, <1>4, <2>2, <2>3 DEF Parents, FromSeed
    <2>6. Chains' /\ ClosedLive' /\ Scans'
      BY <1>1, <1>3, <2>2, <2>3 DEF SearchInv, Chains, ChainTo, ClosedLive, Scans
    <2>7. Opens'
      BY <1>1, <2>1, <2>3 DEF SearchInv, Opens, Types, AStarTypeOK
    <2>8. Keys'
      BY <1>1, <1>3, <2>3 DEF Keys
    <2>9. BestSoFar'
      <3>1. bestGoal # kNoVertex => bestGoal \in Vertex
        BY <1>1 DEF Types, AStarTypeOK
      <3> QED BY <3>1, <1>1, <2>3 DEF SearchInv, BestSoFar
    <2>10. Types'
      <3>1. CallOK(call)' /\ IsGraph(graph)' /\ result'.found \in BOOLEAN
        BY <1>1 DEF Types
      <3>2. AStarTypeOK'
        <4>1. /\ g' \in [Vertex -> Nat] /\ geo' \in [Vertex -> Nat]
              /\ prev' \in [Vertex -> Vertex \cup {kNoVertex}]
              /\ inbound' \in [Vertex -> (0..359) \cup {kNoBearing}]
              /\ stamp' \in [Vertex -> 0..generation'] /\ closedStamp' \in [Vertex -> 0..generation']
              /\ generation' \in Nat
              /\ \A o \in open' : o.f \in Nat \cup {kInfinity} /\ o.vertex \in Vertex
          BY <1>1, <2>1, <2>2 DEF Types, AStarTypeOK
        <4>2. /\ pc' \in {"idle", "seed", "pop", "relax", "walk", "done"} /\ pc' # "relax"
              /\ cursor' \in Nat \ {0} /\ u' \in Vertex \cup {kNoVertex}
              /\ bestTotal' \in Nat \cup {kInfinity} /\ bestGoal' \in Vertex \cup {kNoVertex}
          BY <1>1, <1>2 DEF Types, AStarTypeOK
        <4> QED BY <4>1, <4>2 DEF AStarTypeOK
      <3> QED BY <3>1, <3>2 DEF Types
    <2> QED BY <1>1, <2>4, <2>5, <2>6, <2>7, <2>8, <2>9, <2>10 DEF AInv, Busy, SearchInv
  <1> QED BY <1>5, <1>6

(***************************************************************************)
(* Steps that leave the workspace alone.                                   *)
(***************************************************************************)
LEMMA FrameKeeps ==
  ASSUME Types, Seeds, Parents, Chains, ClosedLive, Scans, BestSoFar,
         UNCHANGED <<graph, call, g, geo, prev, inbound, stamp, closedStamp, generation,
                     bestTotal, bestGoal>>,
         pc' # "seed",
         \A i \in DOMAIN call.sources : i < SeedBound' => i < SeedBound,
         \A w \in Vertex : \A j \in DOMAIN graph[w] : j < RowBound(w)' <=> j < RowBound(w)
  PROVE  /\ Seeds' /\ Parents' /\ Chains' /\ ClosedLive' /\ Scans' /\ BestSoFar'
         /\ \A v \in Vertex : /\ Live(v)' <=> Live(v)
                              /\ Closed(v)' <=> Closed(v)
                              /\ Key(v)' = Key(v)
                              /\ TotalAt(v)' = TotalAt(v)
  <1>1. \A v \in Vertex : /\ Live(v)' <=> Live(v)
                          /\ Closed(v)' <=> Closed(v)
                          /\ Key(v)' = Key(v)
                          /\ TotalAt(v)' = TotalAt(v)
    BY DEF Live, Closed, Key, Heuristic, TotalAt, G, Inbound
  <1>2. Seeds'
    <2> SUFFICES ASSUME NEW i \in DOMAIN call.sources, i < SeedBound', NEW y \in Vertex,
                        call.sources[i].vertex = y, ~NodeBlocked(call.bans, y)
                 PROVE  Live(y)' /\ g'[y] <= call.sources[i].cost
      BY DEF Seeds
    <2>1. Live(y) /\ g[y] <= call.sources[i].cost
      BY DEF Seeds
    <2> QED BY <2>1, <1>1
  <1>3. Parents'
    <2>1. ASSUME NEW v \in Vertex, FromSeed(v) PROVE FromSeed(v)'
      BY <2>1 DEF FromSeed
    <2>2. ASSUME NEW v \in Vertex, NEW w \in Vertex, FromStep(v, w) PROVE FromStep(v, w)'
      <3>1. PICK j \in DOMAIN graph[w] : /\ FirstScanned(w, v, j)
                                         /\ g[v] = g[w] + StepCost(w, j)
                                         /\ geo[v] = geo[w] + graph[w][j].distance_nm
        BY <2>2 DEF FromStep
      <3>2. FirstScanned(w, v, j)'
        <4>1. Usable(graph, w, v)' = Usable(graph, w, v) /\ Usable(graph, w, v) \subseteq DOMAIN graph[w]
          BY DEF Usable
        <4> QED BY <3>1, <4>1 DEF FirstScanned
      <3>3. StepCost(w, j)' = StepCost(w, j) /\ HeadingTo(w, v)' = HeadingTo(w, v)
        BY DEF StepCost, HeadingTo
      <3>4. /\ prev'[v] = w /\ Closed(w)' /\ ~EdgeBlocked(call.bans, w, v)'
            /\ inbound'[v] = HeadingTo(w, v)'
        BY <2>2, <3>3, <1>1 DEF FromStep
      <3> QED BY <3>1, <3>2, <3>3, <3>4 DEF FromStep
    <2> QED BY <1>1, <2>1, <2>2 DEF Parents
  <1>4. Chains'
    <2>1. ASSUME NEW v, NEW p, ChainTo(v, p) PROVE ChainTo(v, p)'
      <3>1. \A i \in 1..(Len(p) - 1) : Closed(p[i])' <=> Closed(p[i])
        BY DEF Closed
      <3> QED BY <2>1, <3>1 DEF ChainTo
    <2> QED BY <1>1, <2>1 DEF Chains
  <1>5. ClosedLive'
    BY <1>1 DEF ClosedLive
  <1>6. Scans'
    <2> SUFFICES ASSUME NEW w \in Vertex, Closed(w), NEW j \in DOMAIN graph[w], j < RowBound(w),
                        CanStep(w, j), NEW y \in Vertex, graph[w][j].to = y
                 PROVE  Live(y)' /\ g'[y] <= g'[w] + StepCost(w, j)'
      <3>1. \A w \in Vertex : \A j \in DOMAIN graph[w] : graph[w][j].to \in Vertex
        BY RowFacts DEF Types
      <3>2. \A w, j : CanStep(w, j)' <=> CanStep(w, j)
        BY DEF CanStep
      <3> QED BY <3>1, <3>2, <1>1 DEF Scans
    <2>1. Live(y) /\ g[y] <= g[w] + StepCost(w, j)
      BY DEF Scans
    <2>2. StepCost(w, j)' = StepCost(w, j)
      BY DEF StepCost, HeadingTo
    <2> QED BY <2>1, <2>2, <1>1
  <1>7. BestSoFar'
    <2>1. bestGoal # kNoVertex => bestGoal \in Vertex
      BY DEF Types, AStarTypeOK
    <2> QED BY <2>1, <1>1 DEF BestSoFar
  <1> QED BY <1>1, <1>2, <1>3, <1>4, <1>5, <1>6, <1>7

LEMMA SeedsDoneKeeps ==
  ASSUME AInv, SeedsDone
  PROVE  AInv'
  <1>1. /\ pc = "seed" /\ pc' = "pop" /\ Types /\ SearchInv /\ cursor > Len(call.sources)
        /\ UNCHANGED <<graph, call, g, geo, prev, inbound, stamp, closedStamp, generation,
                       open, cursor, u, bestTotal, bestGoal, result>>
    BY DEF SeedsDone, AInv, Busy, wsVars
  <1>2. \A i \in DOMAIN call.sources : i < SeedBound
    BY <1>1, EndpointFacts DEF SeedBound, Types, CallOK, AStarTypeOK
  <1>3. \A w \in Vertex : \A j \in DOMAIN graph[w] : j < RowBound(w)' <=> j < RowBound(w)
    BY <1>1 DEF RowBound
  <1>4. /\ Seeds' /\ Parents' /\ Chains' /\ ClosedLive' /\ Scans' /\ BestSoFar'
        /\ \A v \in Vertex : /\ Live(v)' <=> Live(v)
                             /\ Closed(v)' <=> Closed(v)
                             /\ Key(v)' = Key(v)
    BY <1>1, <1>2, <1>3, FrameKeeps DEF SearchInv
  <1>5. Opens'
    BY <1>1, <1>4 DEF SearchInv, Opens, Types, AStarTypeOK
  <1>6. Keys'
    BY <1>1, <1>4 DEF SearchInv, Keys
  <1>7. Types'
    <2>1. CallOK(call)' /\ IsGraph(graph)' /\ result'.found \in BOOLEAN
      BY <1>1 DEF Types
    <2>2. AStarTypeOK'
      BY <1>1 DEF Types, AStarTypeOK
    <2> QED BY <2>1, <2>2 DEF Types
  <1> QED BY <1>1, <1>4, <1>5, <1>6, <1>7 DEF AInv, Busy, SearchInv

LEMMA RowDoneKeeps ==
  ASSUME AInv, RowDone
  PROVE  AInv'
  <1>1. /\ pc = "relax" /\ pc' = "pop" /\ Types /\ SearchInv /\ cursor > Len(graph[u]) /\ u \in Vertex
        /\ UNCHANGED <<graph, call, g, geo, prev, inbound, stamp, closedStamp, generation,
                       open, cursor, u, bestTotal, bestGoal, result>>
    BY DEF RowDone, AInv, Busy, wsVars, Types, AStarTypeOK
  <1>2. \A i \in DOMAIN call.sources : i < SeedBound' => i < SeedBound
    BY <1>1 DEF SeedBound
  <1>3. ASSUME NEW w \in Vertex, NEW j \in DOMAIN graph[w] PROVE j < RowBound(w)' /\ j < RowBound(w)
    <2>1. j \in 1..Len(graph[w]) /\ Len(graph[w]) \in Nat
      BY <1>1, RowFacts DEF Types
    <2>2. cursor \in Nat
      BY <1>1 DEF Types, AStarTypeOK
    <2> QED BY <1>1, <2>1, <2>2 DEF RowBound
  <1>4. /\ Seeds' /\ Parents' /\ Chains' /\ ClosedLive' /\ Scans' /\ BestSoFar'
        /\ \A v \in Vertex : /\ Live(v)' <=> Live(v)
                             /\ Closed(v)' <=> Closed(v)
                             /\ Key(v)' = Key(v)
    BY <1>1, <1>2, <1>3, FrameKeeps DEF SearchInv
  <1>5. Opens'
    BY <1>1, <1>4 DEF SearchInv, Opens, Types, AStarTypeOK
  <1>6. Keys'
    BY <1>1, <1>4 DEF SearchInv, Keys
  <1>7. Types'
    <2>1. CallOK(call)' /\ IsGraph(graph)' /\ result'.found \in BOOLEAN
      BY <1>1 DEF Types
    <2>2. AStarTypeOK'
      BY <1>1 DEF Types, AStarTypeOK
    <2> QED BY <2>1, <2>2 DEF Types
  <1> QED BY <1>1, <1>4, <1>5, <1>6, <1>7 DEF AInv, Busy, SearchInv

LEMMA PopStaleKeeps ==
  ASSUME AInv, PopStale
  PROVE  AInv'
  <1>1. /\ pc = "pop" /\ pc' = "pop" /\ Types /\ SearchInv
        /\ UNCHANGED <<graph, call, g, geo, prev, inbound, stamp, closedStamp, generation,
                       cursor, u, bestTotal, bestGoal, result>>
    BY DEF PopStale, AInv, Busy, wsVars
  <1>2. PICK top \in open : Closed(top.vertex) /\ open' = open \ {top}
    BY DEF PopStale, Tops
  <1>3. /\ \A i \in DOMAIN call.sources : i < SeedBound' => i < SeedBound
        /\ \A w \in Vertex : \A j \in DOMAIN graph[w] : j < RowBound(w)' <=> j < RowBound(w)
    BY <1>1 DEF SeedBound, RowBound
  <1>4. /\ Seeds' /\ Parents' /\ Chains' /\ ClosedLive' /\ Scans' /\ BestSoFar'
        /\ \A v \in Vertex : /\ Live(v)' <=> Live(v)
                             /\ Closed(v)' <=> Closed(v)
                             /\ Key(v)' = Key(v)
    BY <1>1, <1>3, FrameKeeps DEF SearchInv
  <1>5. Opens'
    <2>1. \A o \in open' : o \in open /\ o.vertex \in Vertex
      BY <1>1, <1>2 DEF Types, AStarTypeOK
    <2>2. \A o \in open' : Live(o.vertex)' /\ ~Below(o.f, Key(o.vertex)')
      BY <1>1, <1>4, <2>1 DEF SearchInv, Opens
    <2>3. ASSUME NEW v \in Vertex, Live(v)', ~Closed(v)'
          PROVE  [f |-> Key(v)', vertex |-> v] \in open'
      <3>1. [f |-> Key(v), vertex |-> v] \in open /\ ~Closed(v)
        BY <1>1, <1>4, <2>3 DEF SearchInv, Opens
      <3>2. [f |-> Key(v), vertex |-> v] # top
        BY <3>1, <1>2
      <3> QED BY <3>1, <3>2, <1>2, <1>4
    <2> QED BY <2>2, <2>3 DEF Opens
  <1>6. Keys'
    BY <1>1, <1>2, <1>4 DEF SearchInv, Keys
  <1>7. Types'
    <2>1. CallOK(call)' /\ IsGraph(graph)' /\ result'.found \in BOOLEAN
      BY <1>1 DEF Types
    <2>2. AStarTypeOK'
      BY <1>1, <1>2 DEF Types, AStarTypeOK
    <2> QED BY <2>1, <2>2 DEF Types
  <1> QED BY <1>1, <1>4, <1>5, <1>6, <1>7 DEF AInv, Busy, SearchInv

(***************************************************************************)
(* Looking at an edge.                                                     *)
(***************************************************************************)
LEMMA NotLast ==
  ASSUME NEW n \in Nat, NEW i \in 1..n, i # n
  PROVE  i \in 1..(n - 1) /\ i + 1 \in 1..n
  OBVIOUS

\* A vertex reached at a lower cost keeps every chain but its own.
LEMMA ChainElsewhere ==
  ASSUME Types, NEW x \in Vertex, ~Closed(x), NEW cost, NEW dist, NEW from, NEW heading,
         Relax(x, cost, dist, from, heading),
         NEW v \in Vertex \ {x}, NEW p, ChainTo(v, p)
  PROVE  ChainTo(v, p)'
  <1>1. p \in Seq(Vertex) /\ Len(p) \in Nat /\ p # <<>> /\ Len(p) >= 1
        /\ \A i \in 1..Len(p) : p[i] \in Vertex
    BY EmptySeq DEF ChainTo
  <1>2. \A i \in 1..Len(p) : p[i] # x
    <2> SUFFICES ASSUME NEW i \in 1..Len(p), p[i] = x PROVE FALSE
      OBVIOUS
    <2>1. CASE i = Len(p)
      BY <2>1 DEF ChainTo
    <2>2. CASE i # Len(p)
      <3>1. i \in 1..(Len(p) - 1)
        BY <1>1, <2>2, NotLast
      <3> QED BY <3>1 DEF ChainTo
    <2> QED BY <2>1, <2>2
  <1>3. \A y \in Vertex \ {x} : prev'[y] = prev[y] /\ (Closed(y)' <=> Closed(y))
    BY RelaxFacts
  <1>4. prev'[p[1]] = kNoVertex
    BY <1>1, <1>2, <1>3 DEF ChainTo
  <1>5. ASSUME NEW i \in 1..(Len(p) - 1) PROVE Closed(p[i])' /\ prev'[p[i + 1]] = p[i]
    <2>1. Closed(p[i]) /\ prev[p[i + 1]] = p[i]
      BY DEF ChainTo
    <2>2. i \in 1..Len(p) /\ i + 1 \in 1..Len(p)
      BY <1>1
    <2>3. p[i] \in Vertex \ {x} /\ p[i + 1] \in Vertex \ {x}
      BY <1>1, <1>2, <2>2
    <2> QED BY <2>1, <2>3, <1>3
  <1> QED BY <1>4, <1>5 DEF ChainTo

\* The chain to w, one vertex longer.
LEMMA ChainOneMore ==
  ASSUME Types, NEW x \in Vertex, ~Closed(x), NEW cost, NEW dist, NEW heading,
         NEW w \in Vertex, Closed(w), Relax(x, cost, dist, w, heading),
         NEW p, ChainTo(w, p)
  PROVE  ChainTo(x, Append(p, x))'
  <1> DEFINE q == Append(p, x)
  <1>1. p \in Seq(Vertex) /\ Len(p) \in Nat /\ p # <<>> /\ Len(p) >= 1
        /\ DOMAIN p = 1..Len(p) /\ \A i \in 1..Len(p) : p[i] \in Vertex
    BY EmptySeq, LenProperties DEF ChainTo
  <1>2. /\ q \in Seq(Vertex) /\ q # <<>> /\ Len(q) = Len(p) + 1 /\ q[Len(q)] = x
        /\ \A i \in 1..Len(p) : q[i] = p[i]
        /\ DOMAIN q = 1..(Len(p) + 1)
    BY <1>1, AppendProperties
  <1> HIDE DEF q
  <1>3. w # x /\ ChainTo(w, p)'
    BY ChainElsewhere
  <1>4. \A i \in 1..Len(p) : Closed(p[i])
    <2> SUFFICES ASSUME NEW i \in 1..Len(p) PROVE Closed(p[i])
      OBVIOUS
    <2>1. CASE i = Len(p)
      BY <2>1 DEF ChainTo
    <2>2. CASE i # Len(p)
      <3>1. i \in 1..(Len(p) - 1)
        BY <1>1, <2>2, NotLast
      <3> QED BY <3>1, SMTT(30) DEF ChainTo
    <2> QED BY <2>1, <2>2
  <1>5. \A i \in 1..Len(p) : Closed(p[i])'
    BY <1>1, <1>4, RelaxFacts
  <1>6. IsSimple(q)
    <2>1. \A i \in 1..Len(p) : q[i] # x
      BY <1>2, <1>4
    <2>2. \A i, j \in 1..Len(p) : p[i] = p[j] => i = j
      BY <1>1 DEF ChainTo, IsSimple
    <2> SUFFICES ASSUME NEW i \in 1..(Len(p) + 1), NEW j \in 1..(Len(p) + 1), q[i] = q[j]
                 PROVE  i = j
      BY <1>2 DEF IsSimple
    <2>3. i \in 1..Len(p) \/ i = Len(p) + 1
      BY <1>1
    <2>4. j \in 1..Len(p) \/ j = Len(p) + 1
      BY <1>1
    <2> QED BY <2>1, <2>2, <2>3, <2>4, <1>2
  <1>7. prev'[x] = w
    BY RelaxFacts
  <1>8. ASSUME NEW i \in 1..(Len(q) - 1) PROVE Closed(q[i])' /\ prev'[q[i + 1]] = q[i]
    <2>1. i \in 1..Len(p) /\ q[i] = p[i] /\ Closed(p[i])'
      BY <1>1, <1>2, <1>5
    <2>2. CASE i = Len(p)
      <3>1. p[i] = w /\ q[i + 1] = x
        BY <2>2, <1>2 DEF ChainTo
      <3> QED BY <3>1, <2>1, <1>7
    <2>3. CASE i # Len(p)
      <3>1. i \in 1..(Len(p) - 1) /\ i + 1 \in 1..Len(p)
        BY <2>1, <2>3, <1>1, NotLast
      <3>2. prev'[p[i + 1]] = p[i]
        BY <3>1, <1>3 DEF ChainTo
      <3> QED BY <3>1, <3>2, <2>1, <1>2, SMTT(30)
    <2> QED BY <2>2, <2>3
  <1>9. prev'[q[1]] = kNoVertex
    <2>1. q[1] = p[1]
      BY <1>1, <1>2
    <2> QED BY <2>1, <1>3 DEF ChainTo
  <1>10. ChainTo(x, q)'
    BY <1>2, <1>6, <1>8, <1>9 DEF ChainTo
  <1> QED BY <1>10 DEF q

\* The vertex being expanded and the edge being looked at.
LEMMA EdgeAtHand ==
  ASSUME AInv, RelaxEdge, NEW e, e = graph[u][cursor]
  PROVE  /\ pc = "relax" /\ Types /\ SearchInv
         /\ u \in Vertex /\ Closed(u) /\ Live(u) /\ InRange(call.goals) # {}
         /\ cursor \in DOMAIN graph[u] /\ cursor \in Nat
         /\ e.to \in Vertex
         /\ Outbound(e) = HeadingTo(u, e.to)
         /\ Tentative(e) = g[u] + StepCost(u, cursor) /\ Tentative(e) \in Nat
         /\ Passable(e) <=> CanStep(u, cursor) /\ ~Closed(e.to)
         /\ pc' = pc /\ cursor' = cursor + 1 /\ result' = result
         /\ UNCHANGED <<graph, call, u, bestTotal, bestGoal>>
  <1>1. pc = "relax" /\ Types /\ SearchInv
    BY DEF RelaxEdge, AInv, Busy
  <1>2. u \in Vertex /\ cursor \in Nat \ {0} /\ g[u] \in Nat
    BY <1>1 DEF Types, AStarTypeOK
  <1>3. Closed(u) /\ Live(u) /\ InRange(call.goals) # {}
    BY <1>1, <1>2 DEF SearchInv, Keys, ClosedLive
  <1>4. cursor \in DOMAIN graph[u]
    BY <1>1, <1>2, RowFacts DEF RelaxEdge, Types
  <1>5. e.to \in Vertex /\ StepCost(u, cursor) \in Nat
    BY <1>1, <1>2, <1>4, StepNat
  <1>6. Outbound(e) = HeadingTo(u, e.to)
    BY DEF Outbound, HeadingTo
  <1>7. StepCost(u, cursor) = EdgeCost(e) + TurnCost(call.turn, inbound[u], Outbound(e))
    BY <1>6 DEF StepCost
  <1>8. Tentative(e) = g[u] + StepCost(u, cursor)
    <2>1. Tentative(e) = Plus(g[u], StepCost(u, cursor))
      BY <1>3, <1>7 DEF Tentative, G, Inbound
    <2> QED BY <2>1, <1>2, <1>5 DEF Plus, kInfinity
  <1>9. Passable(e) <=> CanStep(u, cursor) /\ ~Closed(e.to)
    BY DEF Passable, CanStep
  <1>10. Tentative(e) \in Nat
    BY <1>8, <1>2, <1>5
  <1>11. /\ pc' = pc /\ cursor' = cursor + 1 /\ result' = result
         /\ UNCHANGED <<graph, call, u, bestTotal, bestGoal>>
    BY DEF RelaxEdge
  <1> QED BY <1>1, <1>2, <1>3, <1>4, <1>5, <1>6, <1>8, <1>9, <1>10, <1>11

\* Parallel edges out of w differ by their own cost only.
LEMMA SameTurn ==
  ASSUME Types, NEW w \in Vertex, NEW v \in Vertex,
         NEW i \in Usable(graph, w, v), NEW j \in Usable(graph, w, v)
  PROVE  /\ StepCost(w, i) <= StepCost(w, j) <=> EdgeCost(graph[w][i]) <= EdgeCost(graph[w][j])
         /\ StepCost(w, i) \in Nat /\ StepCost(w, j) \in Nat
         /\ EdgeCost(graph[w][i]) \in Nat /\ EdgeCost(graph[w][j]) \in Nat
  <1>1. i \in DOMAIN graph[w] /\ j \in DOMAIN graph[w] /\ graph[w][i].to = v /\ graph[w][j].to = v
    BY DEF Usable
  <1>2. /\ StepCost(w, i) \in Nat /\ StepCost(w, j) \in Nat
        /\ EdgeCost(graph[w][i]) \in Nat /\ EdgeCost(graph[w][j]) \in Nat
    BY <1>1, StepNat
  <1>3. PICK t : t = TurnCost(call.turn, inbound[w], HeadingTo(w, v))
    OBVIOUS
  <1>4. t \in Nat
    <2>1. inbound[w] \in Heading /\ call.turn \in BOOLEAN
      BY HeadingsKnown, Zenon
    <2>2. HeadingTo(w, v) \in Heading
      BY <1>1, StepNat
    <2> QED BY <2>1, <2>2, <1>3, TurnNat
  <1>5. /\ StepCost(w, i) = EdgeCost(graph[w][i]) + t
        /\ StepCost(w, j) = EdgeCost(graph[w][j]) + t
    BY <1>1, <1>3 DEF StepCost
  <1> QED BY <1>2, <1>4, <1>5

\* The key of the expanded vertex is no larger than that of what it reaches.
LEMMA KeyGrows ==
  ASSUME AInv, RelaxEdge, NEW e, e = graph[u][cursor], NEW w \in Vertex, Closed(w)
  PROVE  /\ Key(w) <= g[u] + StepCost(u, cursor) + Heuristic(e.to)
         /\ Key(w) = g[w] + Heuristic(w)
         /\ Plus(Tentative(e), Heuristic(e.to)) = g[u] + StepCost(u, cursor) + Heuristic(e.to)
         /\ Key(w) \in Nat /\ g[u] \in Nat /\ StepCost(u, cursor) \in Nat /\ Heuristic(e.to) \in Nat
  <1>1. /\ pc = "relax" /\ Types /\ SearchInv /\ u \in Vertex /\ InRange(call.goals) # {}
        /\ cursor \in DOMAIN graph[u] /\ e.to \in Vertex
        /\ Tentative(e) = g[u] + StepCost(u, cursor)
    BY EdgeAtHand
  <1>2. /\ Key(u) = g[u] + Heuristic(u) /\ Key(u) \in Nat /\ g[u] \in Nat
        /\ Key(w) = g[w] + Heuristic(w) /\ Key(w) \in Nat
    BY <1>1, KeyCost
  <1>3. ~Below(Key(u), Key(w))
    BY <1>1 DEF SearchInv, Keys
  <1>4. Key(w) <= Key(u)
    BY <1>2, <1>3 DEF Below, kInfinity
  <1>5. /\ StepCost(u, cursor) \in Nat
        /\ Heuristic(u) <= StepCost(u, cursor) + Heuristic(e.to)
    BY <1>1, StepNat
  <1>6. Heuristic(u) \in Nat /\ Heuristic(e.to) \in Nat
    BY <1>1, HeuristicCost DEF Types
  <1>7. Plus(Tentative(e), Heuristic(e.to)) = g[u] + StepCost(u, cursor) + Heuristic(e.to)
    BY <1>1, <1>2, <1>5, <1>6 DEF Plus, kInfinity
  <1> QED BY <1>2, <1>4, <1>5, <1>6, <1>7

\* The edges to v that have been looked at stay looked at; only e is new.
LEMMA ScannedElsewhere ==
  ASSUME AInv, RelaxEdge, NEW e, e = graph[u][cursor],
         NEW w \in Vertex, NEW v \in Vertex, w # u \/ v # e.to,
         NEW j \in DOMAIN graph[w], FirstScanned(w, v, j)
  PROVE  FirstScanned(w, v, j)'
  <1>1. /\ pc = "relax" /\ pc' = "relax" /\ cursor' = cursor + 1 /\ u' = u /\ graph' = graph
        /\ cursor \in Nat
    BY EdgeAtHand
  <1>2. Usable(graph, w, v) \subseteq DOMAIN graph[w]
    BY DEF Usable
  <1>3. CASE w # u
    BY <1>1, <1>3 DEF FirstScanned, RowBound
  <1>4. CASE w = u
    <2>1. v # e.to
      BY <1>4
    <2>2. \A i \in Usable(graph, w, v) : i # cursor /\ i \in Nat
      <3>1. \A i \in DOMAIN graph[w] : i \in Nat
        BY RowFacts DEF AInv, Types
      <3> QED BY <2>1, <1>4, <3>1 DEF Usable
    <2>3. \A i \in Usable(graph, w, v) : i < cursor + 1 <=> i < cursor
      BY <2>2, <1>1
    <2> QED BY <1>1, <1>4, <2>3 DEF FirstScanned, RowBound
  <1> QED BY <1>3, <1>4

LEMMA EdgeTypesKeep ==
  ASSUME AInv, RelaxEdge
  PROVE  Types'
  <1>0. PICK e : e = graph[u][cursor]
    OBVIOUS
  <1>1. /\ pc = "relax" /\ Types /\ u \in Vertex /\ cursor \in DOMAIN graph[u] /\ cursor \in Nat
        /\ e.to \in Vertex /\ Live(u)
        /\ Outbound(e) = HeadingTo(u, e.to) /\ Tentative(e) \in Nat
        /\ pc' = pc /\ cursor' = cursor + 1 /\ result' = result
        /\ UNCHANGED <<graph, call, u, bestTotal, bestGoal>>
    BY <1>0, EdgeAtHand
  <1>2. CallOK(call)' /\ IsGraph(graph)' /\ result'.found \in BOOLEAN
    BY <1>1 DEF Types
  <1>3. /\ g' \in [Vertex -> Nat] /\ geo' \in [Vertex -> Nat]
        /\ prev' \in [Vertex -> Vertex \cup {kNoVertex}]
        /\ stamp' \in [Vertex -> 0..generation'] /\ closedStamp' \in [Vertex -> 0..generation']
        /\ generation' \in Nat
    <2>1. CASE Relax(e.to, Tentative(e), Geo(u) + e.distance_nm, u, Outbound(e))
      <3>1. Geo(u) + e.distance_nm \in Nat
        <4>1. Geo(u) \in Nat
          BY <1>1 DEF Types, AStarTypeOK, Geo
        <4>2. e.distance_nm \in Nat
          BY <1>0, <1>1, StepNat
        <4> QED BY <4>1, <4>2
      <3> QED BY <1>1, <2>1, <3>1 DEF Types, AStarTypeOK, Relax
    <2>2. CASE UNCHANGED wsVars
      BY <1>1, <2>2 DEF Types, AStarTypeOK, wsVars
    <2> QED BY <1>0, <2>1, <2>2 DEF RelaxEdge
  <1>4. inbound' \in [Vertex -> (0..359) \cup {kNoBearing}]
    <2>1. CASE Relax(e.to, Tentative(e), Geo(u) + e.distance_nm, u, Outbound(e))
      <3>1. Outbound(e) \in (0..359) \cup {kNoBearing}
        BY <1>0, <1>1, StepNat DEF Heading
      <3> QED BY <1>1, <2>1, <3>1 DEF Types, AStarTypeOK, Relax
    <2>2. CASE UNCHANGED wsVars
      BY <1>1, <2>2 DEF Types, AStarTypeOK, wsVars
    <2> QED BY <1>0, <2>1, <2>2 DEF RelaxEdge
  <1>5. \A o \in open' : o.f \in Nat \cup {kInfinity} /\ o.vertex \in Vertex
    <2>1. Plus(Tentative(e), Heuristic(e.to)) \in Nat \cup {kInfinity}
      BY <1>1, HeuristicCost DEF Types, Plus, Cost, kInfinity
    <2>2. CASE Push(e.to, Tentative(e))
      BY <2>1, <2>2, <1>1 DEF Push, Types, AStarTypeOK
    <2>3. CASE UNCHANGED open
      BY <2>3, <1>1 DEF Types, AStarTypeOK
    <2> QED BY <1>0, <2>2, <2>3 DEF RelaxEdge
  <1>6. /\ pc' \in {"idle", "seed", "pop", "relax", "walk", "done"}
        /\ cursor' \in Nat \ {0} /\ u' \in Vertex \cup {kNoVertex} /\ u' \in Vertex
        /\ bestTotal' \in Nat \cup {kInfinity} /\ bestGoal' \in Vertex \cup {kNoVertex}
    BY <1>1 DEF Types, AStarTypeOK
  <1>7. AStarTypeOK'
    BY <1>3, <1>4, <1>5, <1>6 DEF AStarTypeOK
  <1> QED BY <1>2, <1>7 DEF Types

LEMMA ImproveKeeps ==
  ASSUME AInv, RelaxEdge, NEW e, e = graph[u][cursor], Improves(e)
  PROVE  SearchInv'
  <1>1. /\ pc = "relax" /\ Types /\ SearchInv
        /\ u \in Vertex /\ Closed(u) /\ Live(u) /\ InRange(call.goals) # {}
        /\ cursor \in DOMAIN graph[u] /\ cursor \in Nat
        /\ e.to \in Vertex
        /\ Outbound(e) = HeadingTo(u, e.to)
        /\ Tentative(e) = g[u] + StepCost(u, cursor) /\ Tentative(e) \in Nat
        /\ Passable(e) <=> CanStep(u, cursor) /\ ~Closed(e.to)
        /\ pc' = pc /\ cursor' = cursor + 1 /\ result' = result
        /\ UNCHANGED <<graph, call, u, bestTotal, bestGoal>>
    BY EdgeAtHand
  <1>x. PICK x \in Vertex : x = e.to
    BY <1>1
  <1>c. PICK cost \in Nat : cost = Tentative(e)
    BY <1>1
  <1>w. PICK w \in Vertex : w = u
    BY <1>1
  <1>d. PICK dist : dist = geo[w] + e.distance_nm
    OBVIOUS
  <1>h. PICK heading : heading = HeadingTo(w, x)
    OBVIOUS
  <1>2. /\ ~Closed(x) /\ CanStep(w, cursor) /\ Below(cost, G(x))
        /\ Relax(x, cost, dist, w, heading) /\ Push(x, cost)
    <2>1. ~Closed(x) /\ CanStep(w, cursor) /\ Below(cost, G(x))
      BY <1>1, <1>x, <1>c, <1>w DEF Improves
    <2>2. Relax(e.to, Tentative(e), Geo(u) + e.distance_nm, u, Outbound(e)) /\ Push(e.to, Tentative(e))
      BY DEF RelaxEdge
    <2>3. Geo(u) = geo[w]
      BY <1>1, <1>w DEF Geo
    <2> QED BY <2>1, <2>2, <2>3, <1>1, <1>x, <1>c, <1>w, <1>d, <1>h
  <1>3. cost = g[w] + StepCost(w, cursor) /\ graph[w][cursor].to = x /\ w # x
    BY <1>1, <1>2, <1>x, <1>c, <1>w
  <1>4. Opens' /\ Keys' /\ BestSoFar' /\ ClosedLive'
    <2>1. ASSUME NEW y \in Vertex, Closed(y) PROVE ~Below(Plus(cost, Heuristic(x)), Key(y))
      <3>1. /\ Key(y) <= g[u] + StepCost(u, cursor) + Heuristic(e.to)
            /\ Plus(Tentative(e), Heuristic(e.to)) = g[u] + StepCost(u, cursor) + Heuristic(e.to)
            /\ Key(y) \in Nat /\ g[u] \in Nat /\ StepCost(u, cursor) \in Nat /\ Heuristic(e.to) \in Nat
        BY <2>1, KeyGrows
      <3> QED BY <3>1, <1>x, <1>c DEF Below, kInfinity
    <2>2. UNCHANGED <<graph, call, pc, u, bestTotal, bestGoal>> /\ pc # "walk"
      BY <1>1
    <2> QED BY <1>1, <1>2, <2>1, <2>2, RelaxKeeps DEF SearchInv
  <1>5. /\ Live(x)' /\ g'[x] = cost /\ geo'[x] = dist /\ prev'[x] = w /\ inbound'[x] = heading
        /\ \A v \in Vertex \ {x} :
              /\ Live(v)' <=> Live(v)
              /\ g'[v] = g[v] /\ geo'[v] = geo[v] /\ prev'[v] = prev[v] /\ inbound'[v] = inbound[v]
        /\ \A v \in Vertex : Live(v) => Live(v)'
        /\ \A v \in Vertex : Closed(v)' <=> Closed(v)
    BY <1>1, <1>2, RelaxFacts
  <1>6. \A v \in Vertex : Live(v) => g'[v] <= g[v] /\ g[v] \in Nat /\ g'[v] \in Nat
    <2>1. Live(x) => cost <= g[x]
      BY <1>1, <1>2, KeyCost DEF Below, G, kInfinity
    <2>2. \A v \in Vertex : g[v] \in Nat
      BY <1>1 DEF Types, AStarTypeOK
    <2> QED BY <2>1, <2>2, <1>5
  <1>7. ASSUME NEW y \in Vertex, Closed(y)
        PROVE  /\ y # x /\ g'[y] = g[y] /\ geo'[y] = geo[y] /\ inbound'[y] = inbound[y]
               /\ \A j : StepCost(y, j)' = StepCost(y, j)
               /\ \A v : HeadingTo(y, v)' = HeadingTo(y, v)
    BY <1>1, <1>2, <1>5, <1>7 DEF StepCost, HeadingTo
  <1>8. Seeds'
    <2> SUFFICES ASSUME NEW i \in DOMAIN call.sources, i < SeedBound, NEW y \in Vertex,
                        call.sources[i].vertex = y, ~NodeBlocked(call.bans, y)
                 PROVE  Live(y)' /\ g'[y] <= call.sources[i].cost
      BY <1>1 DEF Seeds, SeedBound
    <2>1. Live(y) /\ g[y] <= call.sources[i].cost
      BY <1>1 DEF SearchInv, Seeds
    <2>2. call.sources[i].cost \in Nat
      BY <1>1, EndpointFacts DEF Types, CallOK
    <2> QED BY <2>1, <2>2, <1>5, <1>6
  <1>9. Scans'
    <2> SUFFICES ASSUME NEW y \in Vertex, Closed(y), NEW j \in DOMAIN graph[y], j < RowBound(y)',
                        CanStep(y, j), NEW z \in Vertex, graph[y][j].to = z
                 PROVE  Live(z)' /\ g'[z] <= g[y] + StepCost(y, j)
      <3>1. \A y \in Vertex : \A j \in DOMAIN graph[y] : graph[y][j].to \in Vertex
        BY <1>1, RowFacts DEF Types
      <3>2. \A y, j : CanStep(y, j)' <=> CanStep(y, j)
        BY <1>1 DEF CanStep
      <3> QED BY <3>1, <3>2, <1>1, <1>5, <1>7 DEF Scans
    <2>1. g[y] \in Nat /\ StepCost(y, j) \in Nat /\ j \in Nat
      BY <1>1, StepNat, KeyCost, RowFacts DEF Types
    <2>2. CASE y = w /\ j = cursor
      <3>1. z = x /\ g'[z] = g[y] + StepCost(y, j)
        BY <2>2, <1>3, <1>5
      <3> QED BY <3>1, <2>1, <1>5
    <2>3. CASE ~(y = w /\ j = cursor)
      <3>1. j < RowBound(y)
        BY <2>1, <2>3, <1>1, <1>w DEF RowBound
      <3>2. Live(z) /\ g[z] <= g[y] + StepCost(y, j)
        BY <3>1, <1>1 DEF SearchInv, Scans
      <3> QED BY <3>2, <2>1, <1>5, <1>6
    <2> QED BY <2>2, <2>3
  <1>10. FromStep(x, w)'
    <2>1. cursor \in Usable(graph, w, x)
      BY <1>1, <1>2, <1>3, <1>w DEF Usable, CanStep
    <2>2. ASSUME NEW i \in Usable(graph, w, x), i < cursor
          PROVE  EdgeCost(graph[w][cursor]) < EdgeCost(graph[w][i])
      <3>1. i \in DOMAIN graph[w] /\ graph[w][i].to = x /\ graph[w][i].allowed
        BY DEF Usable
      <3>2. CanStep(w, i)
        BY <3>1, <1>2, <1>3 DEF CanStep
      <3>3. Live(x) /\ g[x] <= g[w] + StepCost(w, i)
        <4>1. i < RowBound(w)
          BY <1>1, <1>w, <2>2 DEF RowBound
        <4> QED BY <3>1, <3>2, <4>1, <1>1, <1>w DEF SearchInv, Scans
      <3>4. cost < g[x] /\ g[x] \in Nat /\ g[w] \in Nat
        BY <3>3, <1>1, <1>2, KeyCost DEF Below, G, kInfinity
      <3>5. /\ StepCost(w, i) <= StepCost(w, cursor) <=>
               EdgeCost(graph[w][i]) <= EdgeCost(graph[w][cursor])
            /\ StepCost(w, i) \in Nat /\ StepCost(w, cursor) \in Nat
            /\ EdgeCost(graph[w][i]) \in Nat /\ EdgeCost(graph[w][cursor]) \in Nat
        BY <1>1, <2>1, SameTurn
      <3>6. ~(StepCost(w, i) <= StepCost(w, cursor))
        BY <3>3, <3>4, <3>5, <1>3
      <3> QED BY <3>5, <3>6
    <2>c. PICK n \in Nat : n = cursor
      BY <1>1
    <2>3. FirstScanned(w, x, n)'
      <3>1. RowBound(w)' = n + 1
        BY <1>1, <1>w, <2>c DEF RowBound
      <3>2. \A i \in Usable(graph, w, x) : i \in Nat
        BY <1>1, RowFacts DEF Types, Usable
      <3>3. ASSUME NEW i \in Usable(graph, w, x), i < n + 1
            PROVE  \/ EdgeCost(graph[w][n]) < EdgeCost(graph[w][i])
                   \/ EdgeCost(graph[w][n]) = EdgeCost(graph[w][i]) /\ n <= i
        <4>1. CASE i = n
          BY <4>1
        <4>2. CASE i # n
          <5>1. i < cursor
            BY <4>2, <3>2, <3>3, <2>c
          <5> QED BY <5>1, <2>2, <2>c
        <4> QED BY <4>1, <4>2
      <3>4. n \in Usable(graph, w, x) /\ n < n + 1
        BY <2>1, <2>c
      <3> QED BY <3>1, <3>3, <3>4, <1>1 DEF FirstScanned
    <2>4. /\ g'[x] = g'[w] + StepCost(w, n)'
          /\ geo'[x] = geo'[w] + graph'[w][n].distance_nm
      <3>1. g'[w] = g[w] /\ geo'[w] = geo[w] /\ StepCost(w, n)' = StepCost(w, n)
        BY <1>1, <1>w, <1>7
      <3> QED BY <3>1, <2>c, <1>1, <1>3, <1>5, <1>d, <1>w
    <2>5. /\ prev'[x] = w /\ Closed(w)' /\ ~EdgeBlocked(call'.bans, w, x)
          /\ inbound'[x] = HeadingTo(w, x)'
      <3>1. ~EdgeBlocked(call.bans, w, x)
        BY <1>2, <1>3 DEF CanStep
      <3>2. HeadingTo(w, x)' = HeadingTo(w, x)
        BY <1>1, <1>w, <1>7
      <3> QED BY <3>1, <3>2, <1>1, <1>5, <1>w, <1>h
    <2>6. n \in DOMAIN graph'[w]
      BY <2>1, <2>c, <1>1 DEF Usable
    <2> QED BY <2>3, <2>4, <2>5, <2>6 DEF FromStep
  <1>11. Parents'
    <2>1. ~NodeBlocked(call.bans, x)
      BY <1>2, <1>3 DEF CanStep
    <2>2. ASSUME NEW v \in Vertex \ {x}, FromSeed(v) PROVE FromSeed(v)'
      BY <2>2, <1>1, <1>5 DEF FromSeed
    <2>3. ASSUME NEW v \in Vertex \ {x}, NEW y \in Vertex, FromStep(v, y) PROVE FromStep(v, y)'
      <3>1. PICK j \in DOMAIN graph[y] : /\ FirstScanned(y, v, j)
                                         /\ g[v] = g[y] + StepCost(y, j)
                                         /\ geo[v] = geo[y] + graph[y][j].distance_nm
        BY <2>3 DEF FromStep
      <3>2. FirstScanned(y, v, j)'
        BY <3>1, <1>x, ScannedElsewhere
      <3>3. Closed(y) /\ prev[v] = y /\ ~EdgeBlocked(call.bans, y, v) /\ inbound[v] = HeadingTo(y, v)
        BY <2>3 DEF FromStep
      <3>4. /\ g'[y] = g[y] /\ geo'[y] = geo[y] /\ StepCost(y, j)' = StepCost(y, j)
            /\ HeadingTo(y, v)' = HeadingTo(y, v)
        BY <3>3, <1>7
      <3>5. /\ g'[v] = g'[y] + StepCost(y, j)'
            /\ geo'[v] = geo'[y] + graph'[y][j].distance_nm
        BY <3>1, <3>4, <1>1, <1>5
      <3>6. /\ prev'[v] = y /\ Closed(y)' /\ ~EdgeBlocked(call'.bans, y, v)
            /\ inbound'[v] = HeadingTo(y, v)' /\ j \in DOMAIN graph'[y]
        BY <3>3, <3>4, <1>1, <1>5
      <3> QED BY <3>2, <3>5, <3>6 DEF FromStep
    <2>4. ASSUME NEW v \in Vertex, Live(v)'
          PROVE  ~NodeBlocked(call'.bans, v) /\ (FromSeed(v)' \/ \E y \in Vertex : FromStep(v, y)')
      <3>1. CASE v = x
        BY <3>1, <2>1, <1>1, <1>10
      <3>2. CASE v # x
        <4>1. ~NodeBlocked(call.bans, v) /\ (FromSeed(v) \/ \E y \in Vertex : FromStep(v, y))
          BY <3>2, <2>4, <1>1, <1>5 DEF SearchInv, Parents
        <4> QED BY <4>1, <3>2, <2>2, <2>3, <1>1
      <3> QED BY <3>1, <3>2
    <2> QED BY <2>4 DEF Parents
  <1>12. Chains'
    <2>1. ASSUME NEW v \in Vertex, Live(v)' PROVE \E p : ChainTo(v, p)'
      <3>1. CASE v = x
        <4>1. PICK p : ChainTo(w, p)
          BY <1>1, <1>w DEF SearchInv, Chains
        <4>2. ChainTo(x, Append(p, x))'
          BY <4>1, <1>1, <1>2, <1>w, ChainOneMore
        <4> QED BY <4>2, <3>1
      <3>2. CASE v # x
        <4>1. PICK p : ChainTo(v, p)
          BY <3>2, <2>1, <1>1, <1>5 DEF SearchInv, Chains
        <4>2. ChainTo(v, p)'
          BY <4>1, <3>2, <1>1, <1>2, ChainElsewhere
        <4> QED BY <4>2
      <3> QED BY <3>1, <3>2
    <2> QED BY <2>1 DEF Chains
  <1> QED BY <1>4, <1>8, <1>9, <1>11, <1>12 DEF SearchInv

LEMMA NoGainKeeps ==
  ASSUME AInv, RelaxEdge, NEW e, e = graph[u][cursor], ~Improves(e)
  PROVE  SearchInv'
  <1>1. /\ pc = "relax" /\ Types /\ SearchInv
        /\ u \in Vertex /\ Closed(u) /\ Live(u) /\ InRange(call.goals) # {}
        /\ cursor \in DOMAIN graph[u] /\ cursor \in Nat
        /\ e.to \in Vertex
        /\ Tentative(e) = g[u] + StepCost(u, cursor) /\ Tentative(e) \in Nat
        /\ Passable(e) <=> CanStep(u, cursor) /\ ~Closed(e.to)
        /\ pc' = pc /\ cursor' = cursor + 1 /\ result' = result
        /\ UNCHANGED <<graph, call, u, bestTotal, bestGoal>>
    BY EdgeAtHand
  <1>x. PICK x \in Vertex : x = e.to
    BY <1>1
  <1>w. PICK w \in Vertex : w = u
    BY <1>1
  <1>n. PICK n \in Nat : n = cursor
    BY <1>1
  <1>2. UNCHANGED <<g, geo, prev, inbound, stamp, closedStamp, generation, open>>
    BY DEF RelaxEdge, wsVars
  <1>3. \A v \in Vertex : /\ Live(v)' <=> Live(v)
                          /\ Closed(v)' <=> Closed(v)
                          /\ Key(v)' = Key(v)
                          /\ TotalAt(v)' = TotalAt(v)
    BY <1>1, <1>2 DEF Live, Closed, Key, Heuristic, TotalAt, G, Inbound
  <1>4. \A y, j, v : /\ StepCost(y, j)' = StepCost(y, j) /\ HeadingTo(y, v)' = HeadingTo(y, v)
                     /\ CanStep(y, j)' <=> CanStep(y, j)
    BY <1>1, <1>2 DEF StepCost, HeadingTo, CanStep
  <1>5. CanStep(w, n) => Live(x) /\ g[x] <= g[w] + StepCost(w, n)
    <2> SUFFICES ASSUME CanStep(w, n) PROVE Live(x) /\ g[x] <= g[w] + StepCost(w, n)
      OBVIOUS
    <2>0. g[x] \in Nat /\ g[w] \in Nat /\ StepCost(w, n) \in Nat
      BY <1>1, <1>w, <1>n, StepNat, KeyCost
    <2>1. CASE Closed(x)
      <3>1. /\ Key(x) <= g[u] + StepCost(u, cursor) + Heuristic(e.to)
            /\ Key(x) = g[x] + Heuristic(x) /\ Heuristic(e.to) \in Nat
        BY <2>1, KeyGrows
      <3>2. Live(x)
        BY <2>1, <1>1 DEF SearchInv, ClosedLive
      <3> QED BY <3>1, <3>2, <2>0, <1>x, <1>w, <1>n
    <2>2. CASE ~Closed(x)
      <3>1. ~Below(Tentative(e), G(x))
        BY <2>2, <1>1, <1>x, <1>w, <1>n DEF Improves
      <3> QED BY <3>1, <2>0, <1>1, <1>w, <1>n DEF Below, G, kInfinity
    <2> QED BY <2>1, <2>2
  <1>6. Seeds'
    <2> SUFFICES ASSUME NEW i \in DOMAIN call.sources, i < SeedBound, NEW y \in Vertex,
                        call.sources[i].vertex = y, ~NodeBlocked(call.bans, y)
                 PROVE  Live(y)' /\ g'[y] <= call.sources[i].cost
      BY <1>1 DEF Seeds, SeedBound
    <2>1. Live(y) /\ g[y] <= call.sources[i].cost
      BY <1>1 DEF SearchInv, Seeds
    <2> QED BY <2>1, <1>2, <1>3
  <1>7. Scans'
    <2> SUFFICES ASSUME NEW y \in Vertex, Closed(y), NEW j \in DOMAIN graph[y], j < RowBound(y)',
                        CanStep(y, j), NEW z \in Vertex, graph[y][j].to = z
                 PROVE  Live(z) /\ g[z] <= g[y] + StepCost(y, j)
      <3>1. \A y \in Vertex : \A j \in DOMAIN graph[y] : graph[y][j].to \in Vertex
        BY <1>1, RowFacts DEF Types
      <3> QED BY <3>1, <1>1, <1>2, <1>3, <1>4 DEF Scans
    <2>1. j \in Nat
      BY <1>1, RowFacts DEF Types
    <2>2. CASE y = w /\ j = n
      BY <2>2, <1>5, <1>x, <1>w, <1>n
    <2>3. CASE ~(y = w /\ j = n)
      <3>1. j < RowBound(y)
        BY <2>1, <2>3, <1>1, <1>w, <1>n DEF RowBound
      <3> QED BY <3>1, <1>1 DEF SearchInv, Scans
    <2> QED BY <2>2, <2>3
  <1>8. ASSUME NEW v \in Vertex, Live(v), ~NodeBlocked(call.bans, v), NEW y \in Vertex, FromStep(v, y)
        PROVE  FromStep(v, y)'
    <2>1. PICK j \in DOMAIN graph[y] : /\ FirstScanned(y, v, j)
                                       /\ g[v] = g[y] + StepCost(y, j)
                                       /\ geo[v] = geo[y] + graph[y][j].distance_nm
      BY <1>8 DEF FromStep
    <2>2. FirstScanned(y, v, j)'
      <3>1. CASE y # w \/ v # x
        BY <3>1, <2>1, <1>x, <1>w, ScannedElsewhere
      <3>2. CASE y = w /\ v = x
        <4>1. RowBound(w) = n /\ RowBound(w)' = n + 1
          BY <1>1, <1>w, <1>n DEF RowBound
        <4>2. \A i \in Usable(graph, w, x) : i \in Nat
          BY <1>1, RowFacts DEF Types, Usable
        <4>3. /\ j \in Usable(graph, w, x) /\ j < n
              /\ \A i \in Usable(graph, w, x) : i < n =>
                    \/ EdgeCost(graph[w][j]) < EdgeCost(graph[w][i])
                    \/ EdgeCost(graph[w][j]) = EdgeCost(graph[w][i]) /\ j <= i
          BY <2>1, <3>2, <4>1 DEF FirstScanned
        <4>4. ASSUME n \in Usable(graph, w, x)
              PROVE  EdgeCost(graph[w][j]) <= EdgeCost(graph[w][n])
          <5>1. graph[w][n].to = x /\ graph[w][n].allowed
            BY <4>4 DEF Usable
          <5>2. ~EdgeBlocked(call.bans, w, x)
            BY <1>8, <3>2 DEF FromStep
          <5>3. CanStep(w, n)
            BY <5>1, <5>2, <1>8, <3>2 DEF CanStep
          <5>4. g[x] <= g[w] + StepCost(w, n) /\ g[x] = g[w] + StepCost(w, j)
            BY <5>3, <1>5, <2>1, <3>2
          <5>5. /\ StepCost(w, j) <= StepCost(w, n) <=>
                   EdgeCost(graph[w][j]) <= EdgeCost(graph[w][n])
                /\ StepCost(w, j) \in Nat /\ StepCost(w, n) \in Nat
            BY <4>3, <4>4, <1>1, SameTurn
          <5>6. g[w] \in Nat
            BY <1>1, KeyCost
          <5> QED BY <5>4, <5>5, <5>6
        <4>5. ASSUME NEW i \in Usable(graph, w, x), i < n + 1
              PROVE  \/ EdgeCost(graph[w][j]) < EdgeCost(graph[w][i])
                     \/ EdgeCost(graph[w][j]) = EdgeCost(graph[w][i]) /\ j <= i
          <5>1. CASE i = n
            <6>1. EdgeCost(graph[w][j]) <= EdgeCost(graph[w][n])
              BY <5>1, <4>4
            <6>2. EdgeCost(graph[w][j]) \in Nat /\ EdgeCost(graph[w][n]) \in Nat /\ j \in Nat
              BY <4>2, <4>3, <5>1, <1>1, SameTurn
            <6> QED BY <6>1, <6>2, <5>1, <4>3
          <5>2. CASE i # n
            <6>1. i < n
              BY <5>2, <4>2, <4>5
            <6> QED BY <6>1, <4>3
          <5> QED BY <5>1, <5>2
        <4>6. j < n + 1
          BY <4>2, <4>3
        <4>7. FirstScanned(w, x, j)'
          BY <4>1, <4>3, <4>5, <4>6, <1>1 DEF FirstScanned
        <4> QED BY <4>7, <3>2
      <3> QED BY <3>1, <3>2
    <2>3. /\ prev'[v] = y /\ Closed(y)' /\ ~EdgeBlocked(call'.bans, y, v)
          /\ inbound'[v] = HeadingTo(y, v)' /\ j \in DOMAIN graph'[y]
          /\ g'[v] = g'[y] + StepCost(y, j)'
          /\ geo'[v] = geo'[y] + graph'[y][j].distance_nm
      BY <1>8, <2>1, <1>1, <1>2, <1>3, <1>4 DEF FromStep
    <2> QED BY <2>2, <2>3 DEF FromStep
  <1>9. Parents'
    <2>1. ASSUME NEW v \in Vertex, FromSeed(v) PROVE FromSeed(v)'
      BY <2>1, <1>1, <1>2 DEF FromSeed
    <2>2. ASSUME NEW v \in Vertex, Live(v)'
          PROVE  ~NodeBlocked(call'.bans, v) /\ (FromSeed(v)' \/ \E y \in Vertex : FromStep(v, y)')
      <3>1. Live(v) /\ ~NodeBlocked(call.bans, v) /\ (FromSeed(v) \/ \E y \in Vertex : FromStep(v, y))
        BY <2>2, <1>1, <1>3 DEF SearchInv, Parents
      <3> QED BY <3>1, <2>1, <1>1, <1>8
    <2> QED BY <2>2 DEF Parents
  <1>10. Chains'
    <2>1. ASSUME NEW v, NEW p, ChainTo(v, p) PROVE ChainTo(v, p)'
      <3>1. \A i \in 1..(Len(p) - 1) : Closed(p[i])' <=> Closed(p[i])
        BY <1>2 DEF Closed
      <3> QED BY <2>1, <3>1, <1>2 DEF ChainTo
    <2> QED BY <1>1, <1>3, <2>1 DEF SearchInv, Chains
  <1>11. ClosedLive'
    BY <1>1, <1>3 DEF SearchInv, ClosedLive
  <1>12. Opens'
    BY <1>1, <1>2, <1>3 DEF SearchInv, Opens, Types, AStarTypeOK
  <1>13. Keys'
    BY <1>1, <1>2, <1>3 DEF SearchInv, Keys
  <1>14. BestSoFar'
    <2>1. bestGoal # kNoVertex => bestGoal \in Vertex
      BY <1>1 DEF Types, AStarTypeOK
    <2> QED BY <2>1, <1>1, <1>3 DEF SearchInv, BestSoFar
  <1> QED BY <1>6, <1>7, <1>9, <1>10, <1>11, <1>12, <1>13, <1>14 DEF SearchInv

LEMMA RelaxEdgeKeeps ==
  ASSUME AInv, RelaxEdge
  PROVE  AInv'
  <1>0. PICK e : e = graph[u][cursor]
    OBVIOUS
  <1>1. pc = "relax" /\ pc' = pc /\ result' = result
    BY <1>0, EdgeAtHand
  <1>2. SearchInv'
    BY <1>0, ImproveKeeps, NoGainKeeps
  <1>3. Types'
    BY EdgeTypesKeep
  <1> QED BY <1>1, <1>2, <1>3 DEF AInv, Busy

(***************************************************************************)
(* Expanding a vertex.                                                     *)
(***************************************************************************)
\* What finishing at a reached goal costs.
LEMMA TotalAtGoal ==
  ASSUME Types, NEW v \in Vertex, Live(v), call.goalSeed[v] >= 0
  PROVE  /\ TotalAt(v) = g[v] + call.goalSeed[v] + TurnCost(call.turn, inbound[v], call.goalBearing[v])
         /\ TotalAt(v) \in Nat
         /\ TurnCost(call.turn, inbound[v], call.goalBearing[v]) \in Nat
         /\ call.goalSeed[v] \in Nat /\ g[v] \in Nat
         /\ ~call.turn => TotalAt(v) = g[v] + call.goalSeed[v]
  <1>1. call.goalSeed[v] \in Nat /\ g[v] \in Nat
    BY DEF Types, AStarTypeOK, CallOK
  <1>2. inbound[v] \in Heading /\ call.turn \in BOOLEAN /\ call.goalBearing[v] \in Heading
    BY HeadingsKnown, Zenon
  <1>3. PICK t : t = TurnCost(call.turn, inbound[v], call.goalBearing[v])
    OBVIOUS
  <1>4. t \in Nat /\ (~call.turn => t = 0)
    BY <1>2, <1>3, TurnNat
  <1>5. TotalAt(v) = Plus(g[v], call.goalSeed[v] + t)
    BY <1>3 DEF TotalAt, G, Inbound
  <1>6. TotalAt(v) = g[v] + call.goalSeed[v] + t /\ TotalAt(v) \in Nat
    BY <1>1, <1>4, <1>5 DEF Plus, kInfinity
  <1> QED BY <1>1, <1>3, <1>4, <1>6

\* The entry popped carries its vertex's key.
LEMMA TopIsKey ==
  ASSUME Types, Opens, pc = "pop", NEW top \in Tops, ~Closed(top.vertex)
  PROVE  /\ top \in open /\ top.vertex \in Vertex /\ Live(top.vertex)
         /\ top.f = Key(top.vertex) /\ top.f \in Cost
         /\ \A o \in open : o.f \in Cost /\ ~Below(o.f, top.f)
  <1>1. top \in open /\ \A o \in open : ~Below(o.f, top.f)
    BY DEF Tops
  <1>2. \A o \in open : o.f \in Cost /\ o.vertex \in Vertex
    BY DEF Types, AStarTypeOK, Cost
  <1>3. Live(top.vertex) /\ ~Below(top.f, Key(top.vertex)) /\ top.vertex \in Vertex
    BY <1>1, <1>2 DEF Opens
  <1>4. PICK o \in open : o.f = Key(top.vertex)
    BY <1>3 DEF Opens
  <1>5. ~Below(Key(top.vertex), top.f) /\ Key(top.vertex) \in Cost /\ top.f \in Cost
    BY <1>1, <1>2, <1>4
  <1>6. top.f = Key(top.vertex)
    BY <1>3, <1>5 DEF Below, Cost, kInfinity
  <1> QED BY <1>1, <1>2, <1>3, <1>6

LEMMA ExpandKeeps ==
  ASSUME AInv, Expand
  PROVE  AInv'
  <1>1. /\ pc = "pop" /\ pc' = "relax" /\ cursor' = 1 /\ Types /\ SearchInv
        /\ UNCHANGED <<graph, call, result>>
    BY DEF Expand, AInv, Busy
  <1>t. PICK top \in Tops :
          /\ ~Closed(top.vertex)
          /\ Below(top.f, bestTotal)
          /\ open' = open \ {top}
          /\ u' = top.vertex
          /\ MarkClosed(top.vertex)
          /\ IF call.goalSeed[top.vertex] >= 0 /\ Below(TotalAt(top.vertex), bestTotal)
               THEN bestTotal' = TotalAt(top.vertex) /\ bestGoal' = top.vertex
               ELSE UNCHANGED <<bestTotal, bestGoal>>
    BY DEF Expand
  <1>x. PICK x : x = top.vertex
    OBVIOUS
  <1>2. /\ top \in open /\ x \in Vertex /\ Live(x) /\ ~Closed(x) /\ top.f = Key(x) /\ top.f \in Cost
        /\ \A o \in open : o.f \in Cost /\ ~Below(o.f, top.f)
    BY <1>1, <1>t, <1>x, TopIsKey DEF SearchInv
  <1>3. /\ UNCHANGED <<g, geo, prev, inbound, stamp, generation>> /\ u' = x
        /\ closedStamp' = [closedStamp EXCEPT ![x] = generation]
    BY <1>t, <1>x DEF MarkClosed
  <1>4. /\ \A v \in Vertex : /\ Live(v)' <=> Live(v)
                             /\ Key(v)' = Key(v)
                             /\ TotalAt(v)' = TotalAt(v)
        /\ \A v \in Vertex \ {x} : Closed(v)' <=> Closed(v)
        /\ \A v \in Vertex : Closed(v) => Closed(v)'
        /\ Closed(x)'
    <2>1. closedStamp \in [Vertex -> 0..generation]
      BY <1>1 DEF Types, AStarTypeOK
    <2> QED BY <2>1, <1>1, <1>2, <1>3 DEF Live, Closed, Key, Heuristic, TotalAt, G, Inbound
  <1>5. InRange(call.goals) # {}
    <2>1. Key(x) # kInfinity
      BY <1>2, <1>t DEF Below
    <2>2. InRange(call.goals) = {} => Heuristic(x) = kInfinity
      BY <1>1, <1>2, HeuristicCost DEF Types
    <2> QED BY <2>1, <2>2 DEF Key, Plus
  <1>6. \A y, j, v : /\ StepCost(y, j)' = StepCost(y, j) /\ HeadingTo(y, v)' = HeadingTo(y, v)
                     /\ CanStep(y, j)' <=> CanStep(y, j)
    BY <1>1, <1>3 DEF StepCost, HeadingTo, CanStep
  <1>7. /\ RowBound(x)' = 1
        /\ \A y \in Vertex \ {x} : RowBound(y)' = RowBound(y)
    BY <1>1, <1>3 DEF RowBound
  <1>8. Seeds'
    <2> SUFFICES ASSUME NEW i \in DOMAIN call.sources, i < SeedBound, NEW y \in Vertex,
                        call.sources[i].vertex = y, ~NodeBlocked(call.bans, y)
                 PROVE  Live(y)' /\ g'[y] <= call.sources[i].cost
      BY <1>1 DEF Seeds, SeedBound
    <2>1. Live(y) /\ g[y] <= call.sources[i].cost
      BY <1>1 DEF SearchInv, Seeds
    <2> QED BY <2>1, <1>3, <1>4
  <1>9. Parents'
    <2>1. ASSUME NEW v \in Vertex, FromSeed(v) PROVE FromSeed(v)'
      BY <2>1, <1>1, <1>3 DEF FromSeed
    <2>2. ASSUME NEW v \in Vertex, NEW y \in Vertex, FromStep(v, y) PROVE FromStep(v, y)'
      <3>1. PICK j \in DOMAIN graph[y] : /\ FirstScanned(y, v, j)
                                         /\ g[v] = g[y] + StepCost(y, j)
                                         /\ geo[v] = geo[y] + graph[y][j].distance_nm
        BY <2>2 DEF FromStep
      <3>2. Closed(y) /\ y # x
        BY <2>2, <1>2 DEF FromStep
      <3>3. FirstScanned(y, v, j)'
        BY <3>1, <3>2, <1>1, <1>7 DEF FirstScanned
      <3>4. /\ prev'[v] = y /\ Closed(y)' /\ ~EdgeBlocked(call'.bans, y, v)
            /\ inbound'[v] = HeadingTo(y, v)' /\ j \in DOMAIN graph'[y]
            /\ g'[v] = g'[y] + StepCost(y, j)'
            /\ geo'[v] = geo'[y] + graph'[y][j].distance_nm
        BY <2>2, <3>1, <3>2, <1>1, <1>3, <1>4, <1>6 DEF FromStep
      <3> QED BY <3>3, <3>4 DEF FromStep
    <2>3. ASSUME NEW v \in Vertex, Live(v)'
          PROVE  ~NodeBlocked(call'.bans, v) /\ (FromSeed(v)' \/ \E y \in Vertex : FromStep(v, y)')
      <3>1. ~NodeBlocked(call.bans, v) /\ (FromSeed(v) \/ \E y \in Vertex : FromStep(v, y))
        BY <2>3, <1>1, <1>4 DEF SearchInv, Parents
      <3> QED BY <3>1, <2>1, <2>2, <1>1
    <2> QED BY <2>3 DEF Parents
  <1>10. Chains'
    <2>1. ASSUME NEW v, NEW p, ChainTo(v, p) PROVE ChainTo(v, p)'
      <3>1. p \in Seq(Vertex) /\ Len(p) \in Nat /\ \A i \in 1..Len(p) : p[i] \in Vertex
        BY <2>1 DEF ChainTo
      <3>2. ASSUME NEW i \in 1..(Len(p) - 1) PROVE Closed(p[i])' /\ prev'[p[i + 1]] = p[i]
        <4>1. p[i] \in Vertex /\ Closed(p[i]) /\ prev[p[i + 1]] = p[i]
          BY <2>1, <3>1 DEF ChainTo
        <4> QED BY <4>1, <1>3, <1>4
      <3> QED BY <2>1, <3>2, <1>3 DEF ChainTo
    <2> QED BY <2>1, <1>1, <1>4 DEF SearchInv, Chains
  <1>11. ClosedLive'
    BY <1>1, <1>2, <1>4, <1>5 DEF SearchInv, ClosedLive
  <1>12. Scans'
    <2> SUFFICES ASSUME NEW y \in Vertex, Closed(y)', NEW j \in DOMAIN graph[y], j < RowBound(y)',
                        CanStep(y, j), NEW z \in Vertex, graph[y][j].to = z
                 PROVE  Live(z) /\ g[z] <= g[y] + StepCost(y, j)
      <3>1. \A y \in Vertex : \A j \in DOMAIN graph[y] : graph[y][j].to \in Vertex
        BY <1>1, RowFacts DEF Types
      <3> QED BY <3>1, <1>1, <1>3, <1>4, <1>6 DEF Scans
    <2>1. j \in Nat /\ j >= 1
      BY <1>1, RowFacts DEF Types
    <2>2. y # x
      BY <2>1, <1>7
    <2> QED BY <2>2, <1>1, <1>4, <1>7 DEF SearchInv, Scans
  <1>13. Opens'
    <2>1. \A o \in open' : o \in open /\ o.vertex \in Vertex
      BY <1>1, <1>t DEF Types, AStarTypeOK
    <2>2. \A o \in open' : Live(o.vertex)' /\ ~Below(o.f, Key(o.vertex)')
      BY <1>1, <1>4, <2>1 DEF SearchInv, Opens
    <2>3. ASSUME NEW v \in Vertex, Live(v)', ~Closed(v)'
          PROVE  [f |-> Key(v)', vertex |-> v] \in open'
      <3>1. v # x /\ [f |-> Key(v), vertex |-> v] \in open
        BY <1>1, <1>4, <2>3 DEF SearchInv, Opens
      <3>2. [f |-> Key(v), vertex |-> v] # top
        BY <3>1, <1>x
      <3> QED BY <3>1, <3>2, <1>t, <1>4
    <2> QED BY <2>2, <2>3 DEF Opens
  <1>14. Keys'
    <2>1. Key(x) \in Cost /\ ~Below(Key(x), Key(x))
      BY <1>2 DEF Below, Cost, kInfinity
    <2>2. ASSUME NEW y \in Vertex, Closed(y)', NEW o \in open' PROVE ~Below(o.f, Key(y)')
      <3>1. CASE y = x
        BY <3>1, <1>2, <1>4, <1>t
      <3>2. CASE y # x
        BY <3>2, <2>2, <1>1, <1>4, <1>t DEF SearchInv, Keys
      <3> QED BY <3>1, <3>2
    <2>3. ASSUME NEW y \in Vertex, Closed(y)' PROVE ~Below(Key(x)', Key(y)')
      <3>1. CASE y = x
        BY <3>1, <2>1, <1>2, <1>4
      <3>2. CASE y # x
        BY <3>2, <2>3, <1>1, <1>2, <1>4 DEF SearchInv, Keys
      <3> QED BY <3>1, <3>2
    <2>4. Closed(u)' /\ \A y \in Vertex : Closed(y)' => ~Below(Key(u)', Key(y)')
      <3>1. Key(u)' = Key(x)' /\ (Closed(u)' <=> Closed(x)')
        BY <1>3 DEF Key, Closed, Heuristic
      <3> QED BY <3>1, <2>3, <1>4
    <2> QED BY <2>2, <2>4 DEF Keys
  <1>15. BestSoFar'
    <2>1. /\ bestTotal \in Cost
          /\ bestGoal = kNoVertex => bestTotal = kInfinity
          /\ bestGoal # kNoVertex => /\ bestGoal \in Vertex /\ Closed(bestGoal)
                                     /\ call.goalSeed[bestGoal] >= 0 /\ bestTotal = TotalAt(bestGoal)
          /\ \A v \in Vertex : (Closed(v) /\ call.goalSeed[v] >= 0) =>
                bestGoal # kNoVertex /\ ~Below(TotalAt(v), bestTotal) /\ TotalAt(v) \in Nat
      <3>1. \A v \in Vertex : (Closed(v) /\ call.goalSeed[v] >= 0) => TotalAt(v) \in Nat
        BY <1>1, TotalAtGoal DEF SearchInv, ClosedLive
      <3> QED BY <3>1, <1>1 DEF SearchInv, BestSoFar, Types, AStarTypeOK, Cost
    <2>2. call.goalSeed[x] >= 0 => TotalAt(x) \in Nat
      BY <1>1, <1>2, TotalAtGoal
    <2>3. x # kNoVertex
      BY <1>2, VertexFinite
    <2>4. CASE call.goalSeed[x] >= 0 /\ Below(TotalAt(x), bestTotal)
      <3>1. bestTotal' = TotalAt(x) /\ bestGoal' = x
        BY <2>4, <1>t, <1>x
      <3>2. ASSUME NEW v \in Vertex, Closed(v)', call.goalSeed[v] >= 0
            PROVE  ~Below(TotalAt(v)', bestTotal')
        <4>1. CASE v = x
          BY <4>1, <3>1, <2>2, <2>4, <1>2, <1>4 DEF Below, kInfinity
        <4>2. CASE v # x
          <5>1. ~Below(TotalAt(v), bestTotal) /\ TotalAt(v) \in Nat
            BY <4>2, <3>2, <2>1, <1>4
          <5>2. ~Below(TotalAt(v), TotalAt(x))
            BY <5>1, <2>1, <2>2, <2>4 DEF Below, Cost, kInfinity
          <5> QED BY <5>2, <3>1, <1>4
        <4> QED BY <4>1, <4>2
      <3>3. TotalAt(bestGoal)' = TotalAt(x) /\ Closed(bestGoal)'
        BY <3>1, <1>2, <1>4 DEF TotalAt, Closed, G, Inbound, Live
      <3> QED BY <3>1, <3>2, <3>3, <2>3, <2>4, <1>1 DEF BestSoFar
    <2>5. CASE ~(call.goalSeed[x] >= 0 /\ Below(TotalAt(x), bestTotal))
      <3>1. bestTotal' = bestTotal /\ bestGoal' = bestGoal
        BY <2>5, <1>t, <1>x
      <3>2. ASSUME NEW v \in Vertex, Closed(v)', call.goalSeed[v] >= 0
            PROVE  bestGoal # kNoVertex /\ ~Below(TotalAt(v)', bestTotal')
        <4>1. CASE v = x
          <5>1. ~Below(TotalAt(x), bestTotal) /\ TotalAt(x) \in Nat
            BY <4>1, <3>2, <2>2, <2>5
          <5>2. bestTotal # kInfinity
            BY <5>1 DEF Below, kInfinity
          <5> QED BY <5>1, <5>2, <4>1, <3>1, <2>1, <1>4
        <4>2. CASE v # x
          BY <4>2, <3>1, <3>2, <2>1, <1>4
        <4> QED BY <4>1, <4>2
      <3>3. bestGoal # kNoVertex => TotalAt(bestGoal)' = TotalAt(bestGoal) /\ Closed(bestGoal)'
        <4>1. ASSUME bestGoal # kNoVertex PROVE TotalAt(bestGoal)' = TotalAt(bestGoal) /\ Closed(bestGoal)'
          <5>1. PICK b \in Vertex : b = bestGoal
            BY <4>1, <2>1
          <5>2. TotalAt(b)' = TotalAt(b) /\ Closed(b)'
            BY <5>1, <4>1, <2>1, <1>4
          <5> QED BY <5>1, <5>2, <3>1
        <4> QED BY <4>1
      <3> QED BY <3>1, <3>2, <3>3, <2>1, <1>1 DEF BestSoFar
    <2> QED BY <2>4, <2>5
  <1>16. Types'
    <2>1. CallOK(call)' /\ IsGraph(graph)' /\ result'.found \in BOOLEAN
      BY <1>1 DEF Types
    <2>2. /\ g' \in [Vertex -> Nat] /\ geo' \in [Vertex -> Nat]
          /\ prev' \in [Vertex -> Vertex \cup {kNoVertex}]
          /\ inbound' \in [Vertex -> (0..359) \cup {kNoBearing}]
          /\ stamp' \in [Vertex -> 0..generation'] /\ closedStamp' \in [Vertex -> 0..generation']
          /\ generation' \in Nat
          /\ \A o \in open' : o.f \in Nat \cup {kInfinity} /\ o.vertex \in Vertex
      BY <1>1, <1>2, <1>3, <1>t DEF Types, AStarTypeOK
    <2>3. call.goalSeed[x] >= 0 => TotalAt(x) \in Nat
      BY <1>1, <1>2, TotalAtGoal
    <2>4. /\ pc' \in {"idle", "seed", "pop", "relax", "walk", "done"}
          /\ cursor' \in Nat \ {0} /\ u' \in Vertex \cup {kNoVertex} /\ u' \in Vertex
          /\ bestTotal' \in Nat \cup {kInfinity} /\ bestGoal' \in Vertex \cup {kNoVertex}
      <3>1. bestTotal \in Nat \cup {kInfinity} /\ bestGoal \in Vertex \cup {kNoVertex}
        BY <1>1 DEF Types, AStarTypeOK
      <3> QED BY <3>1, <2>3, <1>1, <1>2, <1>3, <1>t, <1>x
    <2>5. AStarTypeOK'
      BY <2>2, <2>4 DEF AStarTypeOK
    <2> QED BY <2>1, <2>5 DEF Types
  <1>17. SearchInv'
    BY <1>8, <1>9, <1>10, <1>11, <1>12, <1>13, <1>14, <1>15 DEF SearchInv
  <1> QED BY <1>1, <1>16, <1>17 DEF AInv, Busy

(***************************************************************************)
(* When the loop ends, no route is missed.                                 *)
(***************************************************************************)
LEMMA SourceReached ==
  ASSUME Types, Seeds, pc = "pop", NEW v \in Vertex,
         BuildSeedTable(call.sources)[v] >= 0, ~NodeBlocked(call.bans, v)
  PROVE  /\ Live(v) /\ g[v] <= BuildSeedTable(call.sources)[v]
         /\ BuildSeedTable(call.sources)[v] \in Nat
  <1>1. call.sources \in Seq(SeededEndpoint)
    BY DEF Types, CallOK
  <1>2. BuildSeedTable(call.sources)[v] \in Nat /\ AtVertex(call.sources, v) # {}
    <2>1. BuildSeedTable(call.sources)[v] \in Nat \cup {-1}
          /\ (AtVertex(call.sources, v) = {} <=> BuildSeedTable(call.sources)[v] = -1)
      BY <1>1, SeedTable
    <2> QED BY <2>1
  <1>3. PICK i \in AtVertex(call.sources, v) : call.sources[i].cost = BuildSeedTable(call.sources)[v]
    BY <1>1, <1>2, SeedTable
  <1>4. i \in DOMAIN call.sources /\ call.sources[i].vertex = v
    BY <1>3 DEF AtVertex
  <1>5. i < SeedBound
    BY <1>1, <1>4, EndpointFacts DEF SeedBound
  <1> QED BY <1>2, <1>3, <1>4, <1>5 DEF Seeds

LEMMA StepReached ==
  ASSUME Types, Scans, pc = "pop", NEW w \in Vertex, Closed(w), NEW v \in Vertex,
         ~NodeBlocked(call.bans, v), ~EdgeBlocked(call.bans, w, v),
         NEW i \in Usable(graph, w, v)
  PROVE  Live(v) /\ g[v] <= g[w] + StepCost(w, i)
  <1>1. i \in DOMAIN graph[w] /\ graph[w][i].to = v /\ graph[w][i].allowed
    BY DEF Usable
  <1>2. CanStep(w, i)
    BY <1>1 DEF CanStep
  <1>3. i < RowBound(w)
    BY <1>1, RowFacts DEF RowBound, Types
  <1> QED BY <1>1, <1>2, <1>3 DEF Scans

LEMMA FlyableFacts ==
  ASSUME NEW gr, NEW c, NEW p, Flyable(gr, c, p)
  PROVE  /\ p \in Seq(Vertex) /\ Len(p) \in Nat /\ Len(p) >= 1 /\ DOMAIN p = 1..Len(p)
         /\ \A i \in 1..Len(p) : p[i] \in Vertex /\ ~NodeBlocked(c.bans, p[i])
         /\ \A i \in 1..(Len(p) - 1) : /\ p[i] \in Vertex /\ p[i + 1] \in Vertex
                                       /\ ~NodeBlocked(c.bans, p[i + 1])
                                       /\ ~EdgeBlocked(c.bans, p[i], p[i + 1])
                                       /\ Usable(gr, p[i], p[i + 1]) # {}
         /\ BuildSeedTable(c.sources)[p[1]] >= 0
  <1>1. p \in Seq(Vertex) /\ Len(p) \in Nat /\ Len(p) >= 1 /\ DOMAIN p = 1..Len(p)
    BY EmptySeq, LenProperties DEF Flyable
  <1>2. \A i \in 1..Len(p) : p[i] \in Vertex /\ ~NodeBlocked(c.bans, p[i])
    BY <1>1, ElementOfSeq DEF Flyable
  <1>3. \A i \in 1..(Len(p) - 1) : i \in 1..Len(p) /\ i + 1 \in 1..Len(p)
    BY <1>1
  <1> QED BY <1>1, <1>2, <1>3 DEF Flyable

\* With nothing left in the open set, everything a route can fly through is closed.
LEMMA NothingLeft ==
  ASSUME Types, SearchInv, pc = "pop", open = {}, NEW p, Flyable(graph, call, p)
  PROVE  Closed(p[Len(p)])
  <1>1. /\ Len(p) \in Nat /\ Len(p) >= 1
        /\ \A i \in 1..Len(p) : p[i] \in Vertex /\ ~NodeBlocked(call.bans, p[i])
        /\ \A i \in 1..(Len(p) - 1) : /\ p[i] \in Vertex /\ p[i + 1] \in Vertex
                                      /\ ~NodeBlocked(call.bans, p[i + 1])
                                      /\ ~EdgeBlocked(call.bans, p[i], p[i + 1])
                                      /\ Usable(graph, p[i], p[i + 1]) # {}
        /\ BuildSeedTable(call.sources)[p[1]] >= 0
    BY FlyableFacts
  <1>2. \A v \in Vertex : Live(v) => Closed(v)
    BY DEF SearchInv, Opens
  <1> DEFINE S == {k \in Nat : k + 1 <= Len(p) => Closed(p[k + 1])}
  <1>3. 0 \in S
    <2>1. p[1] \in Vertex /\ ~NodeBlocked(call.bans, p[1])
      BY <1>1
    <2>2. Live(p[1])
      BY <2>1, <1>1, SourceReached DEF SearchInv
    <2> QED BY <2>1, <2>2, <1>2
  <1>4. ASSUME NEW k \in Nat, k \in S PROVE k + 1 \in S
    <2>1. CASE (k + 1) + 1 <= Len(p)
      <3>1. k + 1 \in 1..(Len(p) - 1) /\ k + 1 <= Len(p)
        BY <2>1, <1>1
      <3>2. PICK w \in Vertex : w = p[k + 1]
        BY <3>1, <1>1
      <3>3. PICK v \in Vertex : v = p[(k + 1) + 1]
        BY <3>1, <1>1
      <3>4. PICK i : i \in Usable(graph, w, v)
        BY <3>1, <3>2, <3>3, <1>1
      <3>5. Closed(w) /\ ~NodeBlocked(call.bans, v) /\ ~EdgeBlocked(call.bans, w, v)
        BY <1>4, <3>1, <3>2, <3>3, <1>1
      <3>6. Live(v)
        BY <3>4, <3>5, StepReached DEF SearchInv
      <3> QED BY <3>3, <3>6, <1>2
    <2>2. CASE ~((k + 1) + 1 <= Len(p))
      BY <2>2
    <2> QED BY <2>1, <2>2
  <1> HIDE DEF S
  <1>5. Len(p) - 1 \in S
    BY <1>1, <1>3, <1>4, NatSetInduction
  <1> QED BY <1>1, <1>5 DEF S

\* Without a goal reached there is no route.
LEMMA NoGoalNoRoute ==
  ASSUME Types, SearchInv, pc = "pop", bestGoal = kNoVertex,
         open = {} \/ \E top \in Tops : ~Closed(top.vertex) /\ ~Below(top.f, bestTotal)
  PROVE  Routes(graph, call) = {}
  <1> SUFFICES ASSUME NEW p \in Routes(graph, call) PROVE FALSE
    OBVIOUS
  <1>1. Flyable(graph, call, p) /\ call.goalSeed[p[Len(p)]] >= 0
    BY RoutesAre
  <1>2. p[Len(p)] \in Vertex
    BY <1>1, FlyableFacts
  <1>3. CASE open = {}
    <2>1. Closed(p[Len(p)])
      BY <1>1, <1>3, NothingLeft
    <2> QED BY <2>1, <1>1, <1>2 DEF SearchInv, BestSoFar
  <1>4. CASE open # {}
    <2>1. PICK top \in Tops : ~Closed(top.vertex) /\ ~Below(top.f, bestTotal)
      BY <1>4
    <2>2. top.vertex \in Vertex /\ top.f = Key(top.vertex) /\ top.f \in Cost
      BY <2>1, TopIsKey DEF SearchInv
    <2>3. bestTotal = kInfinity
      BY DEF SearchInv, BestSoFar
    <2>4. Key(top.vertex) = kInfinity
      BY <2>1, <2>2, <2>3 DEF Below
    <2>5. InRange(call.goals) # {}
      BY <1>1, <1>2, HeuristicCost DEF Types
    <2>6. Key(top.vertex) \in Nat
      BY <2>2, <2>5, KeyCost
    <2> QED BY <2>4, <2>6 DEF kInfinity
  <1> QED BY <1>3, <1>4

(***************************************************************************)
(* What a route costs when turns cost nothing: the seeds and the cheapest  *)
(* edge of every step.                                                     *)
(***************************************************************************)
StepsOf(gr, p) == [i \in 1..(Len(p) - 1) |-> EdgeCost(SelectEdge(gr, p[i], p[i + 1]))]

UpTo(gr, c, p, i) == BuildSeedTable(c.sources)[p[1]] + Total(StepsOf(gr, p), i - 1)

LEMMA StraightCost ==
  ASSUME Types, ~call.turn, NEW p, Flyable(graph, call, p), call.goalSeed[p[Len(p)]] >= 0
  PROVE  /\ RouteCost(graph, call, p) = UpTo(graph, call, p, Len(p)) + call.goalSeed[p[Len(p)]]
         /\ call.goalSeed[p[Len(p)]] \in Nat
         /\ \A i \in 1..Len(p) : UpTo(graph, call, p, i) \in Nat
         /\ UpTo(graph, call, p, 1) = BuildSeedTable(call.sources)[p[1]]
         /\ \A i \in 1..(Len(p) - 1) : \E j \in Usable(graph, p[i], p[i + 1]) :
               /\ UpTo(graph, call, p, i + 1) = UpTo(graph, call, p, i) + StepCost(p[i], j)
               /\ StepCost(p[i], j) \in Nat
  <1>1. /\ p \in Seq(Vertex) /\ Len(p) \in Nat /\ Len(p) >= 1 /\ DOMAIN p = 1..Len(p)
        /\ \A i \in 1..Len(p) : p[i] \in Vertex
        /\ \A i \in 1..(Len(p) - 1) : /\ p[i] \in Vertex /\ p[i + 1] \in Vertex
                                      /\ Usable(graph, p[i], p[i + 1]) # {}
        /\ BuildSeedTable(call.sources)[p[1]] >= 0
    BY FlyableFacts, SMTT(30)
  <1>n. PICK n \in Nat : n = Len(p)
    BY <1>1
  <1>s. PICK s : s = BuildSeedTable(call.sources)[p[1]]
    OBVIOUS
  <1>2. s \in Nat /\ call.goalSeed[p[Len(p)]] \in Nat
    <2>1. p[1] \in Vertex /\ p[Len(p)] \in Vertex
      BY <1>1
    <2>2. BuildSeedTable(call.sources)[p[1]] \in Nat \cup {-1}
      BY <2>1, SeedTable DEF Types, CallOK
    <2>3. call.goalSeed[p[Len(p)]] \in Nat \cup {-1}
      BY <2>1 DEF Types, CallOK
    <2> QED BY <2>2, <2>3, <1>1, <1>s
  <1> DEFINE F == StepsOf(graph, p)
  <1>3. ASSUME NEW i \in 1..(Len(p) - 1)
        PROVE  \E j \in Usable(graph, p[i], p[i + 1]) :
                  F[i] = StepCost(p[i], j) /\ StepCost(p[i], j) \in Nat
    <2>1. PICK w \in Vertex : w = p[i]
      BY <1>1
    <2>2. PICK v \in Vertex : v = p[i + 1]
      BY <1>1
    <2>3. PICK j \in DOMAIN graph[w] : FirstCheapest(graph, w, v, j)
      BY <2>1, <2>2, <1>1, SelectSome DEF Types
    <2>4. SelectEdge(graph, w, v) = graph[w][j] /\ j \in Usable(graph, w, v) /\ graph[w][j].to = v
      BY <2>3, SelectIs DEF Types, FirstCheapest, Usable
    <2>5. StepCost(w, j) \in Nat /\ EdgeCost(graph[w][j]) \in Nat /\ HeadingTo(w, v) \in Heading
      BY <2>3, <2>4, StepNat
    <2>6. TurnCost(call.turn, inbound[w], HeadingTo(w, v)) = 0
      BY DEF TurnCost
    <2>7. StepCost(w, j) = EdgeCost(graph[w][j])
      BY <2>4, <2>5, <2>6 DEF StepCost
    <2>8. F[i] = EdgeCost(SelectEdge(graph, w, v))
      BY <2>1, <2>2 DEF StepsOf
    <2> QED BY <2>1, <2>2, <2>4, <2>5, <2>7, <2>8
  <1>4. \A i \in 1..(n - 1) : F[i] \in Nat
    BY <1>3, <1>n
  <1> HIDE DEF F
  <1>5. \A i \in 1..n : Total(F, i - 1) \in Nat
    <2> SUFFICES ASSUME NEW i \in 1..n PROVE Total(F, i - 1) \in Nat
      OBVIOUS
    <2>1. PICK k \in Nat : k = i - 1 /\ k <= n - 1
      OBVIOUS
    <2>2. \A l \in 1..k : F[l] \in Nat
      BY <2>1, <1>4
    <2>3. Total(F, k) \in Nat
      BY <2>2, TotalNat
    <2> QED BY <2>1, <2>3
  <1>6. \A i : UpTo(graph, call, p, i) = s + Total(F, i - 1)
    BY <1>s DEF UpTo, F
  <1>7. UpTo(graph, call, p, 1) = s
    <2>1. Total(F, 1 - 1) = 0
      BY TotalSteps
    <2> QED BY <2>1, <1>2, <1>6
  <1>8. ASSUME NEW i \in 1..(n - 1)
        PROVE  UpTo(graph, call, p, i + 1) = UpTo(graph, call, p, i) + F[i]
    <2>1. PICK k \in Nat : k = i - 1
      OBVIOUS
    <2>2. Total(F, k + 1) = Total(F, k) + F[k + 1]
      BY TotalSteps
    <2>3. k + 1 = i /\ (i + 1) - 1 = k + 1 /\ i \in 1..n
      BY <2>1
    <2>4. Total(F, k) \in Nat /\ F[i] \in Nat
      BY <2>1, <2>3, <1>4, <1>5
    <2>5. UpTo(graph, call, p, i + 1) = s + Total(F, k + 1) /\ UpTo(graph, call, p, i) = s + Total(F, k)
      BY <2>1, <2>3, <1>6
    <2> QED BY <2>2, <2>3, <2>4, <2>5, <1>2
  <1>9. RouteCost(graph, call, p) = UpTo(graph, call, p, Len(p)) + call.goalSeed[p[Len(p)]]
    <2> DEFINE turnAt == [i \in DOMAIN p |->
                  TurnCost(call.turn, InboundAt(p, call.sourceBearing[Head(p)], i),
                                      OutboundAt(p, call.goalBearing[p[Len(p)]], i))]
    <2>1. Total(turnAt, n) = 0
      <3>1. \A i \in 1..n : turnAt[i] = 0
        BY <1>1, <1>n DEF TurnCost
      <3> HIDE DEF turnAt
      <3> QED BY <3>1, TotalZero
    <2>2. Head(p) = p[1]
      BY <1>1
    <2>3. CostOfPath(graph, p, call.turn, call.sourceBearing[Head(p)], call.goalBearing[p[Len(p)]])
            = Total(F, n - 1) + Total(turnAt, n)
      BY <1>n DEF CostOfPath, F, StepsOf
    <2>4. RouteCost(graph, call, p) = s + call.goalSeed[p[Len(p)]] + (Total(F, n - 1) + Total(turnAt, n))
      BY <2>2, <2>3, <1>s DEF RouteCost, CostOfPathMulti
    <2>5. Total(F, n - 1) \in Nat
      BY <1>5, <1>1, <1>n
    <2>6. UpTo(graph, call, p, Len(p)) = s + Total(F, n - 1)
      BY <1>6, <1>n
    <2> HIDE DEF turnAt
    <2> QED BY <2>1, <2>4, <2>5, <2>6, <1>2
  <1>10. \A i \in 1..Len(p) : UpTo(graph, call, p, i) \in Nat
    BY <1>2, <1>5, <1>6, <1>n
  <1>11. ASSUME NEW i \in 1..(Len(p) - 1)
         PROVE  \E j \in Usable(graph, p[i], p[i + 1]) :
               /\ UpTo(graph, call, p, i + 1) = UpTo(graph, call, p, i) + StepCost(p[i], j)
               /\ StepCost(p[i], j) \in Nat
    BY <1>3, <1>8, <1>n
  <1> QED BY <1>2, <1>7, <1>9, <1>10, <1>11, <1>s

\* Along a route, the search has closed every vertex at no more than the route's
\* cost so far, or it holds one of them open.
LEMMA Frontier ==
  ASSUME Types, SearchInv, pc = "pop", ~call.turn, NEW p, Flyable(graph, call, p),
         call.goalSeed[p[Len(p)]] >= 0
  PROVE  \/ Closed(p[Len(p)]) /\ g[p[Len(p)]] <= UpTo(graph, call, p, Len(p))
         \/ \E m \in 1..Len(p) : /\ Live(p[m]) /\ ~Closed(p[m])
                                 /\ g[p[m]] <= UpTo(graph, call, p, m)
  <1>1. /\ Len(p) \in Nat /\ Len(p) >= 1
        /\ \A i \in 1..Len(p) : p[i] \in Vertex /\ ~NodeBlocked(call.bans, p[i])
        /\ \A i \in 1..(Len(p) - 1) : /\ p[i] \in Vertex /\ p[i + 1] \in Vertex
                                      /\ ~NodeBlocked(call.bans, p[i + 1])
                                      /\ ~EdgeBlocked(call.bans, p[i], p[i + 1])
        /\ BuildSeedTable(call.sources)[p[1]] >= 0
    BY FlyableFacts
  <1>2. /\ \A i \in 1..Len(p) : UpTo(graph, call, p, i) \in Nat
        /\ UpTo(graph, call, p, 1) = BuildSeedTable(call.sources)[p[1]]
        /\ \A i \in 1..(Len(p) - 1) : \E j \in Usable(graph, p[i], p[i + 1]) :
              /\ UpTo(graph, call, p, i + 1) = UpTo(graph, call, p, i) + StepCost(p[i], j)
              /\ StepCost(p[i], j) \in Nat
    BY StraightCost
  <1>a. PICK a : a = [i \in 1..Len(p) |-> UpTo(graph, call, p, i)]
    OBVIOUS
  <1> SUFFICES ASSUME ~ \E m \in 1..Len(p) : Live(p[m]) /\ ~Closed(p[m]) /\ g[p[m]] <= a[m]
               PROVE  Closed(p[Len(p)]) /\ g[p[Len(p)]] <= a[Len(p)]
    BY <1>1, <1>a
  <1> DEFINE S == {k \in Nat : k + 1 <= Len(p) => Closed(p[k + 1]) /\ g[p[k + 1]] <= a[k + 1]}
  <1>3. 0 \in S
    <2>1. p[1] \in Vertex /\ ~NodeBlocked(call.bans, p[1]) /\ 1 \in 1..Len(p)
      BY <1>1
    <2>2. Live(p[1]) /\ g[p[1]] <= a[1]
      BY <2>1, <1>1, <1>2, <1>a, SourceReached DEF SearchInv
    <2> QED BY <2>1, <2>2
  <1>4. ASSUME NEW k \in Nat, k \in S PROVE k + 1 \in S
    <2>1. CASE (k + 1) + 1 <= Len(p)
      <3>1. k + 1 \in 1..(Len(p) - 1) /\ k + 1 <= Len(p) /\ k + 1 \in 1..Len(p)
            /\ (k + 1) + 1 \in 1..Len(p)
        BY <2>1, <1>1
      <3>2. PICK w \in Vertex : w = p[k + 1]
        BY <3>1, <1>1
      <3>3. PICK v \in Vertex : v = p[(k + 1) + 1]
        BY <3>1, <1>1
      <3>4. PICK i \in Usable(graph, w, v) :
               a[(k + 1) + 1] = a[k + 1] + StepCost(w, i) /\ StepCost(w, i) \in Nat
        BY <3>1, <3>2, <3>3, <1>2, <1>a
      <3>5. /\ Closed(w) /\ ~NodeBlocked(call.bans, v) /\ ~EdgeBlocked(call.bans, w, v)
            /\ g[w] <= a[k + 1]
        BY <1>4, <3>1, <3>2, <3>3, <1>1
      <3>6. Live(v) /\ g[v] <= g[w] + StepCost(w, i)
        BY <3>4, <3>5, StepReached DEF SearchInv
      <3>7. g[v] \in Nat /\ g[w] \in Nat /\ a[k + 1] \in Nat
        BY <3>1, <1>2, <1>a, KeyCost
      <3>8. g[v] <= a[(k + 1) + 1]
        BY <3>4, <3>5, <3>6, <3>7
      <3> QED BY <3>1, <3>3, <3>6, <3>8
    <2>2. CASE ~((k + 1) + 1 <= Len(p))
      BY <2>2
    <2> QED BY <2>1, <2>2
  <1> HIDE DEF S
  <1>5. Len(p) - 1 \in S
    BY <1>1, <1>3, <1>4, NatSetInduction, SMTT(40)
  <1> QED BY <1>1, <1>5 DEF S

\* The bound at any vertex of a route, on top of the cost so far, is no more than
\* the whole route costs.
LEMMA Admissible ==
  ASSUME Types, ~call.turn, NEW p, Flyable(graph, call, p), call.goalSeed[p[Len(p)]] >= 0,
         NEW m \in 1..Len(p)
  PROVE  /\ UpTo(graph, call, p, m) + Heuristic(p[m]) <= RouteCost(graph, call, p)
         /\ Heuristic(p[m]) \in Nat /\ InRange(call.goals) # {}
         /\ UpTo(graph, call, p, m) \in Nat /\ RouteCost(graph, call, p) \in Nat
  <1>1. /\ Len(p) \in Nat /\ Len(p) >= 1
        /\ \A i \in 1..Len(p) : p[i] \in Vertex
        /\ \A i \in 1..(Len(p) - 1) : p[i] \in Vertex /\ p[i + 1] \in Vertex
    BY FlyableFacts
  <1>2. /\ RouteCost(graph, call, p) = UpTo(graph, call, p, Len(p)) + call.goalSeed[p[Len(p)]]
        /\ call.goalSeed[p[Len(p)]] \in Nat
        /\ \A i \in 1..Len(p) : UpTo(graph, call, p, i) \in Nat
        /\ \A i \in 1..(Len(p) - 1) : \E j \in Usable(graph, p[i], p[i + 1]) :
              /\ UpTo(graph, call, p, i + 1) = UpTo(graph, call, p, i) + StepCost(p[i], j)
              /\ StepCost(p[i], j) \in Nat
    BY StraightCost
  <1>3. InRange(call.goals) # {} /\ Heuristic(p[Len(p)]) <= call.goalSeed[p[Len(p)]]
    BY <1>1, HeuristicCost DEF Types
  <1>4. \A i \in 1..Len(p) : Heuristic(p[i]) \in Nat
    BY <1>1, <1>3, HeuristicCost DEF Types
  <1>n. PICK n \in Nat : n = Len(p)
    BY <1>1
  <1>a. PICK a : a = [i \in 1..n |-> UpTo(graph, call, p, i) + Heuristic(p[i])]
    OBVIOUS
  <1>5. a \in [1..n -> Nat]
    BY <1>2, <1>4, <1>a, <1>n, SMTT(40)
  <1>6. ASSUME NEW i \in 1..(n - 1) PROVE a[i] <= a[i + 1]
    <2>1. PICK w \in Vertex : w = p[i]
      BY <1>1, <1>n
    <2>2. PICK v \in Vertex : v = p[i + 1]
      BY <1>1, <1>n
    <2>3. PICK j \in Usable(graph, w, v) :
             UpTo(graph, call, p, i + 1) = UpTo(graph, call, p, i) + StepCost(w, j)
             /\ StepCost(w, j) \in Nat
      BY <2>1, <2>2, <1>2, <1>n
    <2>4. j \in DOMAIN graph[w] /\ graph[w][j].to = v
      BY DEF Usable
    <2>5. Heuristic(w) <= StepCost(w, j) + Heuristic(v)
      BY <2>4, <1>3, StepNat
    <2>6. Heuristic(w) \in Nat /\ Heuristic(v) \in Nat
      BY <1>3, HeuristicCost DEF Types
    <2>7. i \in 1..n /\ i + 1 \in 1..n
      OBVIOUS
    <2>8. /\ a[i] = UpTo(graph, call, p, i) + Heuristic(w)
          /\ a[i + 1] = UpTo(graph, call, p, i + 1) + Heuristic(v)
          /\ UpTo(graph, call, p, i) \in Nat
      BY <2>1, <2>2, <2>7, <1>2, <1>a, <1>n
    <2> QED BY <2>3, <2>5, <2>6, <2>8
  <1>7. a[m] <= a[n]
    BY <1>5, <1>6, <1>n, NeverFalls
  <1>8. a[m] = UpTo(graph, call, p, m) + Heuristic(p[m]) /\ a[n] = UpTo(graph, call, p, n) + Heuristic(p[n])
    BY <1>1, <1>a, <1>n
  <1>9. UpTo(graph, call, p, n) \in Nat /\ Heuristic(p[n]) \in Nat /\ UpTo(graph, call, p, m) \in Nat
        /\ Heuristic(p[m]) \in Nat
    BY <1>1, <1>2, <1>4, <1>n
  <1> QED BY <1>2, <1>3, <1>7, <1>8, <1>9, <1>n

\* Stopping at the first f that cannot win loses nothing.
LEMMA StopIsSafe ==
  ASSUME Types, SearchInv, pc = "pop", bestGoal # kNoVertex,
         open = {} \/ \E top \in Tops : ~Closed(top.vertex) /\ ~Below(top.f, bestTotal)
  PROVE  Settled
  <1> SUFFICES ASSUME ~call.turn, NEW p \in Routes(graph, call)
               PROVE  bestTotal <= RouteCost(graph, call, p)
    BY DEF Settled
  <1>1. Flyable(graph, call, p) /\ call.goalSeed[p[Len(p)]] >= 0
    BY RoutesAre
  <1>2. Len(p) \in Nat /\ Len(p) >= 1 /\ \A i \in 1..Len(p) : p[i] \in Vertex
    BY <1>1, FlyableFacts
  <1>3. bestTotal \in Nat
    <2>1. bestGoal \in Vertex /\ Live(bestGoal) /\ call.goalSeed[bestGoal] >= 0
          /\ bestTotal = TotalAt(bestGoal)
      BY DEF SearchInv, BestSoFar, ClosedLive, Types, AStarTypeOK
    <2> QED BY <2>1, TotalAtGoal
  <1>4. CASE Closed(p[Len(p)]) /\ g[p[Len(p)]] <= UpTo(graph, call, p, Len(p))
    <2>1. PICK v \in Vertex : v = p[Len(p)]
      BY <1>2
    <2>2. Live(v) /\ ~Below(TotalAt(v), bestTotal)
      BY <2>1, <1>1, <1>4 DEF SearchInv, BestSoFar, ClosedLive
    <2>3. /\ TotalAt(v) = g[v] + call.goalSeed[v]
          /\ TotalAt(v) \in Nat /\ call.goalSeed[v] \in Nat /\ g[v] \in Nat
      BY <2>1, <2>2, <1>1, TotalAtGoal
    <2>4. bestTotal <= TotalAt(v)
      BY <2>2, <2>3, <1>3 DEF Below, kInfinity
    <2>5. /\ RouteCost(graph, call, p) = UpTo(graph, call, p, Len(p)) + call.goalSeed[v]
          /\ UpTo(graph, call, p, Len(p)) \in Nat
      BY <1>1, <1>2, <2>1, StraightCost
    <2> QED BY <1>3, <1>4, <2>1, <2>3, <2>4, <2>5
  <1>5. CASE \E m \in 1..Len(p) : /\ Live(p[m]) /\ ~Closed(p[m])
                                  /\ g[p[m]] <= UpTo(graph, call, p, m)
    <2>1. PICK m \in 1..Len(p) : /\ Live(p[m]) /\ ~Closed(p[m])
                                 /\ g[p[m]] <= UpTo(graph, call, p, m)
      BY <1>5
    <2>2. PICK v \in Vertex : v = p[m]
      BY <1>2
    <2>3. [f |-> Key(v), vertex |-> v] \in open
      BY <2>1, <2>2 DEF SearchInv, Opens
    <2>4. PICK top \in Tops : ~Closed(top.vertex) /\ ~Below(top.f, bestTotal)
      BY <2>3
    <2>5. top.f \in Cost /\ ~Below(Key(v), top.f)
      BY <2>3, <2>4, TopIsKey DEF SearchInv
    <2>6. /\ UpTo(graph, call, p, m) + Heuristic(v) <= RouteCost(graph, call, p)
          /\ Heuristic(v) \in Nat /\ InRange(call.goals) # {}
          /\ UpTo(graph, call, p, m) \in Nat /\ RouteCost(graph, call, p) \in Nat
      BY <1>1, <2>2, Admissible
    <2>7. Key(v) = g[v] + Heuristic(v) /\ Key(v) \in Nat /\ g[v] \in Nat
      BY <2>6, KeyCost
    <2>8. bestTotal <= Key(v)
      BY <2>4, <2>5, <2>7, <1>3 DEF Below, Cost, kInfinity
    <2> QED BY <2>1, <2>2, <2>6, <2>7, <2>8, <1>3
  <1> QED BY <1>1, <1>4, <1>5, Frontier

LEMMA SettleKeeps ==
  ASSUME AInv, Settle
  PROVE  AInv'
  <1>1. /\ pc = "pop" /\ Types /\ SearchInv /\ result = NotFound
        /\ u' = bestGoal /\ pc' = IF bestGoal = kNoVertex THEN "done" ELSE "walk"
        /\ UNCHANGED <<graph, call, g, geo, prev, inbound, stamp, closedStamp, generation,
                       cursor, bestTotal, bestGoal, result>>
    BY DEF Settle, AInv, Busy, wsVars
  <1>2. /\ open' \subseteq open
        /\ open = {} \/ \E top \in Tops : ~Closed(top.vertex) /\ ~Below(top.f, bestTotal)
    BY DEF Settle
  <1>3. result.vertices = <<>> /\ result.vertices \in Seq(Vertex) /\ ~result.found
    BY <1>1 DEF NotFound
  <1>4. Types'
    <2>1. CallOK(call)' /\ IsGraph(graph)' /\ result'.found \in BOOLEAN
      BY <1>1 DEF Types
    <2>2. /\ g' \in [Vertex -> Nat] /\ geo' \in [Vertex -> Nat]
          /\ prev' \in [Vertex -> Vertex \cup {kNoVertex}]
          /\ inbound' \in [Vertex -> (0..359) \cup {kNoBearing}]
          /\ stamp' \in [Vertex -> 0..generation'] /\ closedStamp' \in [Vertex -> 0..generation']
          /\ generation' \in Nat
          /\ \A o \in open' : o.f \in Nat \cup {kInfinity} /\ o.vertex \in Vertex
      BY <1>1, <1>2 DEF Types, AStarTypeOK
    <2>3. /\ pc' \in {"idle", "seed", "pop", "relax", "walk", "done"} /\ pc' # "relax"
          /\ cursor' \in Nat \ {0} /\ u' \in Vertex \cup {kNoVertex}
          /\ bestTotal' \in Nat \cup {kInfinity} /\ bestGoal' \in Vertex \cup {kNoVertex}
      BY <1>1 DEF Types, AStarTypeOK
    <2>4. AStarTypeOK'
      BY <2>2, <2>3 DEF AStarTypeOK
    <2> QED BY <2>1, <2>4 DEF Types
  <1>5. CASE bestGoal = kNoVertex
    <2>1. Routes(graph, call) = {}
      BY <1>1, <1>2, <1>5, NoGoalNoRoute
    <2>2. AnswerIsTrue' /\ ShortestFound'
      BY <2>1, <1>1, <1>3 DEF AnswerIsTrue, ShortestFound
    <2> QED BY <1>1, <1>3, <1>4, <1>5, <2>2 DEF AInv, Busy
  <1>6. CASE bestGoal # kNoVertex
    <2>1. pc' = "walk"
      BY <1>1, <1>6
    <2>2. Settled'
      <3>1. Settled
        BY <1>1, <1>2, <1>6, StopIsSafe
      <3> QED BY <3>1, <1>1 DEF Settled
    <2>3. /\ \A i \in DOMAIN call.sources : i < SeedBound' => i < SeedBound
          /\ \A w \in Vertex : \A j \in DOMAIN graph[w] : j < RowBound(w)' <=> j < RowBound(w)
      BY <1>1, <2>1 DEF SeedBound, RowBound
    <2>4. /\ Seeds' /\ Parents' /\ Chains' /\ ClosedLive' /\ Scans' /\ BestSoFar'
          /\ \A v \in Vertex : /\ Live(v)' <=> Live(v)
                               /\ Closed(v)' <=> Closed(v)
                               /\ Key(v)' = Key(v)
      BY <1>1, <2>1, <2>3, FrameKeeps DEF SearchInv
    <2>5. Opens'
      <3>1. \A o \in open' : o \in open /\ o.vertex \in Vertex
        BY <1>1, <1>2 DEF Types, AStarTypeOK
      <3> QED BY <3>1, <2>1, <2>4, <1>1 DEF SearchInv, Opens
    <2>6. Keys'
      BY <1>1, <1>2, <2>1, <2>4 DEF SearchInv, Keys
    <2>7. Walking'
      <3>1. PICK b \in Vertex : b = bestGoal
        BY <1>1, <1>6 DEF Types, AStarTypeOK
      <3>2. Live(b)
        BY <3>1, <1>1, <1>6 DEF SearchInv, BestSoFar, ClosedLive
      <3>3. PICK p : ChainTo(b, p)'
        BY <3>2, <2>4 DEF Chains
      <3>4. p \in Seq(Vertex) /\ p # <<>> /\ Len(p) \in Nat /\ Len(p) >= 1 /\ p[Len(p)] = b
        BY <3>3, EmptySeq DEF ChainTo
      <3>5. PICK n \in Nat : n = Len(p)
        BY <3>4
      <3>6. SubSeq(p, n + 1, n) = <<>>
        BY <3>4, <3>5, SubSeqEmpty
      <3>7. ChainTo(bestGoal, p)'
        BY <3>1, <3>3, <1>1 DEF ChainTo
      <3>8. /\ n \in 0..Len(p)
            /\ result' = [NotFound EXCEPT !.vertices = SubSeq(p, n + 1, Len(p))]
            /\ u' = IF n = 0 THEN kNoVertex ELSE p[n]
        BY <3>1, <3>4, <3>5, <3>6, <1>1, <1>3 DEF NotFound
      <3> QED BY <3>7, <3>8, <2>2, <1>1, <1>6 DEF Walking
    <2> QED BY <1>1, <1>3, <1>4, <2>1, <2>4, <2>5, <2>6, <2>7 DEF AInv, Busy, SearchInv
  <1> QED BY <1>5, <1>6

(***************************************************************************)
(* The chain of predecessors is a route, with the cost and the distance    *)
(* the search kept.                                                        *)
(***************************************************************************)
LEMMA ChainFacts ==
  ASSUME Types, ClosedLive, NEW b \in Vertex, Closed(b), NEW p, ChainTo(b, p)
  PROVE  /\ p \in Seq(Vertex) /\ p # <<>> /\ Len(p) \in Nat /\ Len(p) >= 1 /\ DOMAIN p = 1..Len(p)
         /\ \A i \in 1..Len(p) : p[i] \in Vertex /\ Closed(p[i]) /\ Live(p[i])
         /\ \A i \in 1..(Len(p) - 1) : i \in 1..Len(p) /\ i + 1 \in 1..Len(p)
  <1>1. p \in Seq(Vertex) /\ p # <<>> /\ Len(p) \in Nat /\ Len(p) >= 1 /\ DOMAIN p = 1..Len(p)
        /\ \A i \in 1..Len(p) : p[i] \in Vertex
    BY EmptySeq, LenProperties, ElementOfSeq DEF ChainTo
  <1>2. \A i \in 1..Len(p) : Closed(p[i])
    <2> SUFFICES ASSUME NEW i \in 1..Len(p) PROVE Closed(p[i])
      OBVIOUS
    <2>1. CASE i = Len(p)
      BY <2>1 DEF ChainTo
    <2>2. CASE i # Len(p)
      <3>1. i \in 1..(Len(p) - 1)
        BY <1>1, <2>2, NotLast
      <3> QED BY <3>1, SMTT(30) DEF ChainTo
    <2> QED BY <2>1, <2>2
  <1>3. \A i \in 1..(Len(p) - 1) : i \in 1..Len(p) /\ i + 1 \in 1..Len(p)
    BY <1>1
  <1> QED BY <1>1, <1>2, <1>3 DEF ClosedLive

LEMMA ChainStart ==
  ASSUME Types, Seeds, Parents, pc = "walk", NEW v \in Vertex, Live(v), prev[v] = kNoVertex
  PROVE  /\ BuildSeedTable(call.sources)[v] = g[v] /\ geo[v] = g[v] /\ g[v] \in Nat
         /\ inbound[v] = call.sourceBearing[v]
         /\ ~NodeBlocked(call.bans, v)
  <1>1. FromSeed(v) /\ ~NodeBlocked(call.bans, v)
    BY VertexFinite DEF Parents, FromStep
  <1>2. call.sources \in Seq(SeededEndpoint) /\ g[v] \in Nat
    BY DEF Types, CallOK, AStarTypeOK
  <1>3. PICK i \in AtVertex(call.sources, v) : call.sources[i].cost = g[v]
    BY <1>1 DEF FromSeed
  <1>4. PICK k \in AtVertex(call.sources, v) : call.sources[k].cost = BuildSeedTable(call.sources)[v]
    BY <1>2, <1>3, SeedTable
  <1>5. BuildSeedTable(call.sources)[v] <= g[v]
    BY <1>2, <1>3, SeedTable
  <1>6. k \in DOMAIN call.sources /\ call.sources[k].vertex = v /\ call.sources[k].cost \in Nat
    BY <1>2, <1>4, EndpointFacts DEF AtVertex
  <1>7. k < SeedBound
    BY <1>2, <1>6, EndpointFacts DEF SeedBound
  <1>8. g[v] <= call.sources[k].cost
    BY <1>1, <1>6, <1>7 DEF Seeds
  <1>9. BuildSeedTable(call.sources)[v] = g[v]
    BY <1>2, <1>4, <1>5, <1>6, <1>8
  <1> QED BY <1>1, <1>2, <1>9 DEF FromSeed

LEMMA ChainStep ==
  ASSUME Types, Parents, pc = "walk", NEW w \in Vertex, NEW v \in Vertex, Live(v), prev[v] = w
  PROVE  /\ ~NodeBlocked(call.bans, v) /\ ~EdgeBlocked(call.bans, w, v)
         /\ Usable(graph, w, v) # {}
         /\ inbound[v] = HeadingTo(w, v) /\ HeadingTo(w, v) \in Heading
         /\ EdgeCost(SelectEdge(graph, w, v)) \in Nat
         /\ SelectEdge(graph, w, v).distance_nm \in Nat
         /\ TurnCost(call.turn, inbound[w], HeadingTo(w, v)) \in Nat
         /\ g[v] = g[w] + EdgeCost(SelectEdge(graph, w, v))
                        + TurnCost(call.turn, inbound[w], HeadingTo(w, v))
         /\ geo[v] = geo[w] + SelectEdge(graph, w, v).distance_nm
  <1>1. ~NodeBlocked(call.bans, v) /\ FromStep(v, w)
    BY VertexFinite DEF Parents, FromSeed, FromStep
  <1>2. PICK j \in DOMAIN graph[w] : /\ FirstScanned(w, v, j)
                                     /\ g[v] = g[w] + StepCost(w, j)
                                     /\ geo[v] = geo[w] + graph[w][j].distance_nm
    BY <1>1 DEF FromStep
  <1>3. \A i \in Usable(graph, w, v) : i < RowBound(w)
    BY RowFacts DEF RowBound, Usable, Types
  <1>4. FirstCheapest(graph, w, v, j)
    BY <1>2, <1>3 DEF FirstScanned, FirstCheapest
  <1>5. SelectEdge(graph, w, v) = graph[w][j]
    BY <1>4, SelectIs DEF Types
  <1>6. j \in Usable(graph, w, v) /\ graph[w][j].to = v
    BY <1>4 DEF FirstCheapest, Usable
  <1>7. /\ EdgeCost(graph[w][j]) \in Nat /\ graph[w][j].distance_nm \in Nat
        /\ HeadingTo(w, v) \in Heading
    BY <1>6, StepNat
  <1>8. inbound[w] \in Heading /\ call.turn \in BOOLEAN
    BY HeadingsKnown, Zenon
  <1>9. TurnCost(call.turn, inbound[w], HeadingTo(w, v)) \in Nat
    BY <1>7, <1>8, TurnNat
  <1>10. StepCost(w, j) = EdgeCost(graph[w][j]) + TurnCost(call.turn, inbound[w], HeadingTo(w, v))
    BY <1>6 DEF StepCost
  <1>11. g[w] \in Nat
    BY DEF Types, AStarTypeOK
  <1>12. g[v] = g[w] + EdgeCost(SelectEdge(graph, w, v))
                     + TurnCost(call.turn, inbound[w], HeadingTo(w, v))
    BY <1>2, <1>5, <1>7, <1>9, <1>10, <1>11
  <1> QED BY <1>1, <1>2, <1>5, <1>6, <1>7, <1>9, <1>12 DEF FromStep

LEMMA ChainIsRoute ==
  ASSUME Types, SearchInv, pc = "walk", NEW b \in Vertex, Closed(b), call.goalSeed[b] >= 0,
         NEW p, ChainTo(b, p)
  PROVE  /\ p \in Routes(graph, call)
         /\ RouteCost(graph, call, p) = TotalAt(b)
         /\ DistanceOfPathMulti(graph, p, BuildSeedTable(call.sources), call.goalSeed)
              = geo[b] + call.goalSeed[b]
  <1>1. /\ p \in Seq(Vertex) /\ p # <<>> /\ Len(p) \in Nat /\ Len(p) >= 1 /\ DOMAIN p = 1..Len(p)
        /\ \A i \in 1..Len(p) : p[i] \in Vertex /\ Closed(p[i]) /\ Live(p[i])
        /\ \A i \in 1..(Len(p) - 1) : i \in 1..Len(p) /\ i + 1 \in 1..Len(p)
    BY ChainFacts DEF SearchInv
  <1>n. PICK n \in Nat : n = Len(p) /\ n >= 1
    BY <1>1
  <1>k. PICK k \in Nat : k = n - 1 /\ k + 1 = n
    BY <1>n
  <1>2. p[n] = b /\ IsSimple(p) /\ Head(p) = p[1]
    BY <1>1, <1>n DEF ChainTo
  <1>3. /\ BuildSeedTable(call.sources)[p[1]] = g[p[1]] /\ geo[p[1]] = g[p[1]] /\ g[p[1]] \in Nat
        /\ inbound[p[1]] = call.sourceBearing[p[1]]
        /\ ~NodeBlocked(call.bans, p[1])
    <2>1. p[1] \in Vertex /\ Live(p[1]) /\ prev[p[1]] = kNoVertex
      BY <1>1 DEF ChainTo
    <2> QED BY <2>1, ChainStart DEF SearchInv
  <1> DEFINE F == [i \in 1..(n - 1) |-> EdgeCost(SelectEdge(graph, p[i], p[i + 1]))]
             D == [i \in 1..(n - 1) |-> SelectEdge(graph, p[i], p[i + 1]).distance_nm]
             T == [i \in DOMAIN p |->
                     TurnCost(call.turn, InboundAt(p, call.sourceBearing[Head(p)], i),
                                         OutboundAt(p, call.goalBearing[p[Len(p)]], i))]
  <1>4. ASSUME NEW i \in 1..(n - 1)
        PROVE  /\ ~NodeBlocked(call.bans, p[i + 1]) /\ ~EdgeBlocked(call.bans, p[i], p[i + 1])
               /\ Usable(graph, p[i], p[i + 1]) # {}
               /\ inbound[p[i + 1]] = HeadingTo(p[i], p[i + 1])
               /\ F[i] \in Nat /\ D[i] \in Nat
               /\ TurnCost(call.turn, inbound[p[i]], HeadingTo(p[i], p[i + 1])) \in Nat
               /\ g[p[i + 1]] = g[p[i]] + F[i]
                                + TurnCost(call.turn, inbound[p[i]], HeadingTo(p[i], p[i + 1]))
               /\ geo[p[i + 1]] = geo[p[i]] + D[i]
    <2>1. PICK w \in Vertex : w = p[i]
      BY <1>1, <1>n
    <2>2. PICK v \in Vertex : v = p[i + 1]
      BY <1>1, <1>n
    <2>3. Live(v) /\ prev[v] = w
      BY <2>1, <2>2, <1>1, <1>n DEF ChainTo
    <2>4. /\ ~NodeBlocked(call.bans, v) /\ ~EdgeBlocked(call.bans, w, v)
          /\ Usable(graph, w, v) # {}
          /\ inbound[v] = HeadingTo(w, v)
          /\ EdgeCost(SelectEdge(graph, w, v)) \in Nat
          /\ SelectEdge(graph, w, v).distance_nm \in Nat
          /\ TurnCost(call.turn, inbound[w], HeadingTo(w, v)) \in Nat
          /\ g[v] = g[w] + EdgeCost(SelectEdge(graph, w, v))
                         + TurnCost(call.turn, inbound[w], HeadingTo(w, v))
          /\ geo[v] = geo[w] + SelectEdge(graph, w, v).distance_nm
      BY <2>3, ChainStep DEF SearchInv
    <2>5. /\ F[i] = EdgeCost(SelectEdge(graph, w, v))
          /\ D[i] = SelectEdge(graph, w, v).distance_nm
      BY <2>1, <2>2
    <2> HIDE DEF F, D
    <2> QED BY <2>1, <2>2, <2>4, <2>5
  <1>5. ASSUME NEW i \in 1..n, call.turn
        PROVE  inbound[p[i]] = InboundAt(p, call.sourceBearing[Head(p)], i)
    <2>1. CASE i = 1
      BY <2>1, <1>2, <1>3 DEF InboundAt
    <2>2. CASE i # 1
      <3>1. PICK l \in 1..(n - 1) : l = i - 1 /\ l + 1 = i
        BY <2>2
      <3>2. inbound[p[i]] = HeadingTo(p[l], p[i])
        BY <3>1, <1>4
      <3> QED BY <3>1, <3>2, <2>2, <1>5 DEF InboundAt, HeadingTo
    <2> QED BY <2>1, <2>2
  <1>6. \A i \in 1..(n - 1) :
           T[i] = TurnCost(call.turn, inbound[p[i]], HeadingTo(p[i], p[i + 1])) /\ T[i] \in Nat
    <2> SUFFICES ASSUME NEW i \in 1..(n - 1)
                 PROVE  T[i] = TurnCost(call.turn, inbound[p[i]], HeadingTo(p[i], p[i + 1]))
      BY <1>4, ZenonT(60)
    <2>0. i \in 1..n /\ i # n /\ i \in DOMAIN p
      <3>1. i \in 1..n /\ i # n
        OBVIOUS
      <3> QED BY <3>1, <1>1, <1>n, ZenonT(60)
    <2>1. T[i] = TurnCost(call.turn, InboundAt(p, call.sourceBearing[Head(p)], i),
                          OutboundAt(p, call.goalBearing[p[Len(p)]], i))
      BY <2>0
    <2> HIDE DEF T
    <2>2. CASE call.turn
      <3>1. OutboundAt(p, call.goalBearing[p[Len(p)]], i) = HeadingTo(p[i], p[i + 1])
        BY <2>0, <2>2, <1>n DEF OutboundAt, HeadingTo
      <3> QED BY <3>1, <2>0, <2>1, <2>2, <1>5
    <2>3. CASE ~call.turn
      BY <2>1, <2>3 DEF TurnCost
    <2> QED BY <2>2, <2>3
  <1>7. T[n] = TurnCost(call.turn, inbound[b], call.goalBearing[b])
    <2>0. n \in 1..n /\ n \in DOMAIN p
      BY <1>1, <1>n
    <2>1. T[n] = TurnCost(call.turn, InboundAt(p, call.sourceBearing[Head(p)], n),
                          OutboundAt(p, call.goalBearing[p[Len(p)]], n))
      BY <2>0
    <2> HIDE DEF T
    <2>2. CASE call.turn
      <3>1. OutboundAt(p, call.goalBearing[p[Len(p)]], n) = call.goalBearing[b]
        BY <1>2, <1>n DEF OutboundAt
      <3> QED BY <3>1, <2>0, <2>1, <2>2, <1>2, <1>5
    <2>3. CASE ~call.turn
      BY <2>1, <2>3 DEF TurnCost
    <2> QED BY <2>2, <2>3
  <1>8. p \in Routes(graph, call)
    <2>1. \A i \in 1..Len(p) : ~NodeBlocked(call.bans, p[i])
      <3> SUFFICES ASSUME NEW i \in 1..n PROVE ~NodeBlocked(call.bans, p[i])
        BY <1>n
      <3>1. CASE i = 1
        BY <3>1, <1>3
      <3>2. CASE i # 1
        <4>1. PICK l \in 1..(n - 1) : l + 1 = i
          BY <3>2
        <4> QED BY <4>1, <1>4
      <3> QED BY <3>1, <3>2
    <2>2. \A i \in 1..(Len(p) - 1) : /\ ~EdgeBlocked(call.bans, p[i], p[i + 1])
                                      /\ Usable(graph, p[i], p[i + 1]) # {}
      BY <1>4, <1>n
    <2>3. BuildSeedTable(call.sources)[p[1]] >= 0
      BY <1>3
    <2>4. Flyable(graph, call, p)
      BY <2>1, <2>2, <2>3, <1>1, <1>2 DEF Flyable
    <2> QED BY <2>4, <1>2, <1>n, RoutesAre
  <1>9. /\ TotalAt(b) = g[b] + call.goalSeed[b] + T[n]
        /\ T[n] \in Nat /\ call.goalSeed[b] \in Nat /\ g[b] \in Nat
    BY <1>1, <1>2, <1>7, <1>n, TotalAtGoal
  <1>10. RouteCost(graph, call, p) = TotalAt(b)
    <2>1. CostOfPath(graph, p, call.turn, call.sourceBearing[Head(p)], call.goalBearing[p[Len(p)]])
            = Total(F, k) + Total(T, n)
      BY <1>n, <1>k DEF CostOfPath
    <2>2. RouteCost(graph, call, p) = g[p[1]] + call.goalSeed[b] + (Total(F, k) + Total(T, n))
      BY <2>1, <1>2, <1>3, <1>n DEF RouteCost, CostOfPathMulti
    <2>a. PICK a : a = [i \in 1..n |-> g[p[i]]]
      OBVIOUS
    <2>3. \A i \in 1..k : F[i] \in Nat /\ T[i] \in Nat
      BY <1>4, <1>6, <1>k
    <2>4. \A i \in 1..(k + 1) : a[i] \in Nat
      <3>1. \A v \in Vertex : g[v] \in Nat
        BY DEF Types, AStarTypeOK
      <3> QED BY <3>1, <2>a, <1>1, <1>k, <1>n
    <2>5. ASSUME NEW i \in 1..k PROVE a[i + 1] = a[i] + F[i] + T[i]
      <3>1. i \in 1..(n - 1) /\ i \in 1..n /\ i + 1 \in 1..n
        BY <1>k
      <3>2. a[i] = g[p[i]] /\ a[i + 1] = g[p[i + 1]]
        BY <3>1, <2>a
      <3> HIDE DEF F, T, D
      <3> QED BY <3>1, <3>2, <1>4, <1>6
    <2> HIDE DEF F, T
    <2>6. a[k + 1] = a[1] + Total(F, k) + Total(T, k)
      BY <2>3, <2>4, <2>5, Telescope
    <2>7. Total(T, k + 1) = Total(T, k) + T[k + 1]
      BY TotalSteps
    <2>8. Total(F, k) \in Nat /\ Total(T, k) \in Nat
      BY <2>3, TotalNat
    <2>9. a[k + 1] = g[b] /\ a[1] = g[p[1]]
      BY <2>a, <1>1, <1>2, <1>k, <1>n
    <2> QED BY <2>2, <2>6, <2>7, <2>8, <2>9, <1>3, <1>9, <1>k
  <1>11. DistanceOfPathMulti(graph, p, BuildSeedTable(call.sources), call.goalSeed)
           = geo[b] + call.goalSeed[b]
    <2>1. EnrouteDistance(graph, p) = Total(D, k)
      BY <1>n, <1>k DEF EnrouteDistance
    <2>2. DistanceOfPathMulti(graph, p, BuildSeedTable(call.sources), call.goalSeed)
            = g[p[1]] + call.goalSeed[b] + Total(D, k)
      BY <2>1, <1>2, <1>3, <1>n DEF DistanceOfPathMulti
    <2>a. PICK a : a = [i \in 1..n |-> geo[p[i]]]
      OBVIOUS
    <2>z. PICK Z : Z = [i \in 1..k |-> 0]
      OBVIOUS
    <2>3. \A i \in 1..k : D[i] \in Nat /\ Z[i] \in Nat /\ Z[i] = 0
      BY <1>4, <1>k, <2>z
    <2>4. \A i \in 1..(k + 1) : a[i] \in Nat
      <3>1. \A v \in Vertex : geo[v] \in Nat
        BY DEF Types, AStarTypeOK
      <3> QED BY <3>1, <2>a, <1>1, <1>k, <1>n
    <2>5. ASSUME NEW i \in 1..k PROVE a[i + 1] = a[i] + D[i] + Z[i]
      <3>1. i \in 1..(n - 1) /\ i \in 1..n /\ i + 1 \in 1..n
        BY <1>k
      <3>2. a[i] = geo[p[i]] /\ a[i + 1] = geo[p[i + 1]] /\ a[i] \in Nat
        BY <3>1, <2>4, <2>a, <1>k
      <3>3. geo[p[i + 1]] = geo[p[i]] + D[i]
        BY <3>1, <1>4
      <3> HIDE DEF D
      <3> QED BY <3>1, <3>2, <3>3, <2>3
    <2> HIDE DEF D
    <2>6. a[k + 1] = a[1] + Total(D, k) + Total(Z, k)
      BY <2>3, <2>4, <2>5, Telescope
    <2>7. Total(Z, k) = 0 /\ Total(D, k) \in Nat
      BY <2>3, TotalZero, TotalNat
    <2>8. a[k + 1] = geo[b] /\ a[1] = geo[p[1]]
      BY <2>a, <1>1, <1>2, <1>k, <1>n
    <2> QED BY <2>2, <2>6, <2>7, <2>8, <1>3, <1>9, SMTT(40)
  <1> QED BY <1>8, <1>10, <1>11

(***************************************************************************)
(* The walk back and the report.                                           *)
(***************************************************************************)
LEMMA WalkBackKeeps ==
  ASSUME AInv, WalkBack
  PROVE  AInv'
  <1>1. /\ pc = "walk" /\ Types /\ SearchInv /\ Walking /\ u # kNoVertex
        /\ result' = [result EXCEPT !.vertices = <<u>> \o @] /\ u' = Prev(u)
        /\ UNCHANGED <<graph, call, pc, g, geo, prev, inbound, stamp, closedStamp, generation,
                       open, cursor, bestTotal, bestGoal>>
    BY DEF WalkBack, AInv, Busy, wsVars
  <1>b. PICK b \in Vertex : b = bestGoal
    BY <1>1 DEF Types, AStarTypeOK, Walking
  <1>2. Closed(b)
    BY <1>1, <1>b DEF SearchInv, BestSoFar, Walking
  <1>3. PICK p, m : /\ ChainTo(b, p)
                    /\ m \in 0..Len(p)
                    /\ result = [NotFound EXCEPT !.vertices = SubSeq(p, m + 1, Len(p))]
                    /\ u = IF m = 0 THEN kNoVertex ELSE p[m]
    BY <1>1, <1>b DEF Walking
  <1>4. /\ p \in Seq(Vertex) /\ Len(p) \in Nat /\ Len(p) >= 1
        /\ \A i \in 1..Len(p) : p[i] \in Vertex /\ Live(p[i])
    BY <1>1, <1>2, <1>3, ChainFacts DEF SearchInv
  <1>5. m \in 1..Len(p) /\ m \in Nat /\ u = p[m]
    BY <1>1, <1>3, <1>4
  <1>k. PICK k \in 0..Len(p) : k = m - 1 /\ k + 1 = m
    BY <1>4, <1>5
  <1>6. u' = IF k = 0 THEN kNoVertex ELSE p[k]
    <2>1. u' = prev[p[m]]
      BY <1>1, <1>4, <1>5 DEF Prev
    <2>2. CASE k = 0
      BY <2>1, <2>2, <1>3, <1>k DEF ChainTo
    <2>3. CASE k # 0
      <3>1. k \in 1..(Len(p) - 1)
        BY <2>3, <1>4, <1>5, <1>k
      <3>2. prev[p[k + 1]] = p[k]
        BY <3>1, <1>3 DEF ChainTo
      <3> QED BY <3>2, <2>1, <2>3, <1>k
    <2> QED BY <2>2, <2>3
  <1>7. SubSeq(p, k + 1, Len(p)) = <<u>> \o SubSeq(p, m + 1, Len(p))
    <2>1. SubSeq(p, m, Len(p)) = <<p[m]>> \o SubSeq(p, m + 1, Len(p))
      BY <1>4, <1>5, SubSeqRecursiveFirst
    <2> QED BY <2>1, <1>5, <1>k
  <1>8. result' = [NotFound EXCEPT !.vertices = SubSeq(p, k + 1, Len(p))]
    BY <1>1, <1>3, <1>7 DEF NotFound
  <1>9. SubSeq(p, k + 1, Len(p)) \in Seq(Vertex)
    BY <1>4, <1>5, <1>k, SubSeqProperties
  <1>10. result'.vertices \in Seq(Vertex) /\ ~result'.found /\ result'.found \in BOOLEAN
    BY <1>8, <1>9 DEF NotFound
  <1>11. /\ \A i \in DOMAIN call.sources : i < SeedBound' => i < SeedBound
         /\ \A w \in Vertex : \A j \in DOMAIN graph[w] : j < RowBound(w)' <=> j < RowBound(w)
    BY <1>1 DEF SeedBound, RowBound
  <1>12. /\ Seeds' /\ Parents' /\ Chains' /\ ClosedLive' /\ Scans' /\ BestSoFar'
         /\ \A v \in Vertex : /\ Live(v)' <=> Live(v)
                              /\ Closed(v)' <=> Closed(v)
                              /\ Key(v)' = Key(v)
    BY <1>1, <1>11, FrameKeeps DEF SearchInv
  <1>13. Opens'
    BY <1>1, <1>12 DEF SearchInv, Opens, Types, AStarTypeOK
  <1>14. Keys'
    BY <1>1, <1>12 DEF SearchInv, Keys
  <1>15. Walking'
    <2>1. ChainTo(bestGoal, p)'
      <3>1. \A i \in 1..(Len(p) - 1) : Closed(p[i])' <=> Closed(p[i])
        BY <1>1 DEF Closed
      <3> QED BY <3>1, <1>1, <1>b, <1>3 DEF ChainTo
    <2>2. Settled'
      BY <1>1 DEF Walking, Settled
    <2> QED BY <2>1, <2>2, <1>1, <1>6, <1>8, <1>k DEF Walking
  <1>16. Types'
    <2>1. CallOK(call)' /\ IsGraph(graph)'
      BY <1>1 DEF Types
    <2>2. u' \in Vertex \cup {kNoVertex}
      BY <1>1, <1>4, <1>5, <1>6, <1>k
    <2>3. AStarTypeOK'
      BY <2>2, <1>1 DEF Types, AStarTypeOK
    <2> QED BY <2>1, <2>3, <1>10 DEF Types
  <1> QED BY <1>1, <1>10, <1>12, <1>13, <1>14, <1>15, <1>16 DEF AInv, Busy, SearchInv

LEMMA ReportKeeps ==
  ASSUME AInv, Report
  PROVE  AInv'
  <1>1. /\ pc = "walk" /\ pc' = "done" /\ Types /\ SearchInv /\ Walking /\ u = kNoVertex
        /\ result' = [found |-> TRUE, vertices |-> result.vertices, cost |-> bestTotal,
                      distance_nm |-> Geo(bestGoal) + call.goalSeed[bestGoal]]
        /\ UNCHANGED <<graph, call, g, geo, prev, inbound, stamp, closedStamp, generation,
                       open, cursor, u, bestTotal, bestGoal>>
    BY DEF Report, AInv, Busy, wsVars
  <1>b. PICK b \in Vertex : b = bestGoal
    BY <1>1 DEF Types, AStarTypeOK, Walking
  <1>2. Closed(b) /\ Live(b) /\ call.goalSeed[b] >= 0 /\ bestTotal = TotalAt(b)
    BY <1>1, <1>b DEF SearchInv, BestSoFar, Walking, ClosedLive
  <1>3. PICK p, m : /\ ChainTo(b, p)
                    /\ m \in 0..Len(p)
                    /\ result = [NotFound EXCEPT !.vertices = SubSeq(p, m + 1, Len(p))]
                    /\ u = IF m = 0 THEN kNoVertex ELSE p[m]
    BY <1>1, <1>b DEF Walking
  <1>4. /\ p \in Seq(Vertex) /\ Len(p) \in Nat
        /\ \A i \in 1..Len(p) : p[i] \in Vertex
    BY <1>1, <1>2, <1>3, ChainFacts DEF SearchInv
  <1>5. m = 0
    <2> SUFFICES ASSUME m # 0 PROVE FALSE
      OBVIOUS
    <2>1. m \in 1..Len(p)
      BY <1>3, <1>4
    <2> QED BY <2>1, <1>1, <1>3, <1>4, VertexFinite
  <1>6. result.vertices = p
    <2>1. SubSeq(p, 1, Len(p)) = p
      BY <1>4, SubSeqFull
    <2> QED BY <2>1, <1>3, <1>5 DEF NotFound
  <1>7. /\ p \in Routes(graph, call)
        /\ RouteCost(graph, call, p) = TotalAt(b)
        /\ DistanceOfPathMulti(graph, p, BuildSeedTable(call.sources), call.goalSeed)
             = geo[b] + call.goalSeed[b]
    BY <1>1, <1>2, <1>3, ChainIsRoute
  <1>8. /\ result'.found /\ result'.found \in BOOLEAN /\ result'.vertices = p
        /\ result'.cost = RouteCost(graph, call, p)
        /\ result'.distance_nm
             = DistanceOfPathMulti(graph, p, BuildSeedTable(call.sources), call.goalSeed)
    BY <1>1, <1>2, <1>6, <1>7, <1>b DEF Geo
  <1>9. AnswerIsTrue'
    BY <1>1, <1>7, <1>8 DEF AnswerIsTrue
  <1>10. ShortestFound'
    BY <1>1, <1>2, <1>7, <1>8 DEF ShortestFound, Walking, Settled
  <1>11. Types'
    <2>1. CallOK(call)' /\ IsGraph(graph)'
      BY <1>1 DEF Types
    <2>2. AStarTypeOK'
      BY <1>1 DEF Types, AStarTypeOK
    <2> QED BY <2>1, <2>2, <1>8 DEF Types
  <1> QED BY <1>1, <1>4, <1>8, <1>9, <1>10, <1>11 DEF AInv, Busy

(***************************************************************************)
(* Entry, and a new workspace.                                             *)
(***************************************************************************)
\* Without a source there is no route.
LEMMA NoSourceNoRoute ==
  ASSUME NEW gr, NEW c, c.sources = <<>>
  PROVE  Routes(gr, c) = {}
  <1> SUFFICES ASSUME NEW p \in Routes(gr, c) PROVE FALSE
    OBVIOUS
  <1>1. Flyable(gr, c, p)
    BY RoutesAre
  <1>2. p[1] \in Vertex /\ BuildSeedTable(c.sources)[p[1]] >= 0
    BY <1>1, FlyableFacts
  <1>3. AtVertex(c.sources, p[1]) = {}
    BY DEF AtVertex
  <1> QED BY <1>2, <1>3 DEF BuildSeedTable

LEMMA BeginKeeps ==
  ASSUME AInv, NEW c, CallOK(c), Begin(c)
  PROVE  AInv'
  <1>1. /\ Types /\ pc \in {"idle", "done"} /\ call' = c /\ result' = NotFound
        /\ bestTotal' = kInfinity /\ bestGoal' = kNoVertex
        /\ UNCHANGED <<graph, g, geo, prev, inbound, stamp, closedStamp, u>>
    BY DEF Begin, AInv
  <1>2. result'.vertices \in Seq(Vertex) /\ ~result'.found /\ result'.found \in BOOLEAN
    BY <1>1 DEF NotFound
  <1>3. CallOK(call)' /\ IsGraph(graph)'
    BY <1>1 DEF Types, CallOK
  <1>4. CASE c.sources = <<>>
    <2>1. pc' = "done" /\ UNCHANGED <<generation, open, cursor>>
      BY <1>4 DEF Begin
    <2>2. Routes(graph, call)' = {}
      BY <1>1, <1>4, NoSourceNoRoute
    <2>3. AnswerIsTrue' /\ ShortestFound'
      BY <2>1, <2>2, <1>1, <1>2 DEF AnswerIsTrue, ShortestFound
    <2>4. Types'
      <3>1. AStarTypeOK'
        BY <1>1, <2>1 DEF Types, AStarTypeOK
      <3> QED BY <3>1, <1>2, <1>3 DEF Types
    <2> QED BY <2>1, <2>3, <2>4, <1>2 DEF AInv, Busy
  <1>5. CASE c.sources # <<>>
    <2>1. pc' = "seed" /\ generation' = generation + 1 /\ open' = {} /\ cursor' = 1
      BY <1>5 DEF Begin
    <2>2. \A v \in Vertex : ~Live(v)' /\ ~Closed(v)'
      <3>1. \A v \in Vertex : stamp[v] \in 0..generation /\ closedStamp[v] \in 0..generation
        BY <1>1 DEF Types, AStarTypeOK
      <3>2. generation \in Nat
        BY <1>1 DEF Types, AStarTypeOK
      <3> QED BY <3>1, <3>2, <2>1, <1>1 DEF Live, Closed
    <2>3. Seeds'
      <3>1. DOMAIN call'.sources = 1..Len(call'.sources) /\ SeedBound' = 1
        BY <1>1, <2>1, EndpointFacts DEF SeedBound, CallOK
      <3> QED BY <3>1 DEF Seeds
    <2>4. /\ Parents' /\ Chains' /\ ClosedLive' /\ Scans' /\ Opens' /\ Keys' /\ BestSoFar'
      BY <2>1, <2>2, <1>1 DEF Parents, Chains, ClosedLive, Scans, Opens, Keys, BestSoFar
    <2>5. Types'
      <3>1. /\ g' \in [Vertex -> Nat] /\ geo' \in [Vertex -> Nat]
            /\ prev' \in [Vertex -> Vertex \cup {kNoVertex}]
            /\ inbound' \in [Vertex -> (0..359) \cup {kNoBearing}]
            /\ generation' \in Nat /\ open' = {}
        BY <1>1, <2>1 DEF Types, AStarTypeOK
      <3>2. stamp' \in [Vertex -> 0..generation'] /\ closedStamp' \in [Vertex -> 0..generation']
        <4>1. 0..generation \subseteq 0..generation'
          BY <1>1, <2>1 DEF Types, AStarTypeOK
        <4>2. stamp \in [Vertex -> 0..generation] /\ closedStamp \in [Vertex -> 0..generation]
          BY <1>1 DEF Types, AStarTypeOK
        <4> QED BY <4>1, <4>2, <1>1
      <3>3. /\ pc' \in {"idle", "seed", "pop", "relax", "walk", "done"} /\ pc' # "relax"
            /\ cursor' \in Nat \ {0} /\ u' \in Vertex \cup {kNoVertex}
            /\ bestTotal' \in Nat \cup {kInfinity} /\ bestGoal' \in Vertex \cup {kNoVertex}
        BY <1>1, <2>1 DEF Types, AStarTypeOK
      <3>4. AStarTypeOK'
        BY <3>1, <3>2, <3>3 DEF AStarTypeOK
      <3> QED BY <3>4, <1>2, <1>3 DEF Types
    <2> QED BY <2>1, <2>3, <2>4, <2>5, <1>1, <1>2 DEF AInv, Busy, SearchInv
  <1> QED BY <1>4, <1>5

\* The overload that derives every table from the endpoints makes a fit call.
LEMMA PlainCallOK ==
  ASSUME NEW sources \in Seq(SeededEndpoint), NEW goals \in Seq(SeededEndpoint),
         NEW turn \in BOOLEAN, NEW bans
  PROVE  CallOK(PlainCall(sources, goals, turn, bans))
  <1> DEFINE c == PlainCall(sources, goals, turn, bans)
  <1>1. /\ c.sources = sources /\ c.goals = goals /\ c.turn = turn
        /\ c.goalSeed = BuildSeedTable(goals)
        /\ c.sourceBearing = BuildBearingTable(sources) /\ c.goalBearing = BuildBearingTable(goals)
    BY DEF PlainCall, Call
  <1> HIDE DEF c
  <1>2. ASSUME NEW v \in Vertex, c.goalSeed[v] >= 0
        PROVE  \E i \in AtVertex(c.goals, v) : c.goals[i].cost <= c.goalSeed[v]
    <2>1. /\ BuildSeedTable(goals)[v] \in Nat \cup {-1}
          /\ AtVertex(goals, v) = {} <=> BuildSeedTable(goals)[v] = -1
          /\ AtVertex(goals, v) # {} =>
                \E i \in AtVertex(goals, v) : goals[i].cost = BuildSeedTable(goals)[v]
      BY SeedTable
    <2>2. BuildSeedTable(goals)[v] \in Nat
      BY <2>1, <1>1, <1>2
    <2> QED BY <2>1, <2>2, <1>1
  <1>3. /\ BuildSeedTable(goals) \in [Vertex -> Nat \cup {-1}]
        /\ BuildBearingTable(sources) \in [Vertex -> Heading]
        /\ BuildBearingTable(goals) \in [Vertex -> Heading]
    BY SeedTableTypes
  <1>4. CallOK(c)
    BY <1>1, <1>2, <1>3 DEF CallOK
  <1> QED BY <1>4 DEF c

LEMMA BlankOK ==
  /\ Blank \in [Vertex -> Nat]
  /\ Blank \in [Vertex -> Vertex \cup {kNoVertex}]
  /\ Blank \in [Vertex -> (0..359) \cup {kNoBearing}]
  /\ Blank \in [Vertex -> 0..0]
  /\ CallOK(NoCall)
  /\ NotFound.found \in BOOLEAN
  <1>1. \A v \in Vertex : 0 \in Vertex
    BY VertexAssumption, FS_CardinalityType
  <1>2. CallOK(NoCall)
    <2>1. <<>> \in Seq(SeededEndpoint)
      OBVIOUS
    <2> QED BY <2>1, PlainCallOK DEF NoCall
  <1> QED BY <1>1, <1>2 DEF Blank, NotFound

LEMMA FreshKeeps ==
  ASSUME AInv, FreshWorkspace
  PROVE  AInv'
  <1>1. IsGraph(graph)'
    BY DEF FreshWorkspace, AInv, Types
  <1>2. CallOK(call)' /\ result'.found \in BOOLEAN
    BY BlankOK DEF FreshWorkspace, CallOK
  <1>3. /\ g' \in [Vertex -> Nat] /\ geo' \in [Vertex -> Nat]
        /\ prev' \in [Vertex -> Vertex \cup {kNoVertex}]
        /\ inbound' \in [Vertex -> (0..359) \cup {kNoBearing}]
        /\ stamp' \in [Vertex -> 0..generation'] /\ closedStamp' \in [Vertex -> 0..generation']
        /\ generation' \in Nat /\ open' = {}
    BY BlankOK DEF FreshWorkspace
  <1>4. /\ pc' = "idle" /\ cursor' \in Nat \ {0} /\ u' \in Vertex \cup {kNoVertex}
        /\ bestTotal' \in Nat \cup {kInfinity} /\ bestGoal' \in Vertex \cup {kNoVertex}
    BY DEF FreshWorkspace
  <1>5. AStarTypeOK'
    BY <1>3, <1>4 DEF AStarTypeOK
  <1> QED BY <1>1, <1>2, <1>4, <1>5 DEF AInv, Types, Busy

LEMMA InitHolds ==
  ASSUME AStarInit
  PROVE  AInv
  <1>1. IsGraph(graph)
    BY NetworksAssumption DEF AStarInit
  <1>2. CallOK(call) /\ result.found \in BOOLEAN
    BY BlankOK DEF AStarInit
  <1>3. AStarTypeOK
    BY BlankOK DEF AStarInit, AStarTypeOK
  <1>4. pc = "idle"
    BY DEF AStarInit
  <1> QED BY <1>1, <1>2, <1>3, <1>4 DEF AInv, Types, Busy

LEMMA SearchStepKeeps ==
  ASSUME AInv, SearchStep
  PROVE  AInv'
  BY SeedKeeps, SeedsDoneKeeps, PopStaleKeeps, ExpandKeeps, SettleKeeps, RelaxEdgeKeeps, RowDoneKeeps,
     WalkBackKeeps, ReportKeeps DEF SearchStep

(***************************************************************************)
(* Dropping endpoints.                                                     *)
(***************************************************************************)
IsKept(f, E, V, n) ==
    f = [k \in 0..n |-> IF k = 0 THEN <<>>
                        ELSE IF E[k].vertex \in V THEN f[k - 1] ELSE Append(f[k - 1], E[k])]

\* The recursion that defines DropAt has a solution.
LEMMA KeptExists ==
  ASSUME NEW E, NEW V, NEW n \in Nat
  PROVE  \E f : IsKept(f, E, V, n)
  <1> DEFINE S == {k \in Nat : \E f : IsKept(f, E, V, k)}
  <1>1. 0 \in S
    <2>1. IsKept([k \in 0..0 |-> <<>>], E, V, 0)
      BY DEF IsKept
    <2> QED BY <2>1
  <1>2. ASSUME NEW k \in Nat, k \in S PROVE k + 1 \in S
    <2>1. PICK f : IsKept(f, E, V, k)
      BY <1>2
    <2> DEFINE last == IF E[k + 1].vertex \in V THEN f[k] ELSE Append(f[k], E[k + 1])
               t == [m \in 0..(k + 1) |-> IF m = k + 1 THEN last ELSE f[m]]
    <2>2. ASSUME NEW m \in 0..(k + 1)
          PROVE  t[m] = IF m = 0 THEN <<>>
                        ELSE IF E[m].vertex \in V THEN t[m - 1] ELSE Append(t[m - 1], E[m])
      <3>1. CASE m = k + 1
        BY <3>1
      <3>2. CASE m # k + 1
        <4>1. m \in 0..k /\ t[m] = f[m] /\ (m # 0 => t[m - 1] = f[m - 1])
          BY <3>2
        <4>2. f[m] = IF m = 0 THEN <<>>
                     ELSE IF E[m].vertex \in V THEN f[m - 1] ELSE Append(f[m - 1], E[m])
          BY <4>1, <2>1 DEF IsKept
        <4> HIDE DEF t
        <4> QED BY <4>1, <4>2
      <3> QED BY <3>1, <3>2
    <2>3. IsKept(t, E, V, k + 1)
      BY <2>2 DEF IsKept
    <2> QED BY <2>3
  <1> HIDE DEF S
  <1>3. Nat \subseteq S
    BY <1>1, <1>2, NatSetInduction
  <1> QED BY <1>3 DEF S

\* DropAt keeps the endpoints that are not at a vertex of V, and no others.
LEMMA DropAtKeeps ==
  ASSUME NEW E \in Seq(SeededEndpoint), NEW V
  PROVE  /\ DropAt(E, V) \in Seq(SeededEndpoint)
         /\ \A e : (\E i \in DOMAIN DropAt(E, V) : DropAt(E, V)[i] = e)
                     <=> (e.vertex \notin V /\ \E i \in DOMAIN E : E[i] = e)
  <1>1. Len(E) \in Nat /\ DOMAIN E = 1..Len(E) /\ \A i \in DOMAIN E : E[i] \in SeededEndpoint
    BY EndpointFacts
  <1> DEFINE f == CHOOSE f : IsKept(f, E, V, Len(E))
  <1>2. IsKept(f, E, V, Len(E))
    BY <1>1, KeptExists
  <1>3. DropAt(E, V) = f[Len(E)]
    BY DEF DropAt, IsKept
  <1> HIDE DEF f
  <1> DEFINE S == {k \in Nat : k <= Len(E) =>
                     /\ f[k] \in Seq(SeededEndpoint)
                     /\ \A e : (\E i \in DOMAIN f[k] : f[k][i] = e)
                                 <=> (e.vertex \notin V /\ \E i \in 1..k : E[i] = e)}
  <1>4. 0 \in S
    <2>1. f[0] = <<>>
      BY <1>1, <1>2 DEF IsKept
    <2>2. <<>> \in Seq(SeededEndpoint) /\ DOMAIN <<>> = {} /\ 1..0 = {}
      OBVIOUS
    <2>3. DOMAIN f[0] = {} /\ f[0] \in Seq(SeededEndpoint)
      BY <2>1, <2>2
    <2> QED BY <2>2, <2>3
  <1>5. ASSUME NEW k \in Nat, k \in S PROVE k + 1 \in S
    <2> SUFFICES ASSUME k + 1 <= Len(E)
                 PROVE  /\ f[k + 1] \in Seq(SeededEndpoint)
                        /\ \A e : (\E i \in DOMAIN f[k + 1] : f[k + 1][i] = e)
                                    <=> (e.vertex \notin V /\ \E i \in 1..(k + 1) : E[i] = e)
      OBVIOUS
    <2>1. /\ f[k] \in Seq(SeededEndpoint)
          /\ \A e : (\E i \in DOMAIN f[k] : f[k][i] = e)
                      <=> (e.vertex \notin V /\ \E i \in 1..k : E[i] = e)
      BY <1>5, <1>1
    <2>2. f[k + 1] = IF E[k + 1].vertex \in V THEN f[k] ELSE Append(f[k], E[k + 1])
      <3>1. PICK m \in 0..Len(E) : m = k + 1 /\ m # 0 /\ m - 1 = k
        BY <1>1
      <3>2. f[m] = IF m = 0 THEN <<>>
                   ELSE IF E[m].vertex \in V THEN f[m - 1] ELSE Append(f[m - 1], E[m])
        BY <1>2 DEF IsKept
      <3> QED BY <3>1, <3>2
    <2>3. \A e : (\E i \in 1..(k + 1) : E[i] = e) <=> ((\E i \in 1..k : E[i] = e) \/ E[k + 1] = e)
      OBVIOUS
    <2>4. CASE E[k + 1].vertex \in V
      BY <2>1, <2>2, <2>3, <2>4
    <2>5. CASE E[k + 1].vertex \notin V
      <3>1. PICK s \in Seq(SeededEndpoint) : s = f[k]
        BY <2>1
      <3>2. PICK x \in SeededEndpoint : x = E[k + 1]
        BY <1>1
      <3>3. f[k + 1] = Append(s, x)
        BY <2>2, <2>5, <3>1, <3>2
      <3>4. /\ Append(s, x) \in Seq(SeededEndpoint) /\ Len(s) \in Nat /\ DOMAIN s = 1..Len(s)
            /\ DOMAIN Append(s, x) = 1..(Len(s) + 1)
            /\ \A i \in 1..Len(s) : Append(s, x)[i] = s[i]
            /\ Append(s, x)[Len(s) + 1] = x
        BY AppendProperties
      <3> DEFINE Has(q, e) == \E i \in DOMAIN q : q[i] = e
      <3>5. \A e : Has(Append(s, x), e) <=> (Has(s, e) \/ x = e)
        BY <3>4
      <3> HIDE DEF Has
      <3>6. \A e : Has(f[k + 1], e) <=> (Has(f[k], e) \/ E[k + 1] = e)
        BY <3>1, <3>2, <3>3, <3>5, Zenon
      <3>7. f[k + 1] \in Seq(SeededEndpoint)
        BY <3>3, <3>4
      <3>8. ASSUME NEW e
            PROVE  (\E i \in DOMAIN f[k + 1] : f[k + 1][i] = e)
                     <=> (e.vertex \notin V /\ \E i \in 1..(k + 1) : E[i] = e)
        <4>1. (\E i \in DOMAIN f[k + 1] : f[k + 1][i] = e)
                <=> ((\E i \in DOMAIN f[k] : f[k][i] = e) \/ E[k + 1] = e)
          BY <3>6, Zenon DEF Has
        <4>2. (\E i \in DOMAIN f[k] : f[k][i] = e) <=> (e.vertex \notin V /\ \E i \in 1..k : E[i] = e)
          BY <2>1
        <4>3. (\E i \in 1..(k + 1) : E[i] = e) <=> ((\E i \in 1..k : E[i] = e) \/ E[k + 1] = e)
          BY <2>3
        <4> QED BY <4>1, <4>2, <4>3, <2>5, Zenon
      <3> QED BY <3>7, <3>8
    <2> QED BY <2>4, <2>5
  <1> HIDE DEF S
  <1>6. Len(E) \in S
    BY <1>1, <1>4, <1>5, NatSetInduction
  <1> QED BY <1>1, <1>3, <1>6, SMTT(40) DEF S

\* So the seed table without V is the seed table, but for V.
LEMMA DropAtSeeds ==
  ASSUME NEW E \in Seq(SeededEndpoint), NEW V, NEW v \in Vertex
  PROVE  BuildSeedTable(DropAt(E, V))[v] = IF v \in V THEN -1 ELSE BuildSeedTable(E)[v]
  <1> DEFINE D == DropAt(E, V)
  <1>1. /\ D \in Seq(SeededEndpoint)
        /\ \A e : (\E i \in DOMAIN D : D[i] = e) <=> (e.vertex \notin V /\ \E i \in DOMAIN E : E[i] = e)
    BY DropAtKeeps
  <1> HIDE DEF D
  <1>2. ASSUME NEW F \in Seq(SeededEndpoint)
        PROVE  /\ BuildSeedTable(F)[v] \in Nat \cup {-1}
               /\ AtVertex(F, v) = {} <=> BuildSeedTable(F)[v] = -1
               /\ AtVertex(F, v) # {} =>
                     /\ \E i \in AtVertex(F, v) : F[i].cost = BuildSeedTable(F)[v]
                     /\ \A i \in AtVertex(F, v) : BuildSeedTable(F)[v] <= F[i].cost
    BY SeedTable
  <1>3. CASE v \in V
    <2>1. AtVertex(D, v) = {}
      BY <1>1, <1>3 DEF AtVertex
    <2> QED BY <2>1, <1>1, <1>2, <1>3 DEF D
  <1>4. CASE v \notin V
    <2>1. ASSUME NEW i \in AtVertex(D, v) PROVE \E j \in AtVertex(E, v) : E[j] = D[i]
      BY <1>1 DEF AtVertex
    <2>2. ASSUME NEW j \in AtVertex(E, v) PROVE \E i \in AtVertex(D, v) : D[i] = E[j]
      BY <1>1, <1>4 DEF AtVertex
    <2>3. AtVertex(D, v) = {} <=> AtVertex(E, v) = {}
      BY <2>1, <2>2
    <2>4. CASE AtVertex(E, v) = {}
      BY <2>3, <2>4, <1>1, <1>2, <1>4 DEF D
    <2>5. CASE AtVertex(E, v) # {}
      <3>1. PICK a \in Nat \cup {-1} : a = BuildSeedTable(D)[v]
        BY <1>1, <1>2
      <3>2. PICK b \in Nat \cup {-1} : b = BuildSeedTable(E)[v]
        BY <1>2
      <3>3. b <= a
        <4>1. PICK i \in AtVertex(D, v) : D[i].cost = a
          BY <2>3, <2>5, <1>1, <1>2, <3>1
        <4>2. PICK j \in AtVertex(E, v) : E[j] = D[i]
          BY <2>1
        <4> QED BY <4>1, <4>2, <1>2, <2>5, <3>2
      <3>4. a <= b
        <4>1. PICK j \in AtVertex(E, v) : E[j].cost = b
          BY <2>5, <1>2, <3>2
        <4>2. PICK i \in AtVertex(D, v) : D[i] = E[j]
          BY <2>2
        <4> QED BY <4>1, <4>2, <1>1, <1>2, <2>3, <2>5, <3>1
      <3> QED BY <3>1, <3>2, <3>3, <3>4, <1>4 DEF D
    <2> QED BY <2>4, <2>5
  <1> QED BY <1>3, <1>4

(***************************************************************************)
(* The order on candidates, by cost and then by path, is total: a finite   *)
(* set of them has a first.                                                *)
(***************************************************************************)
LEMMA PathOfNats ==
  ASSUME NEW p \in Seq(Vertex)
  PROVE  \A i \in 1..Len(p) : p[i] \in Vertex /\ p[i] \in Nat
  <1>1. \A i \in 1..Len(p) : p[i] \in Vertex
    BY ElementOfSeq
  <1>2. Vertex \in SUBSET Nat
    BY VertexFinite
  <1> QED BY <1>1, <1>2

LEMMA LexTotal ==
  ASSUME NEW p \in Seq(Vertex), NEW q \in Seq(Vertex), p # q
  PROVE  LexBefore(p, q) \/ LexBefore(q, p)
  <1>1. PICK a \in Nat : a = Len(p)
    OBVIOUS
  <1>2. PICK b \in Nat : b = Len(q)
    OBVIOUS
  <1> DEFINE T == {n \in Nat : n >= a \/ n >= b \/ p[n + 1] # q[n + 1]}
  <1>3. PICK n \in T : \A k \in T : n <= k
    <2>1. a \in T /\ T \in SUBSET Nat
      OBVIOUS
    <2> QED BY <2>1, LeastNat
  <1>4. ASSUME NEW i \in 1..n PROVE i <= a /\ i <= b /\ p[i] = q[i]
    <2>1. PICK k \in Nat : k = i - 1 /\ k + 1 = i /\ k < n
      BY <1>3
    <2>2. k \notin T
      <3>1. n \in Nat /\ (k \in T => n <= k)
        BY <1>3
      <3> QED BY <2>1, <3>1
    <2> QED BY <2>1, <2>2
  <1>5. n \in Nat /\ n <= a /\ n <= b
    <2>1. CASE n = 0
      BY <2>1
    <2>2. CASE n # 0
      BY <2>2, <1>3, <1>4
    <2> QED BY <2>1, <2>2
  <1>6. \A i \in 1..a : p[i] \in Nat
    BY <1>1, PathOfNats
  <1>7. \A i \in 1..b : q[i] \in Nat
    BY <1>2, PathOfNats
  <1>8. CASE n = a /\ n = b
    <2>1. Len(p) = Len(q) /\ \A i \in 1..Len(p) : p[i] = q[i]
      BY <1>1, <1>2, <1>4, <1>8
    <2>2. p = q
      BY <2>1, SeqEqual
    <2> QED BY <2>2
  <1>9. CASE n = a /\ n < b
    BY <1>1, <1>2, <1>4, <1>5, <1>9 DEF LexBefore
  <1>10. CASE n < a /\ n = b
    BY <1>1, <1>2, <1>4, <1>5, <1>10 DEF LexBefore
  <1>11. CASE n < a /\ n < b
    <2>1. p[n + 1] # q[n + 1] /\ p[n + 1] \in Nat /\ q[n + 1] \in Nat
      BY <1>3, <1>5, <1>6, <1>7, <1>11
    <2>2. CASE p[n + 1] < q[n + 1]
      BY <1>1, <1>2, <1>4, <1>5, <1>11, <2>2 DEF LexBefore
    <2>3. CASE q[n + 1] < p[n + 1]
      BY <1>1, <1>2, <1>4, <1>5, <1>11, <2>3 DEF LexBefore
    <2> QED BY <2>1, <2>2, <2>3
  <1> QED BY <1>5, <1>8, <1>9, <1>10, <1>11

LEMMA LexTransitive ==
  ASSUME NEW p \in Seq(Vertex), NEW q \in Seq(Vertex), NEW r \in Seq(Vertex),
         LexBefore(p, q), LexBefore(q, r)
  PROVE  LexBefore(p, r)
  <1>1. PICK a \in Nat : a = Len(p)
    OBVIOUS
  <1>2. PICK b \in Nat : b = Len(q)
    OBVIOUS
  <1>3. PICK c \in Nat : c = Len(r)
    OBVIOUS
  <1>4. PICK m \in 0..a : /\ \A i \in 1..m : i <= b /\ p[i] = q[i]
                          /\ m < b
                          /\ m = a \/ p[m + 1] < q[m + 1]
    BY <1>1, <1>2 DEF LexBefore
  <1>5. PICK n \in 0..b : /\ \A i \in 1..n : i <= c /\ q[i] = r[i]
                          /\ n < c
                          /\ n = b \/ q[n + 1] < r[n + 1]
    BY <1>2, <1>3 DEF LexBefore
  <1>6. (\A i \in 1..a : p[i] \in Nat) /\ (\A i \in 1..b : q[i] \in Nat) /\ (\A i \in 1..c : r[i] \in Nat)
    BY <1>1, <1>2, <1>3, PathOfNats
  <1>7. CASE m < n
    <2>1. \A i \in 1..m : i <= c /\ p[i] = r[i]
      BY <1>4, <1>5, <1>7
    <2>2. m < c /\ q[m + 1] = r[m + 1]
      BY <1>4, <1>5, <1>7
    <2> QED BY <2>1, <2>2, <1>1, <1>3, <1>4 DEF LexBefore
  <1>8. CASE n < m
    <2>1. \A i \in 1..n : i <= c /\ p[i] = r[i]
      BY <1>4, <1>5, <1>8
    <2>2. n < a /\ p[n + 1] = q[n + 1] /\ n # b /\ n \in 0..a
      BY <1>4, <1>5, <1>8
    <2>3. n < c /\ p[n + 1] < r[n + 1]
      BY <2>2, <1>5
    <2> QED BY <2>1, <2>2, <2>3, <1>1, <1>3 DEF LexBefore
  <1>9. CASE n = m
    <2>1. \A i \in 1..m : i <= c /\ p[i] = r[i]
      BY <1>4, <1>5, <1>9
    <2>2. CASE m = a
      BY <2>1, <2>2, <1>1, <1>3, <1>4, <1>5, <1>9 DEF LexBefore
    <2>3. CASE m # a
      <3>1. /\ m + 1 \in 1..a /\ m + 1 \in 1..b /\ m + 1 \in 1..c
            /\ p[m + 1] < q[m + 1] /\ q[m + 1] < r[m + 1]
        BY <2>3, <1>4, <1>5, <1>9
      <3>2. p[m + 1] < r[m + 1]
        BY <3>1, <1>6
      <3> QED BY <3>1, <3>2, <2>1, <1>1, <1>3, <1>4, SMTT(40) DEF LexBefore
    <2> QED BY <2>2, <2>3
  <1> QED BY <1>4, <1>5, <1>7, <1>8, <1>9

LEMMA FirstBefore ==
  ASSUME NEW C, IsFiniteSet(C), C # {},
         \A c \in C : c.cost \in Nat /\ c.vertices \in Seq(Vertex),
         \A c, d \in C : c.vertices = d.vertices => c = d
  PROVE  \E c \in C : \A d \in C \ {c} : Before(c, d)
  <1> DEFINE S == {n \in Nat : \A D \in SUBSET C : Cardinality(D) = n + 1 =>
                                 \E c \in D : \A d \in D \ {c} : Before(c, d)}
  <1>1. ASSUME NEW c \in C, NEW d \in C, c # d PROVE Before(c, d) \/ Before(d, c)
    <2>1. LexBefore(c.vertices, d.vertices) \/ LexBefore(d.vertices, c.vertices)
      BY <1>1, LexTotal
    <2> QED BY <2>1 DEF Before
  <1>2. ASSUME NEW c \in C, NEW d \in C, NEW e \in C, Before(c, d), Before(d, e)
        PROVE  Before(c, e)
    <2>1. LexBefore(c.vertices, d.vertices) /\ LexBefore(d.vertices, e.vertices)
            => LexBefore(c.vertices, e.vertices)
      BY LexTransitive
    <2> QED BY <2>1, <1>2 DEF Before
  <1>3. 0 \in S
    <2> SUFFICES ASSUME NEW D \in SUBSET C, Cardinality(D) = 1
                 PROVE  \E c \in D : \A d \in D \ {c} : Before(c, d)
      OBVIOUS
    <2>1. IsFiniteSet(D)
      BY FS_Subset
    <2>2. \E x : D = {x}
      BY <2>1, FS_Singleton
    <2> QED BY <2>2
  <1>4. ASSUME NEW n \in Nat, n \in S PROVE n + 1 \in S
    <2> SUFFICES ASSUME NEW D \in SUBSET C, Cardinality(D) = (n + 1) + 1
                 PROVE  \E c \in D : \A d \in D \ {c} : Before(c, d)
      OBVIOUS
    <2>1. IsFiniteSet(D)
      BY FS_Subset
    <2>2. PICK x : x \in D
      <3>1. D # {}
        <4>1. (n + 1) + 1 # 0
          OBVIOUS
        <4> QED BY <4>1, FS_EmptySet
      <3> QED BY <3>1
    <2>3. Cardinality(D \ {x}) = n + 1 /\ D \ {x} \in SUBSET C
      <3>1. Cardinality(D \ {x}) = Cardinality(D) - 1
        BY <2>1, <2>2, FS_RemoveElement
      <3>2. ((n + 1) + 1) - 1 = n + 1
        OBVIOUS
      <3> QED BY <3>1, <3>2
    <2>4. PICK c \in D \ {x} : \A d \in (D \ {x}) \ {c} : Before(c, d)
      BY <2>3, <1>4
    <2>5. CASE Before(c, x)
      BY <2>4, <2>5
    <2>6. CASE Before(x, c)
      <3>1. ASSUME NEW d \in D \ {x} PROVE Before(x, d)
        <4>1. CASE d = c
          BY <4>1, <2>6
        <4>2. CASE d # c
          BY <4>2, <2>2, <2>4, <2>6, <1>2
        <4> QED BY <4>1, <4>2
      <3> QED BY <3>1, <2>2
    <2> QED BY <2>2, <2>4, <2>5, <2>6, <1>1
  <1> HIDE DEF S
  <1>5. Nat \subseteq S
    BY <1>3, <1>4, NatSetInduction
  <1>6. PICK n \in Nat : Cardinality(C) = n + 1
    <2>1. Cardinality(C) \in Nat /\ Cardinality(C) # 0
      BY FS_CardinalityType, FS_EmptySet
    <2>2. Cardinality(C) - 1 \in Nat /\ Cardinality(C) = (Cardinality(C) - 1) + 1
      BY <2>1
    <2> QED BY <2>2
  <1> QED BY <1>5, <1>6 DEF S

(***************************************************************************)
(* Costs of routes.                                                        *)
(***************************************************************************)
LEMMA StepNumbers ==
  ASSUME NEW gr, IsGraph(gr), NEW w \in Vertex, NEW v \in Vertex, Usable(gr, w, v) # {}
  PROVE  EdgeCost(SelectEdge(gr, w, v)) \in Nat /\ SelectEdge(gr, w, v).distance_nm \in Nat
  <1>1. PICK i \in DOMAIN gr[w] : FirstCheapest(gr, w, v, i)
    BY SelectSome
  <1>2. SelectEdge(gr, w, v) = gr[w][i]
    BY <1>1, SelectIs
  <1> QED BY <1>1, <1>2, RowFacts

\* The headings at a place of a path: of a leg, or the one given for its end.
LEMMA HeadingsAt ==
  ASSUME NEW p \in Seq(Vertex), NEW i \in 1..Len(p), NEW a \in Heading, NEW b \in Heading
  PROVE  InboundAt(p, a, i) \in Heading /\ OutboundAt(p, b, i) \in Heading
  <1>1. Len(p) \in Nat /\ \A j \in 1..Len(p) : p[j] \in Vertex
    BY LenProperties, ElementOfSeq
  <1>2. ASSUME NEW v \in Vertex, NEW w \in Vertex PROVE BearingTo[v][w] \in Heading
    <2>1. BearingTo[v][w] \in 0..359
      BY BearingAssumption
    <2> QED BY <2>1, Zenon DEF Heading
  <1>3. InboundAt(p, a, i) \in Heading
    <2>1. CASE i = 1
      BY <2>1 DEF InboundAt
    <2>2. CASE i # 1
      <3>1. i - 1 \in 1..Len(p)
        BY <2>2, <1>1
      <3>2. BearingTo[p[i - 1]][p[i]] \in Heading
        BY <3>1, <1>1, <1>2, Zenon
      <3> QED BY <3>2, <2>2, Zenon DEF InboundAt
    <2> QED BY <2>1, <2>2
  <1>4. OutboundAt(p, b, i) \in Heading
    <2>1. CASE i = Len(p)
      BY <2>1 DEF OutboundAt
    <2>2. CASE i # Len(p)
      <3>1. i + 1 \in 1..Len(p)
        BY <2>2, <1>1
      <3>2. BearingTo[p[i]][p[i + 1]] \in Heading
        BY <3>1, <1>1, <1>2, Zenon
      <3> QED BY <3>2, <2>2, Zenon DEF OutboundAt
    <2> QED BY <2>1, <2>2
  <1> QED BY <1>3, <1>4

LEMMA RouteNumbers ==
  ASSUME NEW gr, IsGraph(gr), NEW c, CallOK(c), NEW p \in Routes(gr, c)
  PROVE  /\ RouteCost(gr, c, p) \in Nat
         /\ DistanceOfPathMulti(gr, p, BuildSeedTable(c.sources), c.goalSeed) \in Nat
         /\ \A i \in 1..(Len(p) - 1) : StepsOf(gr, p)[i] \in Nat
         /\ BuildSeedTable(c.sources)[p[1]] \in Nat
         /\ c.goalSeed[p[Len(p)]] \in Nat
         /\ ~c.turn => RouteCost(gr, c, p) = BuildSeedTable(c.sources)[p[1]] + c.goalSeed[p[Len(p)]]
                                               + Total(StepsOf(gr, p), Len(p) - 1)
  <1>1. Flyable(gr, c, p) /\ c.goalSeed[p[Len(p)]] >= 0
    BY RoutesAre
  <1>2. /\ p \in Seq(Vertex) /\ Len(p) \in Nat /\ Len(p) >= 1 /\ DOMAIN p = 1..Len(p)
        /\ \A i \in 1..Len(p) : p[i] \in Vertex
        /\ \A i \in 1..(Len(p) - 1) : /\ p[i] \in Vertex /\ p[i + 1] \in Vertex
                                      /\ Usable(gr, p[i], p[i + 1]) # {}
        /\ BuildSeedTable(c.sources)[p[1]] >= 0
    BY <1>1, FlyableFacts
  <1>n. PICK n \in Nat : n = Len(p) /\ n >= 1
    BY <1>2
  <1>3. Head(p) = p[1] /\ p[1] \in Vertex /\ p[n] \in Vertex
    BY <1>2, <1>n
  <1>4. PICK s \in Nat : s = BuildSeedTable(c.sources)[p[1]]
    <2>1. BuildSeedTable(c.sources)[p[1]] \in Nat \cup {-1}
      BY <1>3, SeedTable DEF CallOK
    <2> QED BY <2>1, <1>2
  <1>5. PICK t \in Nat : t = c.goalSeed[p[n]]
    <2>1. c.goalSeed[p[n]] \in Nat \cup {-1}
      BY <1>3 DEF CallOK
    <2> QED BY <2>1, <1>1, <1>n
  <1> DEFINE F == StepsOf(gr, p)
             D == [i \in 1..(n - 1) |-> SelectEdge(gr, p[i], p[i + 1]).distance_nm]
             T == [i \in DOMAIN p |-> TurnCost(c.turn, InboundAt(p, c.sourceBearing[Head(p)], i),
                                                       OutboundAt(p, c.goalBearing[p[Len(p)]], i))]
  <1>6. \A i \in 1..(n - 1) : F[i] \in Nat
    <2> SUFFICES ASSUME NEW i \in 1..(n - 1) PROVE F[i] \in Nat
      OBVIOUS
    <2>1. F[i] = EdgeCost(SelectEdge(gr, p[i], p[i + 1]))
      BY <1>n DEF StepsOf
    <2> QED BY <2>1, <1>2, <1>n, StepNumbers
  <1>7. \A i \in 1..(n - 1) : D[i] \in Nat
    BY <1>2, <1>n, StepNumbers
  <1>8. \A i \in 1..n : T[i] \in Nat /\ (~c.turn => T[i] = 0)
    <2> SUFFICES ASSUME NEW i \in 1..n PROVE T[i] \in Nat /\ (~c.turn => T[i] = 0)
      OBVIOUS
    <2>1. p \in Seq(Vertex) /\ i \in 1..Len(p)
      BY <1>2, <1>n
    <2>2. c.sourceBearing[Head(p)] \in Heading /\ c.goalBearing[p[Len(p)]] \in Heading
      <3>1. c.sourceBearing \in [Vertex -> Heading] /\ c.goalBearing \in [Vertex -> Heading]
        BY Zenon DEF CallOK
      <3> QED BY <3>1, <1>3, <1>n
    <2>a. /\ InboundAt(p, c.sourceBearing[Head(p)], i) \in Heading
          /\ OutboundAt(p, c.goalBearing[p[Len(p)]], i) \in Heading
      BY <2>1, <2>2, HeadingsAt, Zenon
    <2>3. T[i] = TurnCost(c.turn, InboundAt(p, c.sourceBearing[Head(p)], i),
                                  OutboundAt(p, c.goalBearing[p[Len(p)]], i))
      BY <1>2, <1>n
    <2> HIDE DEF T
    <2> QED BY <2>a, <2>3, TurnNat, ZenonT(60) DEF CallOK
  <1>9. PICK m \in Nat : m = n - 1
    BY <1>n
  <1>10. Total(F, m) \in Nat /\ Total(D, m) \in Nat /\ Total(T, n) \in Nat /\ (~c.turn => Total(T, n) = 0)
    <2> HIDE DEF F, D, T
    <2>1. Total(F, m) \in Nat /\ Total(D, m) \in Nat
      BY <1>6, <1>7, <1>9, TotalNat
    <2>2. Total(T, n) \in Nat /\ (~c.turn => Total(T, n) = 0)
      BY <1>8, TotalNat, TotalZero
    <2> QED BY <2>1, <2>2
  <1>11. CostOfPath(gr, p, c.turn, c.sourceBearing[Head(p)], c.goalBearing[p[Len(p)]])
           = Total(F, m) + Total(T, n)
    BY <1>n, <1>9 DEF CostOfPath, F, StepsOf
  <1>12. EnrouteDistance(gr, p) = Total(D, m)
    BY <1>n, <1>9 DEF EnrouteDistance
  <1> HIDE DEF F, D, T
  <1>13. RouteCost(gr, c, p) = s + t + (Total(F, m) + Total(T, n))
    BY <1>11, <1>3, <1>4, <1>5, <1>n DEF RouteCost, CostOfPathMulti
  <1>14. DistanceOfPathMulti(gr, p, BuildSeedTable(c.sources), c.goalSeed) = s + t + Total(D, m)
    BY <1>12, <1>3, <1>4, <1>5, <1>n DEF DistanceOfPathMulti
  <1>15. \A i \in 1..(Len(p) - 1) : StepsOf(gr, p)[i] \in Nat
    BY <1>6, <1>n DEF F
  <1>16. ~c.turn => RouteCost(gr, c, p) = s + t + Total(F, m)
    BY <1>13, <1>10
  <1>17. RouteCost(gr, c, p) \in Nat
    BY <1>10, <1>13
  <1>18. DistanceOfPathMulti(gr, p, BuildSeedTable(c.sources), c.goalSeed) \in Nat
    BY <1>10, <1>14
  <1>19. Len(p) - 1 = m
    BY <1>n, <1>9
  <1> QED BY <1>4, <1>5, <1>15, <1>16, <1>17, <1>18, <1>19, <1>n DEF F

(***************************************************************************)
(* A root and what a spur search found, stitched.                          *)
(***************************************************************************)
LEMMA Prefix ==
  ASSUME NEW p \in Seq(Vertex), NEW n \in 0..Len(p)
  PROVE  /\ SubSeq(p, 1, n) \in Seq(Vertex)
         /\ Len(SubSeq(p, 1, n)) = n
         /\ \A i \in 1..n : SubSeq(p, 1, n)[i] = p[i]
  <1>1. n \in Int /\ n \in Nat /\ \A i \in 1..n : p[i] \in Vertex
    BY PathOfNats, LenProperties
  <1> QED BY <1>1, SubSeqProperties

LEMMA SingleSeed ==
  ASSUME NEW w \in Vertex \cup {kNoVertex}, NEW b \in Heading, NEW v \in Vertex
  PROVE  LET E == <<[vertex |-> w, cost |-> 0, bearing |-> b]>>
         IN  /\ E \in Seq(SeededEndpoint)
             /\ BuildSeedTable(E)[v] = IF v = w THEN 0 ELSE -1
  <1> DEFINE e == [vertex |-> w, cost |-> 0, bearing |-> b]
             E == <<e>>
  <1>1. e \in SeededEndpoint
    BY DEF SeededEndpoint, Heading
  <1>2. E \in Seq(SeededEndpoint) /\ DOMAIN E = {1} /\ E[1] = e
    BY <1>1
  <1>3. e.vertex = w /\ e.cost = 0
    OBVIOUS
  <1> HIDE DEF e, E
  <1>4. AtVertex(E, v) = IF v = w THEN {1} ELSE {}
    BY <1>2, <1>3 DEF AtVertex
  <1>5. CASE v = w
    BY <1>2, <1>3, <1>4, <1>5, SeedTable DEF E, e
  <1>6. CASE v # w
    BY <1>2, <1>3, <1>4, <1>6, SeedTable DEF E, e
  <1> QED BY <1>5, <1>6

\* p is the first s - 1 vertices of q, then r.
IsJoined(p, q, s, r) == p = SubSeq(q, 1, s - 1) \o r

\* From its s-th vertex on p is r.
EndsAs(p, s, r) == Len(p) = (s - 1) + Len(r) /\ \A i \in 1..Len(r) : p[(s - 1) + i] = r[i]

LEMMA StitchRoute ==
  ASSUME NEW gr, NEW c, NEW d, NEW q, NEW r, NEW s \in Nat \ {0},
         Flyable(gr, c, q), s <= Len(q), Flyable(gr, d, r),
         d.sources = <<[vertex |-> q[s], cost |-> 0, bearing |-> kNoBearing]>>,
         \A v : NodeBlocked(c.bans, v) => NodeBlocked(d.bans, v),
         \A v, w : EdgeBlocked(c.bans, v, w) => EdgeBlocked(d.bans, v, w),
         \A i \in 1..(s - 1) : NodeBlocked(d.bans, q[i]),
         NEW p, IsJoined(p, q, s, r)
  PROVE  /\ Flyable(gr, c, p)
         /\ Len(p) = (s - 1) + Len(r)
         /\ \A i \in 1..s : p[i] = q[i]
         /\ \A i \in 1..Len(r) : p[(s - 1) + i] = r[i]
  <1> DEFINE a == SubSeq(q, 1, s - 1)
  <1>1. /\ q \in Seq(Vertex) /\ Len(q) \in Nat /\ Len(q) >= 1
        /\ \A i \in 1..Len(q) : q[i] \in Vertex /\ ~NodeBlocked(c.bans, q[i])
        /\ \A i \in 1..(Len(q) - 1) : /\ ~EdgeBlocked(c.bans, q[i], q[i + 1])
                                      /\ Usable(gr, q[i], q[i + 1]) # {}
        /\ BuildSeedTable(c.sources)[q[1]] >= 0
        /\ IsSimple(q) /\ DOMAIN q = 1..Len(q)
    BY FlyableFacts DEF Flyable
  <1>2. /\ r \in Seq(Vertex) /\ Len(r) \in Nat /\ Len(r) >= 1
        /\ \A i \in 1..Len(r) : r[i] \in Vertex /\ ~NodeBlocked(d.bans, r[i])
        /\ \A i \in 1..(Len(r) - 1) : /\ ~EdgeBlocked(d.bans, r[i], r[i + 1])
                                      /\ Usable(gr, r[i], r[i + 1]) # {}
        /\ BuildSeedTable(d.sources)[r[1]] >= 0
        /\ IsSimple(r) /\ DOMAIN r = 1..Len(r)
    BY FlyableFacts DEF Flyable
  <1>m. PICK m \in Nat : m = s - 1 /\ m + 1 = s /\ m < Len(q)
    BY <1>1
  <1>k. PICK k \in Nat : k = Len(r) /\ k >= 1
    BY <1>2
  <1>3. a \in Seq(Vertex) /\ Len(a) = m /\ \A i \in 1..m : a[i] = q[i]
    BY <1>1, <1>m, Prefix
  <1>4. r[1] = q[s]
    <2>1. r[1] \in Vertex /\ q[s] \in Vertex
      BY <1>1, <1>2
    <2>2. kNoBearing \in Heading
      BY DEF Heading
    <2>3. BuildSeedTable(d.sources)[r[1]] = IF r[1] = q[s] THEN 0 ELSE -1
      BY <2>1, <2>2, SingleSeed
    <2> QED BY <2>3, <1>2
  <1>5. /\ p \in Seq(Vertex) /\ Len(p) = m + k
        /\ \A i \in 1..(m + k) : p[i] = IF i <= m THEN a[i] ELSE r[i - m]
    <2>1. p = a \o r
      BY DEF IsJoined
    <2> HIDE DEF a
    <2>2. /\ a \o r \in Seq(Vertex) /\ Len(a \o r) = Len(a) + Len(r)
          /\ \A i \in 1..(Len(a) + Len(r)) : (a \o r)[i] = IF i <= Len(a) THEN a[i] ELSE r[i - Len(a)]
      BY <1>2, <1>3, ConcatProperties, ZenonT(60)
    <2> QED BY <2>1, <2>2, <1>3, <1>k, Zenon
  <1> HIDE DEF a
  <1>6. \A i \in 1..m : p[i] = q[i]
    BY <1>3, <1>5, <1>k
  <1>7. ASSUME NEW i \in 1..k PROVE p[m + i] = r[i]
    <2>1. m + i \in 1..(m + k) /\ ~(m + i <= m) /\ (m + i) - m = i
      OBVIOUS
    <2> QED BY <2>1, <1>5
  <1>8. \A i \in 1..s : p[i] = q[i]
    <2>1. p[m + 1] = r[1]
      BY <1>7, <1>k
    <2> QED BY <2>1, <1>4, <1>6, <1>m
  <1>9. ASSUME NEW i \in 1..(m + k)
        PROVE  \/ i <= m
               \/ \E j \in 1..k : i = m + j
    BY <1>m
  <1>10. \A i \in 1..(m + k) : p[i] \in Vertex /\ ~NodeBlocked(c.bans, p[i])
    <2> SUFFICES ASSUME NEW i \in 1..(m + k) PROVE p[i] \in Vertex /\ ~NodeBlocked(c.bans, p[i])
      OBVIOUS
    <2>1. CASE i <= m
      BY <2>1, <1>6, <1>1, <1>m
    <2>2. CASE \E j \in 1..k : i = m + j
      BY <2>2, <1>7, <1>2, <1>k
    <2> QED BY <2>1, <2>2, <1>9
  <1>11. ASSUME NEW i \in 1..((m + k) - 1)
         PROVE  ~EdgeBlocked(c.bans, p[i], p[i + 1]) /\ Usable(gr, p[i], p[i + 1]) # {}
    <2>1. CASE i <= m
      <3>1. p[i] = q[i] /\ p[i + 1] = q[i + 1] /\ i \in 1..(Len(q) - 1)
        BY <2>1, <1>8, <1>m, <1>1
      <3> QED BY <3>1, <1>1
    <2>2. CASE i > m
      <3>1. PICK j \in 1..(k - 1) : i = m + j
        <4>1. i - m \in 1..(k - 1) /\ i = m + (i - m)
          BY <2>2
        <4> QED BY <4>1
      <3>2. i + 1 = m + (j + 1) /\ j \in 1..k /\ j + 1 \in 1..k
        BY <3>1
      <3>3. p[i] = r[j] /\ p[i + 1] = r[j + 1]
        BY <3>1, <3>2, <1>7
      <3> QED BY <3>1, <3>3, <1>2, <1>k
    <2> QED BY <2>1, <2>2
  <1>12. IsSimple(p)
    <2> SUFFICES ASSUME NEW i \in 1..(m + k), NEW j \in 1..(m + k), p[i] = p[j] PROVE i = j
      BY <1>5 DEF IsSimple
    <2>1. ASSUME NEW x \in 1..m, NEW y \in 1..k PROVE p[x] # p[m + y]
      <3>1. p[x] = q[x] /\ NodeBlocked(d.bans, q[x])
        BY <1>6, <1>m
      <3>2. p[m + y] = r[y] /\ ~NodeBlocked(d.bans, r[y])
        BY <1>7, <1>2, <1>k
      <3> QED BY <3>1, <3>2
    <2>2. CASE i <= m /\ j <= m
      <3>1. q[i] = q[j] /\ i \in DOMAIN q /\ j \in DOMAIN q
        BY <2>2, <1>6, <1>1, <1>m
      <3> QED BY <3>1, <1>1 DEF IsSimple
    <2>3. CASE i <= m /\ j > m
      <3>1. PICK y \in 1..k : j = m + y
        BY <2>3, <1>9
      <3>2. i \in 1..m
        BY <2>3
      <3> QED BY <3>1, <3>2, <2>1
    <2>4. CASE i > m /\ j <= m
      <3>1. PICK y \in 1..k : i = m + y
        BY <2>4, <1>9
      <3>2. j \in 1..m
        BY <2>4
      <3> QED BY <3>1, <3>2, <2>1
    <2>5. CASE i > m /\ j > m
      <3>1. PICK x \in 1..k : i = m + x
        BY <2>5, <1>9
      <3>2. PICK y \in 1..k : j = m + y
        BY <2>5, <1>9
      <3>3. r[x] = r[y]
        BY <3>1, <3>2, <1>7
      <3>4. x = y
        BY <3>3, <1>2, <1>k DEF IsSimple
      <3> QED BY <3>1, <3>2, <3>4
    <2> QED BY <2>2, <2>3, <2>4, <2>5
  <1>13. p # <<>>
    <2>1. Len(p) # 0
      BY <1>5, <1>k
    <2> QED BY <2>1
  <1>14. Flyable(gr, c, p)
    <2>1. p[1] = q[1]
      BY <1>8
    <2>2. \A i \in 1..Len(p) : ~NodeBlocked(c.bans, p[i])
      BY <1>5, <1>10
    <2>3. \A i \in 1..(Len(p) - 1) : ~EdgeBlocked(c.bans, p[i], p[i + 1]) /\ Usable(gr, p[i], p[i + 1]) # {}
      BY <1>5, <1>11
    <2> QED BY <2>1, <2>2, <2>3, <1>1, <1>5, <1>12, <1>13 DEF Flyable
  <1>15. Len(p) = (s - 1) + Len(r) /\ \A i \in 1..Len(r) : p[(s - 1) + i] = r[i]
    BY <1>5, <1>7, <1>m, <1>k
  <1> QED BY <1>8, <1>14, <1>15

(***************************************************************************)
(* The invariant of Yen's loop.                                            *)
(***************************************************************************)
RequestOK(r) ==
    /\ r.sources \in Seq(SeededEndpoint)
    /\ r.goals \in Seq(SeededEndpoint)
    /\ r.k \in Int
    /\ r.turn \in BOOLEAN

FoundPath == [vertices : Seq(Vertex), cost : Nat, distance_nm : Nat]

Candidate == [cost : Nat, distance_nm : Nat, vertices : Seq(Vertex), deviation : Nat]

\* A route of the request with its true cost and distance.
TrueRoute(r) ==
    /\ r.vertices \in Routes(graph, Question)
    /\ r.cost = RouteCost(graph, Question, r.vertices)
    /\ r.distance_nm = DistanceOfPathMulti(graph, r.vertices, source_seed, goal_seed)

\* The first n vertices of p and of q are the same.
Shares(p, q, n) == n <= Len(p) /\ n <= Len(q) /\ \A i \in 1..n : p[i] = q[i]

AcceptedOK ==
    /\ results \in Seq(FoundPath)
    /\ \A i \in DOMAIN results : TrueRoute(results[i])
    /\ \A i, j \in DOMAIN results : results[i].vertices = results[j].vertices => i = j
    /\ phase \in {"idle", "first"} => results = <<>>
    /\ phase \in {"round", "spur"} => results # <<>>

\* The candidates are other routes, each leaving an accepted path where it says or later.
CandidatesOK ==
    /\ IsFiniteSet(candidates)
    /\ \A c \in candidates :
          /\ c \in Candidate
          /\ TrueRoute(c)
          /\ c.vertices \notin Answer
          /\ \E i \in DOMAIN results : Shares(c.vertices, results[i].vertices, c.deviation)
    /\ \A c, d \in candidates : c.vertices = d.vertices => c = d
    /\ phase \in {"idle", "first"} => candidates = {}

\* The goal table a spur search uses.
SpurSeed ==
    IF spur > 0 /\ EndsAtSpur THEN [goal_seed EXCEPT ![PrevPath[spur]] = -1] ELSE goal_seed

TablesOK ==
    /\ spur \in Nat
    /\ phase \in {"idle", "first"} => spur = 0
    /\ spur_source_bearing \in [Vertex -> Heading]
    /\ spur_goal_seed = IF phase = "spur" THEN SpurSeed ELSE goal_seed

\* The search under way is the one the loop asked for.
SpurCall ==
    IF spur = 0
      THEN Call(SpurSources, request.goals, goal_seed, source_bearing, goal_bearing,
                request.turn, request.bans)
      ELSE Call(<<[vertex |-> PrevPath[spur], cost |-> 0, bearing |-> kNoBearing]>>,
                request.goals, spur_goal_seed, spur_source_bearing, goal_bearing,
                request.turn, SpurBans)

SearchAsked ==
    /\ phase = "first" => pc = "idle" \/ call = Question
    /\ phase = "spur" => spur <= Len(PrevPath) /\ call = SpurCall

YInv ==
    /\ RequestOK(request)
    /\ phase \in {"idle", "first", "round", "spur", "return"}
    /\ AcceptedOK
    /\ CandidatesOK
    /\ TablesOK
    /\ SearchAsked

\* Some accepted path shares n vertices with p, and none shares more.
LeavesAt(p, n) ==
    /\ \E i \in DOMAIN results : Shares(p, results[i].vertices, n)
    /\ \A i \in DOMAIN results : ~Shares(p, results[i].vertices, n + 1)

\* A candidate no dearer than p goes that far with it, or the position is one of the
\* last path that this round has not come to.
Covered(p, n) ==
    \E c \in candidates : /\ c.deviation <= n
                          /\ Shares(p, c.vertices, n)
                          /\ c.cost <= RouteCost(graph, Question, p)

Ahead(p, n) == spur <= n /\ Shares(p, PrevPath, n)

Other == Routes(graph, Question) \ Answer

KInv ==
    ~request.turn =>
       /\ phase \in {"round", "spur"} =>
             \A p \in Other : \A n \in 0..Len(p) : LeavesAt(p, n) => Covered(p, n) \/ Ahead(p, n)
       /\ \A p \in Other : \A i \in DOMAIN results : results[i].cost <= RouteCost(graph, Question, p)
       /\ (phase = "return" /\ results # <<>>) => Other = {} \/ Len(results) = request.k

(***************************************************************************)
(* The invariant of the via merge and of FindRoutes: who may be running.   *)
(***************************************************************************)
QueryOK ==
    /\ RequestOK(query)
    /\ query.forced \in Seq(Vertex \cup {kNoVertex})

FInv ==
    /\ QueryOK
    /\ stage \in {"idle", "ask", "hop", "merge", "bar", "search", "return"}
    /\ hop \in Nat \ {0}
    /\ stage = "idle" => hop = 1
    /\ stage \in {"ask", "hop", "bar", "search"} => hop <= hops
    /\ path \in Seq(Vertex)

TInv ==
    /\ asked \in Questions
    /\ step \in {"call", "run", "astar", "yen", "forced", "done"}
    /\ step \in {"call", "run"} => pc = "idle" /\ phase = "idle" /\ stage = "idle"
    /\ step = "astar" => phase = "idle" /\ stage = "idle"
    /\ step = "yen" => stage = "idle"
    /\ (step # "yen" /\ stage # "hop") => phase \in {"idle", "return"}

Inv == AInv /\ YInv /\ KInv /\ FInv /\ TInv

LEMMA QuestionFacts ==
  ASSUME RequestOK(request)
  PROVE  /\ CallOK(Question)
         /\ Question.sources = request.sources /\ Question.goals = request.goals
         /\ Question.goalSeed = goal_seed /\ Question.sourceBearing = source_bearing
         /\ Question.goalBearing = goal_bearing
         /\ Question.turn = request.turn /\ Question.bans = request.bans
         /\ goal_seed \in [Vertex -> Nat \cup {-1}]
         /\ source_bearing \in [Vertex -> Heading] /\ goal_bearing \in [Vertex -> Heading]
  <1>1. Question = PlainCall(request.sources, request.goals, request.turn, request.bans)
    BY DEF Question, PlainCall, goal_seed, source_bearing, goal_bearing
  <1>2. CallOK(Question)
    BY <1>1, PlainCallOK DEF RequestOK
  <1>3. /\ Question.sources = request.sources /\ Question.goals = request.goals
        /\ Question.goalSeed = goal_seed /\ Question.sourceBearing = source_bearing
        /\ Question.goalBearing = goal_bearing
        /\ Question.turn = request.turn /\ Question.bans = request.bans
    BY DEF Question, Call
  <1>4. /\ goal_seed \in [Vertex -> Nat \cup {-1}]
        /\ source_bearing \in [Vertex -> Heading] /\ goal_bearing \in [Vertex -> Heading]
    BY SeedTableTypes DEF RequestOK, goal_seed, source_bearing, goal_bearing
  <1> QED BY <1>2, <1>3, <1>4

LEMMA TrueRouteNumbers ==
  ASSUME RequestOK(request), IsGraph(graph), NEW p \in Routes(graph, Question)
  PROVE  /\ RouteCost(graph, Question, p) \in Nat
         /\ DistanceOfPathMulti(graph, p, source_seed, goal_seed) \in Nat
         /\ p \in Seq(Vertex) /\ Len(p) \in Nat /\ Len(p) >= 1 /\ DOMAIN p = 1..Len(p)
         /\ Flyable(graph, Question, p)
         /\ goal_seed[p[Len(p)]] >= 0
         /\ source_seed[p[1]] >= 0
  <1>1. CallOK(Question) /\ Question.sources = request.sources /\ Question.goalSeed = goal_seed
    BY QuestionFacts
  <1>2. Flyable(graph, Question, p) /\ goal_seed[p[Len(p)]] >= 0
    BY <1>1, RoutesAre
  <1>3. /\ RouteCost(graph, Question, p) \in Nat
        /\ DistanceOfPathMulti(graph, p, source_seed, goal_seed) \in Nat
    BY <1>1, RouteNumbers DEF source_seed
  <1>4. /\ p \in Seq(Vertex) /\ Len(p) \in Nat /\ Len(p) >= 1 /\ DOMAIN p = 1..Len(p)
        /\ source_seed[p[1]] >= 0
    BY <1>1, <1>2, FlyableFacts DEF source_seed
  <1> QED BY <1>2, <1>3, <1>4

\* What only the question and the accepted paths decide.
LEMMA SameQuestion ==
  ASSUME UNCHANGED <<graph, request, results>>
  PROVE  /\ source_seed' = source_seed /\ goal_seed' = goal_seed
         /\ source_bearing' = source_bearing /\ goal_bearing' = goal_bearing
         /\ Question' = Question /\ Answer' = Answer /\ PrevPath' = PrevPath /\ Other' = Other
         /\ \A r : TrueRoute(r)' = TrueRoute(r)
         /\ \A p, n : LeavesAt(p, n)' = LeavesAt(p, n)
         /\ RequestOK(request)' = RequestOK(request)
         /\ SpurSources' = SpurSources
  <1>2. source_seed' = source_seed /\ goal_seed' = goal_seed
        /\ source_bearing' = source_bearing /\ goal_bearing' = goal_bearing
    BY DEF source_seed, goal_seed, source_bearing, goal_bearing
  <1>3. Question' = Question
    BY <1>2 DEF Question
  <1>4. Answer' = Answer /\ PrevPath' = PrevPath /\ SpurSources' = SpurSources
    BY DEF Answer, PrevPath, SpurSources
  <1>5. Other' = Other
    BY <1>3, <1>4 DEF Other
  <1>6. \A r : TrueRoute(r)' = TrueRoute(r)
    BY <1>2, <1>3 DEF TrueRoute
  <1>7. \A p, n : LeavesAt(p, n)' = LeavesAt(p, n)
    BY DEF LeavesAt
  <1>8. RequestOK(request)' = RequestOK(request)
    BY DEF RequestOK
  <1> QED BY <1>2, <1>3, <1>4, <1>5, <1>6, <1>7, <1>8

\* While Yen's variables and the graph stay, only the call can disturb its invariant.
LEMMA YenFrame ==
  ASSUME YInv, KInv, UNCHANGED <<graph, yenVars>>,
         phase = "first" => pc' = "idle" \/ call' = Question,
         phase = "spur" => call' = call
  PROVE  YInv' /\ KInv'
  <1>1. /\ graph' = graph /\ phase' = phase /\ request' = request /\ results' = results
        /\ candidates' = candidates /\ spur' = spur /\ spur_source_bearing' = spur_source_bearing
        /\ spur_goal_seed' = spur_goal_seed
    BY DEF yenVars
  <1>2. source_seed' = source_seed /\ goal_seed' = goal_seed
        /\ source_bearing' = source_bearing /\ goal_bearing' = goal_bearing
    BY <1>1, SameQuestion
  <1>3. Question' = Question
    BY <1>1, SameQuestion
  <1>4. Answer' = Answer /\ PrevPath' = PrevPath
    BY <1>1, SameQuestion
  <1>5. Root' = Root
    BY <1>1, <1>4 DEF Root
  <1>6. SharingRoot' = SharingRoot
    BY <1>1, <1>5 DEF SharingRoot
  <1>7. EndsAtSpur' = EndsAtSpur /\ SpurSources' = SpurSources /\ SpurBans' = SpurBans
    BY <1>1, <1>5, <1>6 DEF EndsAtSpur, SpurSources, SpurBans
  <1>8. SpurSeed' = SpurSeed /\ SpurCall' = SpurCall
    BY <1>1, <1>2, <1>4, <1>7 DEF SpurSeed, SpurCall
  <1>9. RequestOK(request)' /\ phase' \in {"idle", "first", "round", "spur", "return"}
    BY <1>1 DEF YInv, RequestOK
  <1>10. \A r : TrueRoute(r)' = TrueRoute(r)
    BY <1>1, SameQuestion
  <1>11. AcceptedOK'
    BY <1>1, <1>10 DEF YInv, AcceptedOK
  <1>12. CandidatesOK'
    BY <1>1, <1>4, <1>10 DEF YInv, CandidatesOK
  <1>13. TablesOK'
    BY <1>1, <1>2, <1>8 DEF YInv, TablesOK
  <1>14. SearchAsked'
    BY <1>1, <1>3, <1>4, <1>8 DEF YInv, SearchAsked
  <1>15. KInv'
    <2>1. Other' = Other
      BY <1>1, SameQuestion
    <2>2. \A p, n : LeavesAt(p, n)' = LeavesAt(p, n)
      BY <1>1, SameQuestion
    <2>3. \A p, n : Covered(p, n)' = Covered(p, n)
      BY <1>1, <1>3 DEF Covered
    <2>4. \A p, n : Ahead(p, n)' = Ahead(p, n)
      BY <1>1, <1>4 DEF Ahead
    <2> QED BY <2>1, <2>2, <2>3, <2>4, <1>1, <1>3 DEF KInv
  <1> QED BY <1>9, <1>11, <1>12, <1>13, <1>14, <1>15 DEF YInv

(***************************************************************************)
(* The call and the first path.                                            *)
(***************************************************************************)
LEMMA FindKKeeps ==
  ASSUME AInv, NEW r, RequestOK(r), FindKShortestPathsMulti(r)
  PROVE  AInv' /\ YInv' /\ KInv'
  <1>1. /\ request' = r /\ results' = <<>> /\ candidates' = {} /\ spur' = 0
        /\ phase' \in {"first", "return"}
        /\ spur_source_bearing' = [v \in Vertex |-> kNoBearing]
        /\ spur_goal_seed' = BuildSeedTable(r.goals)
        /\ FreshWorkspace
    BY DEF FindKShortestPathsMulti
  <1>2. AInv' /\ pc' = "idle"
    BY <1>1, FreshKeeps DEF FreshWorkspace
  <1>3. RequestOK(request)'
    BY <1>1 DEF RequestOK
  <1>4. AcceptedOK'
    BY <1>1 DEF AcceptedOK
  <1>5. CandidatesOK'
    BY <1>1, FS_EmptySet DEF CandidatesOK
  <1>6. TablesOK'
    <2>1. goal_seed' = BuildSeedTable(r.goals)
      BY <1>1 DEF goal_seed
    <2>2. spur_source_bearing' \in [Vertex -> Heading]
      BY <1>1 DEF Heading
    <2> QED BY <1>1, <2>1, <2>2 DEF TablesOK
  <1>7. SearchAsked'
    BY <1>1, <1>2 DEF SearchAsked
  <1>8. KInv'
    BY <1>1 DEF KInv
  <1> QED BY <1>1, <1>2, <1>3, <1>4, <1>5, <1>6, <1>7, <1>8 DEF YInv

LEMMA FirstSearchKeeps ==
  ASSUME AInv, YInv, KInv, FirstSearch
  PROVE  AInv' /\ YInv' /\ KInv'
  <1>1. Begin(Question) /\ UNCHANGED yenVars
    BY DEF FirstSearch, Question
  <1>2. call' = Question /\ UNCHANGED graph
    BY <1>1 DEF Begin
  <1>3. CallOK(Question)
    BY QuestionFacts DEF YInv
  <1>4. AInv'
    BY <1>1, <1>3, BeginKeeps
  <1>5. phase = "first"
    BY DEF FirstSearch
  <1> QED BY <1>1, <1>2, <1>4, <1>5, YenFrame

\* A step of a search leaves the graph and the call alone.
LEMMA SearchStepFrame ==
  ASSUME SearchStep
  PROVE  graph' = graph /\ call' = call /\ pc # "idle"
  BY DEF SearchStep, SeedSource, SeedsDone, PopStale, Expand, Settle, RelaxEdge, RowDone, WalkBack, Report

LEMMA SearchKeeps ==
  ASSUME AInv, YInv, KInv, SearchStep, UNCHANGED yenVars
  PROVE  AInv' /\ YInv' /\ KInv'
  <1>1. AInv'
    BY SearchStepKeeps
  <1>2. graph' = graph /\ call' = call /\ pc # "idle"
    BY SearchStepFrame
  <1>3. phase = "first" => call' = Question
    BY <1>2 DEF YInv, SearchAsked
  <1> QED BY <1>1, <1>2, <1>3, YenFrame

\* Nothing of the search moves.
LEMMA SearchFrame ==
  ASSUME AInv, UNCHANGED astarVars
  PROVE  AInv'
  <1>1. /\ graph' = graph /\ call' = call /\ pc' = pc /\ g' = g /\ geo' = geo /\ prev' = prev
        /\ inbound' = inbound /\ stamp' = stamp /\ closedStamp' = closedStamp
        /\ generation' = generation /\ open' = open /\ cursor' = cursor /\ u' = u
        /\ bestTotal' = bestTotal /\ bestGoal' = bestGoal /\ result' = result
    BY DEF astarVars, wsVars
  <1>2. Types' = Types
    BY <1>1 DEF Types, CallOK, AStarTypeOK
  <1>3. \A v : Live(v)' = Live(v) /\ Closed(v)' = Closed(v) /\ G(v)' = G(v) /\ Inbound(v)' = Inbound(v)
    BY <1>1 DEF Live, Closed, G, Inbound
  <1>4. \A v : Key(v)' = Key(v) /\ TotalAt(v)' = TotalAt(v)
    BY <1>1, <1>3 DEF Key, Heuristic, TotalAt
  <1>5. \A w : RowBound(w)' = RowBound(w)
    BY <1>1 DEF RowBound
  <1>6. SeedBound' = SeedBound
    BY <1>1 DEF SeedBound
  <1>7. \A w, j : StepCost(w, j)' = StepCost(w, j) /\ CanStep(w, j)' = CanStep(w, j)
    BY <1>1 DEF StepCost, CanStep, HeadingTo
  <1>8. \A v, w, j : FirstScanned(w, v, j)' = FirstScanned(w, v, j)
    BY <1>1, <1>5 DEF FirstScanned
  <1>9. \A v, w : FromStep(v, w)' = FromStep(v, w)
    BY <1>1, <1>3, <1>7, <1>8 DEF FromStep, HeadingTo
  <1>10. \A v : FromSeed(v)' = FromSeed(v)
    BY <1>1 DEF FromSeed
  <1>11. Seeds' = Seeds
    BY <1>1, <1>3, <1>6 DEF Seeds
  <1>12. Parents' = Parents
    BY <1>1, <1>3, <1>9, <1>10 DEF Parents
  <1>13. \A v, p : ChainTo(v, p)' = ChainTo(v, p)
    BY <1>1, <1>3 DEF ChainTo
  <1>14. Chains' = Chains /\ ClosedLive' = ClosedLive
    BY <1>1, <1>3, <1>13 DEF Chains, ClosedLive
  <1>15. Scans' = Scans
    BY <1>1, <1>3, <1>5, <1>7 DEF Scans
  <1>16. Opens' = Opens /\ Keys' = Keys
    BY <1>1, <1>3, <1>4 DEF Opens, Keys
  <1>17. BestSoFar' = BestSoFar
    BY <1>1, <1>3, <1>4 DEF BestSoFar
  <1>18. Settled' = Settled
    BY <1>1 DEF Settled
  <1>19. Walking' = Walking
    BY <1>1, <1>13, <1>18 DEF Walking
  <1>20. AnswerIsTrue' = AnswerIsTrue /\ ShortestFound' = ShortestFound
    BY <1>1 DEF AnswerIsTrue, ShortestFound
  <1>21. SearchInv' = SearchInv
    BY <1>11, <1>12, <1>14, <1>15, <1>16, <1>17 DEF SearchInv
  <1> QED BY <1>1, <1>2, <1>19, <1>20, <1>21 DEF AInv, Busy

LEMMA FirstDoneKeeps ==
  ASSUME AInv, YInv, KInv, FirstDone
  PROVE  AInv' /\ YInv' /\ KInv'
  <1>1. /\ phase = "first" /\ pc = "done" /\ UNCHANGED astarVars
        /\ UNCHANGED <<request, candidates, spur, spur_source_bearing, spur_goal_seed>>
    BY DEF FirstDone
  <1>2. AInv' /\ graph' = graph
    BY <1>1, SearchFrame DEF astarVars
  <1>3. RequestOK(request) /\ IsGraph(graph) /\ call = Question /\ results = <<>> /\ candidates = {}
        /\ spur = 0 /\ spur_goal_seed = goal_seed /\ spur_source_bearing \in [Vertex -> Heading]
    BY <1>1 DEF YInv, AcceptedOK, CandidatesOK, TablesOK, SearchAsked, AInv, Types
  <1>4. AnswerIsTrue /\ ShortestFound
    BY <1>1 DEF AInv
  <1>5. /\ source_seed' = source_seed /\ goal_seed' = goal_seed /\ Question' = Question
        /\ RequestOK(request)'
    BY <1>1, <1>2, <1>3 DEF source_seed, goal_seed, source_bearing, goal_bearing, Question, RequestOK
  <1>6. CASE result.found
    <2>0. PICK r : r = Path(result)
      OBVIOUS
    <2>1. results' = <<r>> /\ phase' = IF request.k = 1 THEN "return" ELSE "round"
      BY <2>0, <1>6 DEF FirstDone
    <2>2. /\ r.vertices = result.vertices /\ r.cost = result.cost
          /\ r.distance_nm = result.distance_nm
          /\ r = [vertices |-> result.vertices, cost |-> result.cost, distance_nm |-> result.distance_nm]
      BY <2>0 DEF Path
    <2>3. /\ r.vertices \in Routes(graph, Question)
          /\ r.cost = RouteCost(graph, Question, r.vertices)
          /\ r.distance_nm = DistanceOfPathMulti(graph, r.vertices, source_seed, goal_seed)
      <3>1. Question.sources = request.sources /\ Question.goalSeed = goal_seed
        BY <1>3, QuestionFacts
      <3> QED BY <3>1, <1>1, <1>3, <1>4, <1>6, <2>2 DEF AnswerIsTrue, source_seed
    <2>4. r \in FoundPath /\ r.vertices \in Seq(Vertex) /\ r.cost \in Nat
      <3>1. r.vertices \in Seq(Vertex) /\ r.cost \in Nat /\ r.distance_nm \in Nat
        BY <2>3, <1>3, TrueRouteNumbers
      <3> QED BY <3>1, <2>2 DEF FoundPath
    <2>5. /\ results' \in Seq(FoundPath) /\ DOMAIN results' = {1} /\ results'[1] = r
          /\ Len(results') = 1 /\ results' # <<>>
      BY <2>1, <2>4
    <2>6. TrueRoute(r)'
      BY <2>3, <1>2, <1>5 DEF TrueRoute
    <2>7. AcceptedOK'
      BY <2>1, <2>5, <2>6 DEF AcceptedOK
    <2>8. CandidatesOK'
      BY <1>1, <1>3, FS_EmptySet DEF CandidatesOK
    <2>9. TablesOK'
      BY <1>1, <1>3, <1>5, <2>1 DEF TablesOK
    <2>10. SearchAsked'
      BY <2>1 DEF SearchAsked
    <2>11. PrevPath' = r.vertices /\ Answer' = {r.vertices}
      BY <2>5 DEF PrevPath, Answer
    <2>12. KInv'
      <3> SUFFICES ASSUME ~request'.turn PROVE KInv'
        BY DEF KInv
      <3>1. ASSUME NEW p \in Other', NEW n \in 0..Len(p), LeavesAt(p, n)' PROVE Ahead(p, n)'
        <4>1. Shares(p, r.vertices, n)
          BY <3>1, <2>5 DEF LeavesAt
        <4> QED BY <4>1, <2>11, <1>1, <1>3 DEF Ahead
      <3>2. ASSUME NEW p \in Other', NEW i \in DOMAIN results'
            PROVE  results'[i].cost <= RouteCost(graph, Question, p)'
        <4>1. p \in Routes(graph, Question) /\ results'[i] = r
          BY <2>5, <1>2, <1>5 DEF Other
        <4>2. call.turn = request.turn
          BY <1>3, QuestionFacts
        <4>3. ~call.turn
          BY <4>2, <1>1
        <4>4. result.cost <= RouteCost(graph, Question, p)
          BY <4>1, <4>3, <1>1, <1>3, <1>4, <1>6 DEF ShortestFound
        <4> QED BY <4>1, <4>4, <2>2, <1>2, <1>5
      <3>3. phase' = "return" => Len(results') = request'.k
        BY <2>1, <2>5, <1>1
      <3> QED BY <3>1, <3>2, <3>3 DEF KInv
    <2>13. phase' \in {"idle", "first", "round", "spur", "return"}
      BY <2>1
    <2> QED BY <1>2, <1>5, <2>7, <2>8, <2>9, <2>10, <2>12, <2>13 DEF YInv
  <1>7. CASE ~result.found
    <2>1. results' = <<>> /\ phase' = "return"
      BY <1>3, <1>7 DEF FirstDone
    <2>2. AcceptedOK'
      BY <2>1 DEF AcceptedOK
    <2>3. CandidatesOK'
      BY <2>1, <1>1, <1>3, FS_EmptySet DEF CandidatesOK
    <2>4. TablesOK' /\ SearchAsked'
      BY <1>1, <1>3, <1>5, <2>1 DEF TablesOK, SearchAsked
    <2>5. KInv'
      BY <2>1 DEF KInv
    <2> QED BY <1>2, <1>5, <2>1, <2>2, <2>3, <2>4, <2>5 DEF YInv
  <1> QED BY <1>6, <1>7

(***************************************************************************)
(* The start of a spur.                                                    *)
(***************************************************************************)
LEMMA RoundFacts ==
  ASSUME AInv, YInv, phase \in {"round", "spur"}
  PROVE  /\ RequestOK(request) /\ IsGraph(graph) /\ spur \in Nat
         /\ Len(results) \in Nat /\ Len(results) >= 1 /\ DOMAIN results = 1..Len(results)
         /\ Len(results) \in DOMAIN results
         /\ \A i \in DOMAIN results : /\ results[i] \in FoundPath
                                      /\ TrueRoute(results[i])
                                      /\ results[i].cost \in Nat
                                      /\ results[i].vertices \in Routes(graph, Question)
                                      /\ results[i].vertices \in Seq(Vertex)
                                      /\ Flyable(graph, Question, results[i].vertices)
                                      /\ Len(results[i].vertices) \in Nat
         /\ PrevPath \in Routes(graph, Question) /\ PrevPath \in Seq(Vertex)
         /\ Flyable(graph, Question, PrevPath) /\ Len(PrevPath) \in Nat /\ Len(PrevPath) >= 1
         /\ \A i \in 1..Len(PrevPath) : PrevPath[i] \in Vertex
  <1>1. /\ RequestOK(request) /\ IsGraph(graph) /\ spur \in Nat
        /\ results \in Seq(FoundPath) /\ results # <<>>
        /\ \A i \in DOMAIN results : TrueRoute(results[i])
    BY DEF YInv, AInv, Types, AcceptedOK, TablesOK
  <1>2. /\ Len(results) \in Nat /\ Len(results) >= 1 /\ DOMAIN results = 1..Len(results)
        /\ Len(results) \in DOMAIN results
    BY <1>1, EmptySeq, LenProperties
  <1>3. ASSUME NEW i \in DOMAIN results
        PROVE  /\ results[i] \in FoundPath
               /\ TrueRoute(results[i])
               /\ results[i].cost \in Nat
               /\ results[i].vertices \in Routes(graph, Question)
               /\ results[i].vertices \in Seq(Vertex)
               /\ Flyable(graph, Question, results[i].vertices)
               /\ Len(results[i].vertices) \in Nat /\ Len(results[i].vertices) >= 1
    <2>1. results[i] \in FoundPath
      BY <1>1, <1>2, ElementOfSeq
    <2>2. TrueRoute(results[i]) /\ results[i].vertices \in Routes(graph, Question)
      BY <1>1 DEF TrueRoute
    <2> QED BY <2>1, <2>2, <1>1, TrueRouteNumbers DEF FoundPath
  <1>4. /\ PrevPath \in Routes(graph, Question) /\ PrevPath \in Seq(Vertex)
        /\ Flyable(graph, Question, PrevPath) /\ Len(PrevPath) \in Nat /\ Len(PrevPath) >= 1
    BY <1>2, <1>3 DEF PrevPath
  <1>5. \A i \in 1..Len(PrevPath) : PrevPath[i] \in Vertex
    BY <1>4, ElementOfSeq
  <1> QED BY <1>1, <1>2, <1>3, <1>4, <1>5

\* A position that no other route leaves at may be passed over.
LEMMA SkipKeeps ==
  ASSUME AInv, YInv, KInv, phase = "round", Skip,
         ~request.turn => \A p \in Other : ~(LeavesAt(p, spur) /\ Shares(p, PrevPath, spur))
  PROVE  AInv' /\ YInv' /\ KInv'
  <1>1. /\ spur' = spur + 1 /\ UNCHANGED astarVars
        /\ UNCHANGED <<phase, request, results, candidates, spur_source_bearing, spur_goal_seed>>
    BY DEF Skip
  <1>2. AInv' /\ UNCHANGED <<graph, request, results>>
    BY <1>1, SearchFrame DEF astarVars
  <1>3. /\ goal_seed' = goal_seed /\ Question' = Question /\ Answer' = Answer /\ PrevPath' = PrevPath
        /\ Other' = Other /\ RequestOK(request)' = RequestOK(request)
        /\ \A r : TrueRoute(r)' = TrueRoute(r)
        /\ \A p, n : LeavesAt(p, n)' = LeavesAt(p, n)
    BY <1>2, SameQuestion
  <1>4. RequestOK(request)' /\ phase' \in {"idle", "first", "round", "spur", "return"} /\ spur \in Nat
    BY <1>1, <1>3 DEF YInv, TablesOK
  <1>5. AcceptedOK'
    BY <1>1, <1>3 DEF YInv, AcceptedOK
  <1>6. CandidatesOK'
    BY <1>1, <1>3 DEF YInv, CandidatesOK
  <1>7. TablesOK' /\ SearchAsked'
    BY <1>1, <1>3 DEF YInv, TablesOK, SearchAsked
  <1>8. KInv'
    <2> SUFFICES ASSUME ~request'.turn PROVE KInv'
      BY DEF KInv
    <2>1. \A p, n : Covered(p, n)' = Covered(p, n)
      BY <1>1, <1>2, <1>3 DEF Covered
    <2>2. ASSUME NEW p \in Other, NEW n \in 0..Len(p), LeavesAt(p, n)
          PROVE  Covered(p, n) \/ Ahead(p, n)'
      <3>1. Covered(p, n) \/ Ahead(p, n)
        BY <2>2, <1>1 DEF KInv
      <3>2. Ahead(p, n) => n # spur
        BY <2>2, <1>1 DEF Ahead
      <3>3. n \in Nat
        OBVIOUS
      <3> QED BY <3>1, <3>2, <3>3, <1>1, <1>3, <1>4 DEF Ahead
    <2>3. \A p \in Other : \A i \in DOMAIN results : results[i].cost <= RouteCost(graph, Question, p)
      BY <1>1 DEF KInv
    <2> QED BY <2>1, <2>2, <2>3, <1>1, <1>2, <1>3 DEF KInv
  <1> QED BY <1>2, <1>4, <1>5, <1>6, <1>7, <1>8 DEF YInv

\* The accepted paths that begin with the root are those that share it.
LEMMA SharingIs ==
  ASSUME AInv, YInv, phase \in {"round", "spur"}, spur <= Len(PrevPath), NEW i \in DOMAIN results
  PROVE  i \in SharingRoot <=> Shares(results[i].vertices, PrevPath, spur)
  <1>1. /\ PrevPath \in Seq(Vertex) /\ Len(PrevPath) \in Nat /\ spur \in Nat
        /\ results[i].vertices \in Seq(Vertex) /\ Len(results[i].vertices) \in Nat
    BY RoundFacts
  <1>2. PICK q \in Seq(Vertex) : q = PrevPath
    BY <1>1
  <1>3. PICK p \in Seq(Vertex) : p = results[i].vertices
    BY <1>1
  <1>4. PICK s \in Nat : s = spur
    BY <1>1
  <1>5. s \in 0..Len(q)
    BY <1>1, <1>2, <1>4
  <1>6. SubSeq(q, 1, s) \in Seq(Vertex) /\ Len(SubSeq(q, 1, s)) = s
        /\ \A j \in 1..s : SubSeq(q, 1, s)[j] = q[j]
    BY <1>5, Prefix
  <1>7. i \in SharingRoot <=> Len(p) >= s /\ SubSeq(p, 1, s) = SubSeq(q, 1, s)
    BY <1>2, <1>3, <1>4 DEF SharingRoot, Root
  <1>8. CASE Len(p) >= s
    <2>1. SubSeq(p, 1, s) \in Seq(Vertex) /\ Len(SubSeq(p, 1, s)) = s
          /\ \A j \in 1..s : SubSeq(p, 1, s)[j] = p[j]
      <3>1. s \in 0..Len(p)
        BY <1>8, <1>1, <1>3
      <3> QED BY <3>1, Prefix
    <2>2. SubSeq(p, 1, s) = SubSeq(q, 1, s) <=> \A j \in 1..s : p[j] = q[j]
      <3>1. ASSUME SubSeq(p, 1, s) = SubSeq(q, 1, s), NEW j \in 1..s PROVE p[j] = q[j]
        BY <3>1, <2>1, <1>6
      <3>2. ASSUME \A j \in 1..s : p[j] = q[j] PROVE SubSeq(p, 1, s) = SubSeq(q, 1, s)
        <4>1. \A j \in 1..s : SubSeq(p, 1, s)[j] = SubSeq(q, 1, s)[j]
          BY <3>2, <2>1, <1>6
        <4> QED BY <4>1, <2>1, <1>6, SeqEqual
      <3> QED BY <3>1, <3>2
    <2> QED BY <2>2, <1>7, <1>8, <1>5, <1>2, <1>3, <1>4 DEF Shares
  <1>9. CASE ~(Len(p) >= s)
    <2>1. ~(s <= Len(p))
      BY <1>9, <1>1, <1>3
    <2> QED BY <2>1, <1>7, <1>9, <1>3, <1>4 DEF Shares
  <1> QED BY <1>8, <1>9

LEMMA SpurBegins ==
  ASSUME AInv, YInv, KInv, phase = "round", phase' = "spur",
         UNCHANGED <<request, results, candidates, spur>>,
         NEW c, CallOK(c), Begin(c), c = SpurCall', spur <= Len(PrevPath),
         spur_goal_seed' = SpurSeed, spur_source_bearing' \in [Vertex -> Heading]
  PROVE  AInv' /\ YInv' /\ KInv'
  <1>1. AInv' /\ call' = c /\ UNCHANGED <<graph, request, results>>
    BY BeginKeeps DEF Begin
  <1>2. /\ goal_seed' = goal_seed /\ Question' = Question /\ Answer' = Answer /\ PrevPath' = PrevPath
        /\ Other' = Other /\ RequestOK(request)' = RequestOK(request)
        /\ \A r : TrueRoute(r)' = TrueRoute(r)
        /\ \A p, n : LeavesAt(p, n)' = LeavesAt(p, n)
    BY <1>1, SameQuestion
  <1>3. SpurSeed' = SpurSeed
    BY <1>1, <1>2 DEF SpurSeed, EndsAtSpur, SharingRoot, Root
  <1>4. RequestOK(request)' /\ phase' \in {"idle", "first", "round", "spur", "return"}
    BY <1>2 DEF YInv
  <1>5. AcceptedOK'
    BY <1>1, <1>2 DEF YInv, AcceptedOK
  <1>6. CandidatesOK'
    BY <1>1, <1>2 DEF YInv, CandidatesOK
  <1>7. TablesOK'
    BY <1>3 DEF YInv, TablesOK
  <1>8. SearchAsked'
    BY <1>1, <1>2 DEF SearchAsked
  <1>9. KInv'
    <2>1. \A p, n : Covered(p, n)' = Covered(p, n)
      BY <1>1, <1>2 DEF Covered
    <2>2. \A p, n : Ahead(p, n)' = Ahead(p, n)
      BY <1>2 DEF Ahead
    <2> QED BY <2>1, <2>2, <1>1, <1>2 DEF KInv
  <1> QED BY <1>1, <1>4, <1>5, <1>6, <1>7, <1>8, <1>9 DEF YInv

\* The tables of the request, or of a request with one goal barred, fit a search.
LEMMA TablesFit ==
  ASSUME RequestOK(request), NEW sources \in Seq(SeededEndpoint), NEW seed,
         seed \in [Vertex -> Nat \cup {-1}],
         \A v \in Vertex : seed[v] = goal_seed[v] \/ seed[v] = -1,
         NEW bearing \in [Vertex -> Heading], NEW bans
  PROVE  CallOK(Call(sources, request.goals, seed, bearing, goal_bearing, request.turn, bans))
  <1> DEFINE c == Call(sources, request.goals, seed, bearing, goal_bearing, request.turn, bans)
  <1>1. /\ c.sources = sources /\ c.goals = request.goals /\ c.goalSeed = seed
        /\ c.sourceBearing = bearing /\ c.goalBearing = goal_bearing /\ c.turn = request.turn
    BY DEF Call
  <1> HIDE DEF c
  <1>2. CallOK(Question) /\ Question.goals = request.goals /\ Question.goalSeed = goal_seed
        /\ goal_bearing \in [Vertex -> Heading]
    BY QuestionFacts
  <1>3. ASSUME NEW v \in Vertex, seed[v] >= 0
        PROVE  \E i \in AtVertex(request.goals, v) : request.goals[i].cost <= seed[v]
    <2>1. seed[v] = goal_seed[v]
      BY <1>3
    <2> QED BY <2>1, <1>2, <1>3 DEF CallOK
  <1>4. CallOK(c)
    BY <1>1, <1>2, <1>3 DEF CallOK, RequestOK
  <1> QED BY <1>4 DEF c

LEMMA SourceSpurKeeps ==
  ASSUME AInv, YInv, KInv, SourceSpur
  PROVE  AInv' /\ YInv' /\ KInv'
  <1>1. phase = "round" /\ spur = 0
    BY DEF SourceSpur
  <1>2. /\ RequestOK(request) /\ IsGraph(graph) /\ Len(PrevPath) \in Nat
        /\ \A i \in DOMAIN results : /\ results[i].vertices \in Seq(Vertex)
                                     /\ Flyable(graph, Question, results[i].vertices)
    BY <1>1, RoundFacts
  <1> DEFINE V == {Head(results[i].vertices) : i \in DOMAIN results}
  <1>3. SpurSources = DropAt(request.sources, V)
    BY DEF SpurSources
  <1>4. SpurSources \in Seq(SeededEndpoint)
    BY <1>2, <1>3, DropAtKeeps DEF RequestOK
  <1>5. CASE SpurSources = <<>> /\ Skip
    <2>1. ASSUME NEW p \in Other, LeavesAt(p, 0) PROVE FALSE
      <3>1. /\ p \in Seq(Vertex) /\ Len(p) \in Nat /\ Len(p) >= 1 /\ source_seed[p[1]] >= 0
        BY <1>2, TrueRouteNumbers DEF Other
      <3>2. p[1] \in Vertex
        BY <3>1
      <3>3. p[1] \notin V
        <4> SUFFICES ASSUME NEW i \in DOMAIN results, p[1] = Head(results[i].vertices) PROVE FALSE
          OBVIOUS
        <4>1. PICK q \in Seq(Vertex) : q = results[i].vertices /\ Len(q) \in Nat /\ Len(q) >= 1
          BY <1>2, FlyableFacts
        <4>2. Head(q) = q[1]
          BY <4>1
        <4>3. Shares(p, q, 0 + 1)
          BY <4>1, <4>2, <3>1 DEF Shares
        <4> QED BY <4>1, <4>3, <2>1 DEF LeavesAt
      <3> HIDE DEF V
      <3>4. BuildSeedTable(SpurSources)[p[1]] = source_seed[p[1]]
        BY <3>2, <3>3, <1>2, <1>3, DropAtSeeds DEF RequestOK, source_seed
      <3>5. AtVertex(SpurSources, p[1]) = {}
        BY <1>5 DEF AtVertex
      <3>6. BuildSeedTable(SpurSources)[p[1]] = -1
        BY <3>2, <3>5, <1>4, SeedTable
      <3> QED BY <3>1, <3>4, <3>6
    <2> QED BY <2>1, <1>1, <1>5, SkipKeeps
  <1>6. CASE SpurSources # <<>> /\ ~(SpurSources = <<>> /\ Skip)
    <2> DEFINE c == Call(SpurSources, request.goals, goal_seed, source_bearing, goal_bearing,
                         request.turn, request.bans)
    <2>1. /\ Begin(c) /\ phase' = "spur"
          /\ UNCHANGED <<request, results, candidates, spur, spur_source_bearing, spur_goal_seed>>
      BY <1>6 DEF SourceSpur
    <2>2. goal_seed \in [Vertex -> Nat \cup {-1}] /\ source_bearing \in [Vertex -> Heading]
      BY <1>2, QuestionFacts
    <2>3. CallOK(c)
      BY <2>2, <1>2, <1>4, TablesFit
    <2>4. UNCHANGED <<graph, request, results>>
      BY <2>1 DEF Begin
    <2>5. c = SpurCall'
      <3>1. /\ SpurSources' = SpurSources /\ goal_seed' = goal_seed
            /\ source_bearing' = source_bearing /\ goal_bearing' = goal_bearing
        BY <2>4, SameQuestion
      <3> QED BY <3>1, <2>1, <1>1 DEF SpurCall
    <2>6. spur_goal_seed' = SpurSeed /\ spur_source_bearing' \in [Vertex -> Heading]
      BY <2>1, <1>1 DEF YInv, TablesOK, SpurSeed
    <2>7. spur <= Len(PrevPath)
      BY <1>1, <1>2
    <2>8. PICK d : d = c
      OBVIOUS
    <2> HIDE DEF c
    <2> QED BY <2>1, <2>3, <2>5, <2>6, <2>7, <2>8, <1>1, SpurBegins
  <1> QED BY <1>5, <1>6 DEF SourceSpur

\* With its own goal barred and no other, no route goes on from the spur node.
LEMMA HopelessIsSo ==
  ASSUME AInv, YInv, phase = "round", spur \in 1..Len(PrevPath), Hopeless, NEW p \in Other,
         Shares(p, PrevPath, spur)
  PROVE  FALSE
  <1>1. /\ RequestOK(request) /\ IsGraph(graph) /\ spur \in Nat
        /\ PrevPath \in Seq(Vertex) /\ Len(PrevPath) \in Nat
    BY RoundFacts
  <1>2. /\ p \in Seq(Vertex) /\ Len(p) \in Nat /\ Len(p) >= 1 /\ DOMAIN p = 1..Len(p)
        /\ goal_seed[p[Len(p)]] >= 0 /\ Flyable(graph, Question, p)
    BY <1>1, TrueRouteNumbers DEF Other
  <1>3. PICK s \in Nat : s = spur /\ s >= 1
    BY <1>1
  <1>4. s <= Len(p) /\ s <= Len(PrevPath) /\ \A i \in 1..s : p[i] = PrevPath[i]
    BY <1>3 DEF Shares
  <1> DEFINE W == {v \in Vertex : goal_seed[v] >= 0}
  <1>5. p[s] \in W /\ p[Len(p)] \in W
    <2>1. p[s] \in Vertex /\ p[Len(p)] \in Vertex
      BY <1>2, <1>3, <1>4
    <2>2. goal_seed[PrevPath[s]] >= 0 /\ p[s] = PrevPath[s]
      BY <1>3, <1>4 DEF Hopeless
    <2> QED BY <2>1, <2>2, <1>2
  <1>6. IsFiniteSet(W) /\ Cardinality(W) \in Nat /\ Cardinality(W) < 2
    <2>1. IsFiniteSet(W)
      BY VertexFinite, FS_Subset
    <2> QED BY <2>1, FS_CardinalityType DEF Hopeless, goal_count
  <1> HIDE DEF W
  <1>7. p[Len(p)] = p[s]
    <2>1. Cardinality(W) # 0
      BY <1>5, <1>6, FS_EmptySet
    <2>2. Cardinality(W) = 1
      BY <2>1, <1>6
    <2>3. PICK x : W = {x}
      BY <2>2, <1>6, FS_Singleton
    <2> QED BY <2>3, <1>5
  <1>8. Len(p) = s
    <2>1. s \in DOMAIN p /\ Len(p) \in DOMAIN p
      BY <1>2, <1>3, <1>4
    <2>2. IsSimple(p)
      BY <1>2 DEF Flyable
    <2> QED BY <2>1, <2>2, <1>7 DEF IsSimple
  <1>9. PICK i \in DOMAIN results : i \in SharingRoot /\ Len(results[i].vertices) = s
    BY <1>3 DEF Hopeless, EndsAtSpur, SharingRoot
  <1>10. results[i].vertices \in Seq(Vertex) /\ Shares(results[i].vertices, PrevPath, spur)
    BY <1>1, <1>9, <1>3, <1>4, SharingIs, RoundFacts
  <1>11. \A j \in 1..s : results[i].vertices[j] = p[j]
    BY <1>10, <1>3, <1>4 DEF Shares
  <1>12. results[i].vertices = p
    BY <1>2, <1>8, <1>9, <1>10, <1>11, SeqEqual
  <1> QED BY <1>12 DEF Other, Answer

LEMMA NodeSpurKeeps ==
  ASSUME AInv, YInv, KInv, NodeSpur
  PROVE  AInv' /\ YInv' /\ KInv'
  <1>1. phase = "round" /\ spur \in 1..Len(PrevPath)
    BY DEF NodeSpur
  <1>2. /\ RequestOK(request) /\ IsGraph(graph) /\ Len(PrevPath) \in Nat /\ spur \in Nat
        /\ \A i \in 1..Len(PrevPath) : PrevPath[i] \in Vertex
    BY <1>1, RoundFacts
  <1>3. CASE Hopeless /\ Skip
    BY <1>1, <1>3, HopelessIsSo, SkipKeeps
  <1>4. CASE ~Hopeless
    <2>1. PICK node \in Vertex : node = PrevPath[spur]
      BY <1>1, <1>2
    <2>2. /\ spur_goal_seed = goal_seed /\ goal_seed \in [Vertex -> Nat \cup {-1}]
          /\ spur_source_bearing \in [Vertex -> Heading]
          /\ source_bearing \in [Vertex -> Heading]
      BY <1>1, <1>2, QuestionFacts DEF YInv, TablesOK
    <2>3. InboundAtSpur \in Heading
      <3>1. CASE spur = 1
        BY <3>1, <2>2, <1>1, <1>2, SMTT(30) DEF InboundAtSpur
      <3>2. CASE spur # 1
        <4>1. PrevPath[spur - 1] \in Vertex /\ PrevPath[spur] \in Vertex
          BY <3>2, <1>1, <1>2, SMTT(30)
        <4>2. BearingTo[PrevPath[spur - 1]][PrevPath[spur]] \in 0..359
          BY <4>1, BearingAssumption
        <4> QED BY <4>2, <3>2 DEF InboundAtSpur, Heading
      <3> QED BY <3>1, <3>2
    <2> DEFINE cleared == [v \in Vertex |-> IF v = spur_bearing_vertex
                                              THEN kNoBearing ELSE spur_source_bearing[v]]
    <2>4. PICK bearing : bearing = [cleared EXCEPT ![node] = InboundAtSpur]
      OBVIOUS
    <2>5. PICK goal : goal = IF EndsAtSpur THEN [spur_goal_seed EXCEPT ![node] = -1] ELSE spur_goal_seed
      OBVIOUS
    <2>6. PICK c : c = Call(<<[vertex |-> node, cost |-> 0, bearing |-> kNoBearing]>>,
                            request.goals, goal, bearing, goal_bearing, request.turn, SpurBans)
      OBVIOUS
    <2>7. /\ Begin(c) /\ phase' = "spur"
          /\ spur_source_bearing' = bearing /\ spur_goal_seed' = goal
          /\ UNCHANGED <<request, results, candidates, spur>>
      BY <1>4, <2>1, <2>4, <2>5, <2>6 DEF NodeSpur
    <2>8. bearing \in [Vertex -> Heading]
      <3>1. cleared \in [Vertex -> Heading]
        BY <2>2 DEF Heading
      <3> HIDE DEF cleared
      <3> QED BY <3>1, <2>3, <2>4
    <2>9. goal \in [Vertex -> Nat \cup {-1}] /\ \A v \in Vertex : goal[v] = goal_seed[v] \/ goal[v] = -1
      BY <2>2, <2>5
    <2>10. CallOK(c)
      <3>1. <<[vertex |-> node, cost |-> 0, bearing |-> kNoBearing]>> \in Seq(SeededEndpoint)
        BY DEF SeededEndpoint
      <3> QED BY <3>1, <2>6, <2>8, <2>9, <1>2, TablesFit
    <2>11. UNCHANGED <<graph, request, results>>
      BY <2>7 DEF Begin
    <2>12. c = SpurCall'
      <3>1. PrevPath' = PrevPath /\ goal_bearing' = goal_bearing
        BY <2>11, SameQuestion
      <3>2. SpurBans' = SpurBans
        BY <3>1, <2>7 DEF SpurBans, SharingRoot, Root
      <3>3. spur # 0
        BY <1>1
      <3> QED BY <3>1, <3>2, <3>3, <2>1, <2>6, <2>7 DEF SpurCall
    <2>13. spur_goal_seed' = SpurSeed
      BY <2>1, <2>2, <2>5, <2>7, <1>1 DEF SpurSeed
    <2> QED BY <2>7, <2>8, <2>10, <2>12, <2>13, <1>1, <1>2, SpurBegins
  <1> QED BY <1>3, <1>4 DEF NodeSpur

(***************************************************************************)
(* What a spur search found, stitched to its root, is another route of the *)
(* request, which leaves the accepted paths at the spur.                   *)
(***************************************************************************)
LEMMA StitchedIsRoute ==
  ASSUME AInv, YInv, phase = "spur", pc = "done", result.found
  PROVE  /\ Stitched \in Routes(graph, Question)
         /\ Stitched \notin Answer
         /\ Shares(Stitched, PrevPath, spur)
         /\ \A i \in DOMAIN results : ~Shares(Stitched, results[i].vertices, spur + 1)
         /\ spur = 0 => Stitched = result.vertices
         /\ spur # 0 => EndsAs(Stitched, spur, result.vertices)
  <1>1. /\ RequestOK(request) /\ IsGraph(graph) /\ spur \in Nat
        /\ PrevPath \in Seq(Vertex) /\ Len(PrevPath) \in Nat /\ Len(PrevPath) >= 1
        /\ Flyable(graph, Question, PrevPath)
        /\ \A i \in 1..Len(PrevPath) : PrevPath[i] \in Vertex
        /\ \A i \in DOMAIN results : results[i].vertices \in Seq(Vertex)
    BY RoundFacts
  <1>2. PICK r : r = result.vertices
    OBVIOUS
  <1>3. /\ Flyable(graph, call, r) /\ call.goalSeed[r[Len(r)]] >= 0
        /\ r \in Seq(Vertex) /\ Len(r) \in Nat /\ Len(r) >= 1
        /\ \A i \in 1..Len(r) : r[i] \in Vertex
    <2>1. r \in Routes(graph, call)
      BY <1>2 DEF AInv, AnswerIsTrue
    <2>2. Flyable(graph, call, r) /\ call.goalSeed[r[Len(r)]] >= 0
      BY <2>1, RoutesAre
    <2> QED BY <2>2, FlyableFacts
  <1>4. call = SpurCall /\ spur <= Len(PrevPath) /\ spur_goal_seed = SpurSeed
    BY DEF YInv, SearchAsked, TablesOK
  <1>5. /\ Question.sources = request.sources /\ Question.goalSeed = goal_seed
        /\ Question.bans = request.bans /\ goal_seed \in [Vertex -> Nat \cup {-1}]
    BY <1>1, QuestionFacts
  <1>6. CASE spur = 0
    <2>1. /\ call.sources = SpurSources /\ call.goalSeed = goal_seed /\ call.bans = request.bans
      BY <1>4, <1>6 DEF SpurCall, Call
    <2>2. Stitched = r
      BY <1>2, <1>3, <1>6, ConcatEmptySeq DEF Stitched
    <2> DEFINE V == {Head(results[i].vertices) : i \in DOMAIN results}
    <2>3. BuildSeedTable(SpurSources)[r[1]] = IF r[1] \in V THEN -1 ELSE source_seed[r[1]]
      <3>1. SpurSources = DropAt(request.sources, V)
        BY DEF SpurSources
      <3> HIDE DEF V
      <3> QED BY <3>1, <1>1, <1>3, DropAtSeeds DEF RequestOK, source_seed
    <2>4. BuildSeedTable(SpurSources)[r[1]] >= 0
      BY <1>3, <2>1, FlyableFacts
    <2>5. r[1] \notin V /\ source_seed[r[1]] >= 0
      BY <2>3, <2>4
    <2>6. Flyable(graph, Question, r)
      BY <1>3, <1>5, <2>1, <2>5 DEF Flyable, source_seed
    <2>7. r \in Routes(graph, Question)
      BY <2>1, <2>6, <1>3, <1>5, RoutesAre
    <2>8. ASSUME NEW i \in DOMAIN results, Shares(r, results[i].vertices, 1) PROVE FALSE
      <3>1. PICK q \in Seq(Vertex) : q = results[i].vertices
        BY <1>1
      <3>2. Len(q) >= 1 /\ r[1] = q[1]
        BY <2>8, <3>1 DEF Shares
      <3>3. Head(q) = q[1]
        BY <3>2
      <3> QED BY <3>1, <3>2, <3>3, <2>5
    <2>9. r \notin Answer
      <3> SUFFICES ASSUME NEW i \in DOMAIN results, r = results[i].vertices PROVE FALSE
        BY DEF Answer
      <3>1. Shares(r, results[i].vertices, 1)
        BY <1>3 DEF Shares
      <3> QED BY <3>1, <2>8
    <2>10. Shares(r, PrevPath, 0)
      BY <1>1, <1>3 DEF Shares
    <2>11. spur + 1 = 1
      BY <1>6
    <2> QED BY <2>2, <2>7, <2>8, <2>9, <2>10, <2>11, <1>2, <1>6
  <1>7. CASE spur # 0
    <2>1. PICK s \in Nat \ {0} : s = spur
      BY <1>1, <1>7
    <2>2. PICK q \in Seq(Vertex) : q = PrevPath
      BY <1>1
    <2>3. /\ call.sources = <<[vertex |-> q[s], cost |-> 0, bearing |-> kNoBearing]>>
          /\ call.goalSeed = spur_goal_seed /\ call.bans = SpurBans
      BY <1>4, <1>7, <2>1, <2>2 DEF SpurCall, Call
    <2>4. /\ \A v : NodeBlocked(Question.bans, v) => NodeBlocked(call.bans, v)
          /\ \A v, w : EdgeBlocked(Question.bans, v, w) => EdgeBlocked(call.bans, v, w)
      BY <2>3, <1>5 DEF NodeBlocked, EdgeBlocked, SpurBans
    <2>5. s <= Len(q) /\ \A i \in 1..s : Root[i] = q[i]
      <3>1. s \in 0..Len(q)
        BY <1>1, <1>4, <2>1, <2>2
      <3> QED BY <3>1, <2>1, <2>2, Prefix DEF Root
    <2>6. \A i \in 1..(s - 1) : NodeBlocked(call.bans, q[i])
      <3> SUFFICES ASSUME NEW i \in 1..(s - 1) PROVE q[i] \in SpurBans.nodes
        BY <2>3 DEF NodeBlocked
      <3>1. Root[i] = q[i]
        BY <2>5
      <3>2. Root[i] \in SpurBans.nodes
        BY <2>1 DEF SpurBans
      <3> QED BY <3>1, <3>2
    <2>7. PICK p : IsJoined(p, q, s, r)
      BY DEF IsJoined
    <2>8. Stitched = p
      BY <2>1, <2>2, <2>7, <1>2, <1>7 DEF Stitched, IsJoined
    <2>9. /\ Flyable(graph, Question, p)
          /\ Len(p) = (s - 1) + Len(r)
          /\ \A i \in 1..s : p[i] = q[i]
          /\ \A i \in 1..Len(r) : p[(s - 1) + i] = r[i]
      <3>1. Flyable(graph, Question, q) /\ s <= Len(q)
        BY <2>2, <2>5, <1>1
      <3>2. PICK c : c = Question
        OBVIOUS
      <3>3. PICK d : d = call
        OBVIOUS
      <3>g. PICK gr : gr = graph
        OBVIOUS
      <3>4. /\ Flyable(gr, c, q) /\ Flyable(gr, d, r)
            /\ d.sources = <<[vertex |-> q[s], cost |-> 0, bearing |-> kNoBearing]>>
            /\ \A v : NodeBlocked(c.bans, v) => NodeBlocked(d.bans, v)
            /\ \A v, w : EdgeBlocked(c.bans, v, w) => EdgeBlocked(d.bans, v, w)
            /\ \A i \in 1..(s - 1) : NodeBlocked(d.bans, q[i])
        BY <3>1, <3>2, <3>3, <3>g, <2>3, <2>4, <2>6, <1>3
      <3>5. /\ Flyable(gr, c, p)
            /\ Len(p) = (s - 1) + Len(r)
            /\ \A i \in 1..s : p[i] = q[i]
            /\ \A i \in 1..Len(r) : p[(s - 1) + i] = r[i]
        BY <3>1, <3>4, <2>7, StitchRoute
      <3> QED BY <3>2, <3>g, <3>5
    <2>10. Shares(p, q, s) /\ Len(p) \in Nat /\ Len(p) >= s /\ p \in Seq(Vertex)
      BY <2>5, <2>9, <1>3 DEF Shares, Flyable
    <2>11. p[Len(p)] = r[Len(r)] /\ p[s] = r[1]
      <3>1. (s - 1) + 1 = s /\ 1 \in 1..Len(r) /\ Len(r) \in 1..Len(r)
        BY <1>3
      <3> QED BY <3>1, <2>9
    <2>12. goal_seed[p[Len(p)]] >= 0
      <3>1. p[Len(p)] \in Vertex /\ spur_goal_seed[p[Len(p)]] >= 0
        BY <2>3, <2>11, <1>3
      <3>2. spur_goal_seed[p[Len(p)]] = goal_seed[p[Len(p)]] \/ spur_goal_seed[p[Len(p)]] = -1
        BY <3>1, <1>4, <1>5 DEF SpurSeed
      <3> QED BY <3>1, <3>2
    <2>13. p \in Routes(graph, Question)
      BY <2>9, <2>12, <1>5, RoutesAre
    <2>14. ASSUME NEW i \in DOMAIN results, Shares(p, results[i].vertices, s)
           PROVE  i \in SharingRoot
      <3>1. Shares(results[i].vertices, PrevPath, spur)
        BY <2>14, <2>1, <2>2, <2>9, <2>10 DEF Shares
      <3> QED BY <3>1, <1>4, SharingIs
    <2>15. ASSUME NEW i \in DOMAIN results, Shares(p, results[i].vertices, s + 1) PROVE FALSE
      <3>1. PICK w \in Seq(Vertex) : w = results[i].vertices
        BY <1>1
      <3>2. s + 1 <= Len(p) /\ s + 1 <= Len(w) /\ p[s] = w[s] /\ p[s + 1] = w[s + 1]
        BY <2>15, <3>1 DEF Shares
      <3>3. Shares(p, w, s)
        BY <2>15, <3>1, <2>10 DEF Shares
      <3>4. i \in SharingRoot /\ Len(w) > spur
        BY <3>1, <3>2, <3>3, <2>1, <2>14
      <3>5. <<w[s], w[s + 1]>> \in SpurBans.edges
        BY <3>1, <3>4, <2>1 DEF SpurBans
      <3>6. Len(r) >= 2 /\ r[1] = p[s] /\ r[2] = p[s + 1]
        <4>1. Len(r) >= 2
          BY <3>2, <2>9, <1>3
        <4>2. (s - 1) + 2 = s + 1 /\ 2 \in 1..Len(r)
          BY <4>1, <1>3
        <4> QED BY <4>1, <4>2, <2>9, <2>11
      <3>7. ~EdgeBlocked(call.bans, r[1], r[1 + 1])
        BY <3>6, <1>3, FlyableFacts
      <3>8. <<r[1], r[1 + 1]>> = <<w[s], w[s + 1]>>
        BY <3>2, <3>6
      <3> QED BY <3>5, <3>7, <3>8, <2>3 DEF EdgeBlocked
    <2>16. p \notin Answer
      <3> SUFFICES ASSUME NEW i \in DOMAIN results, p = results[i].vertices PROVE FALSE
        BY DEF Answer
      <3>1. CASE Len(p) > s
        <4>1. Shares(p, results[i].vertices, s + 1)
          BY <3>1, <2>10 DEF Shares
        <4> QED BY <4>1, <2>15
      <3>2. CASE Len(p) = s
        <4>1. Shares(p, results[i].vertices, s)
          BY <2>10 DEF Shares
        <4>2. i \in SharingRoot /\ Len(results[i].vertices) = spur
          BY <4>1, <3>2, <2>1, <2>14
        <4>3. EndsAtSpur
          BY <4>2 DEF EndsAtSpur
        <4>4. q[s] \in Vertex /\ p[Len(p)] = q[s]
          BY <3>2, <2>5, <2>9, <1>1, <2>2
        <4>5. spur_goal_seed[q[s]] = -1
          BY <4>3, <4>4, <1>4, <1>5, <1>7, <1>1, <2>1, <2>2 DEF SpurSeed
        <4> QED BY <4>4, <4>5, <2>3, <2>11, <1>3
      <3> QED BY <3>1, <3>2, <2>10
    <2>17. EndsAs(Stitched, spur, result.vertices)
      BY <2>1, <2>8, <2>9, <1>2 DEF EndsAs
    <2> QED BY <2>1, <2>2, <2>8, <2>10, <2>13, <2>15, <2>16, <2>17, <1>7
  <1> QED BY <1>6, <1>7

(***************************************************************************)
(* The cost of a path, split at a vertex.                                  *)
(***************************************************************************)
AreNats(F, n) == \A i \in 1..n : F[i] \in Nat

ContinuesAs(F, m, H, k) == \A i \in 1..k : H[i] = F[m + i]

LEMMA TotalSplit ==
  ASSUME NEW F, NEW H, NEW m \in Nat, NEW k \in Nat, AreNats(F, m + k), ContinuesAs(F, m, H, k)
  PROVE  /\ Total(F, m + k) = Total(F, m) + Total(H, k)
         /\ Total(F, m) \in Nat /\ Total(H, k) \in Nat
  <1> DEFINE S == {n \in Nat : n <= k => Total(F, m + n) = Total(F, m) + Total(H, n)}
  <1>0. (\A i \in 1..(m + k) : F[i] \in Nat) /\ \A i \in 1..k : H[i] = F[m + i]
    BY DEF AreNats, ContinuesAs
  <1>1. Total(F, m) \in Nat
    <2>1. \A i \in 1..m : F[i] \in Nat
      BY <1>0
    <2> QED BY <2>1, TotalNat
  <1>2. \A i \in 1..k : H[i] \in Nat
    BY <1>0
  <1>3. \A n \in Nat : n <= k => Total(H, n) \in Nat
    <2> SUFFICES ASSUME NEW n \in Nat, n <= k PROVE Total(H, n) \in Nat
      OBVIOUS
    <2>1. \A i \in 1..n : H[i] \in Nat
      BY <1>2
    <2> QED BY <2>1, TotalNat
  <1>4. 0 \in S
    <2>1. Total(H, 0) = 0 /\ m + 0 = m
      BY TotalSteps
    <2> QED BY <2>1, <1>1
  <1>5. ASSUME NEW n \in Nat, n \in S PROVE n + 1 \in S
    <2> SUFFICES ASSUME n + 1 <= k PROVE Total(F, m + (n + 1)) = Total(F, m) + Total(H, n + 1)
      OBVIOUS
    <2>1. Total(F, m + n) = Total(F, m) + Total(H, n)
      BY <1>5
    <2>2. Total(F, (m + n) + 1) = Total(F, m + n) + F[(m + n) + 1]
      BY TotalSteps
    <2>3. Total(H, n + 1) = Total(H, n) + H[n + 1]
      BY TotalSteps
    <2>4. n + 1 \in 1..k /\ (m + n) + 1 = m + (n + 1)
      OBVIOUS
    <2>5. H[n + 1] = F[(m + n) + 1] /\ H[n + 1] \in Nat /\ Total(H, n) \in Nat
      BY <2>4, <1>0, <1>2, <1>3
    <2> QED BY <2>1, <2>2, <2>3, <2>4, <2>5, <1>1
  <1> HIDE DEF S
  <1>6. k \in S
    BY <1>4, <1>5, NatSetInduction
  <1> QED BY <1>1, <1>3, <1>6 DEF S

\* A route through r[1] costs what it takes to get there and what r costs from there.
LEMMA SplitCost ==
  ASSUME NEW gr, IsGraph(gr), NEW c, CallOK(c), ~c.turn, NEW d, CallOK(d), ~d.turn,
         NEW p \in Routes(gr, c), NEW r \in Routes(gr, d), NEW s \in Nat \ {0},
         EndsAs(p, s, r), BuildSeedTable(d.sources)[r[1]] = 0,
         c.goalSeed[p[Len(p)]] = d.goalSeed[r[Len(r)]]
  PROVE  /\ RouteCost(gr, c, p) = BuildSeedTable(c.sources)[p[1]] + Total(StepsOf(gr, p), s - 1)
                                    + RouteCost(gr, d, r)
         /\ BuildSeedTable(c.sources)[p[1]] \in Nat
         /\ Total(StepsOf(gr, p), s - 1) \in Nat
         /\ RouteCost(gr, d, r) \in Nat
  <1>1. /\ Len(p) \in Nat /\ Len(p) >= 1 /\ Len(r) \in Nat /\ Len(r) >= 1
    <2>1. Flyable(gr, c, p) /\ Flyable(gr, d, r)
      BY RoutesAre
    <2> QED BY <2>1, FlyableFacts
  <1>2. PICK m \in Nat : m = s - 1
    OBVIOUS
  <1>3. PICK k \in Nat : k = Len(r) - 1 /\ Len(p) - 1 = m + k /\ Len(r) = k + 1
    BY <1>1, <1>2 DEF EndsAs
  <1>4. PICK F : F = StepsOf(gr, p)
    OBVIOUS
  <1>5. PICK H : H = StepsOf(gr, r)
    OBVIOUS
  <1>6. \A i \in 1..k : H[i] = F[m + i]
    <2> SUFFICES ASSUME NEW i \in 1..k PROVE H[i] = F[m + i]
      OBVIOUS
    <2>1. i \in 1..(Len(r) - 1) /\ m + i \in 1..(Len(p) - 1)
      BY <1>1, <1>3
    <2>2. H[i] = EdgeCost(SelectEdge(gr, r[i], r[i + 1]))
      BY <2>1, <1>5 DEF StepsOf
    <2>3. F[m + i] = EdgeCost(SelectEdge(gr, p[m + i], p[(m + i) + 1]))
      BY <2>1, <1>4 DEF StepsOf
    <2>4. p[m + i] = r[i] /\ p[(m + i) + 1] = r[i + 1]
      <3>1. i \in 1..Len(r) /\ i + 1 \in 1..Len(r) /\ (m + i) + 1 = m + (i + 1)
        BY <1>3
      <3>2. \A j \in 1..Len(r) : p[m + j] = r[j]
        BY <1>2 DEF EndsAs
      <3> QED BY <3>1, <3>2
    <2> QED BY <2>2, <2>3, <2>4
  <1>7. PICK a \in Nat : a = BuildSeedTable(c.sources)[p[1]]
    BY RouteNumbers
  <1>8. PICK b \in Nat : b = c.goalSeed[p[Len(p)]]
    BY RouteNumbers
  <1>9. \A i \in 1..(m + k) : F[i] \in Nat
    <2>1. \A i \in 1..(Len(p) - 1) : StepsOf(gr, p)[i] \in Nat
      BY RouteNumbers
    <2> QED BY <2>1, <1>3, <1>4
  <1>10. Total(F, m + k) = Total(F, m) + Total(H, k) /\ Total(F, m) \in Nat /\ Total(H, k) \in Nat
    <2>1. AreNats(F, m + k) /\ ContinuesAs(F, m, H, k)
      BY <1>6, <1>9 DEF AreNats, ContinuesAs
    <2> QED BY <2>1, TotalSplit
  <1>11. RouteCost(gr, c, p) = a + b + Total(F, m + k)
    BY <1>3, <1>4, <1>7, <1>8, RouteNumbers
  <1>12. RouteCost(gr, d, r) = 0 + b + Total(H, k)
    BY <1>3, <1>5, <1>8, RouteNumbers
  <1>13. /\ RouteCost(gr, c, p) = (a + Total(F, m)) + RouteCost(gr, d, r)
         /\ RouteCost(gr, d, r) \in Nat
    <2>1. PICK y \in Nat : y = Total(F, m)
      BY <1>10
    <2>2. PICK z \in Nat : z = Total(H, k)
      BY <1>10
    <2>3. RouteCost(gr, c, p) = a + b + (y + z) /\ RouteCost(gr, d, r) = 0 + b + z
      BY <2>1, <2>2, <1>10, <1>11, <1>12
    <2>4. a + b + (y + z) = (a + y) + (0 + b + z) /\ 0 + b + z \in Nat
      OBVIOUS
    <2>5. RouteCost(gr, c, p) = (a + y) + RouteCost(gr, d, r) /\ RouteCost(gr, d, r) \in Nat
      BY <2>3, <2>4, Zenon
    <2> QED BY <2>1, <2>5, Zenon
  <1>14. Total(F, m) = Total(StepsOf(gr, p), s - 1) /\ Total(F, m) \in Nat
    BY <1>2, <1>4, <1>10
  <1> QED BY <1>7, <1>13, <1>14

\* Paths that share their first vertices share the cost of flying them.
LEMMA SharedCost ==
  ASSUME NEW gr, IsGraph(gr), NEW c, CallOK(c), NEW p \in Routes(gr, c), NEW q, Len(q) \in Nat,
         NEW s \in Nat \ {0}, Shares(p, q, s)
  PROVE  Total(StepsOf(gr, p), s - 1) = Total(StepsOf(gr, q), s - 1)
  <1>1. PICK k \in Nat : k = s - 1 /\ k < s
    OBVIOUS
  <1>2. PICK F : F = StepsOf(gr, p)
    OBVIOUS
  <1>3. PICK H : H = StepsOf(gr, q)
    OBVIOUS
  <1>n. Len(p) \in Nat /\ \A i \in 1..(Len(p) - 1) : StepsOf(gr, p)[i] \in Nat
    <2>1. Flyable(gr, c, p)
      BY RoutesAre
    <2> QED BY <2>1, RouteNumbers, FlyableFacts
  <1>4. ASSUME NEW i \in 1..k PROVE H[i] = F[i] /\ F[i] \in Nat
    <2>0. s <= Len(p) /\ s <= Len(q) /\ \A j \in 1..s : p[j] = q[j]
      BY DEF Shares
    <2>1. /\ i \in 1..(Len(p) - 1) /\ i \in 1..(Len(q) - 1)
          /\ p[i] = q[i] /\ p[i + 1] = q[i + 1]
      <3>1. i \in 1..s /\ i + 1 \in 1..s
        BY <1>1
      <3>2. i \in 1..(Len(p) - 1) /\ i \in 1..(Len(q) - 1)
        BY <3>1, <2>0, <1>1, <1>n
      <3> QED BY <3>1, <3>2, <2>0
    <2>2. F[i] = EdgeCost(SelectEdge(gr, p[i], p[i + 1]))
      BY <2>1, <1>2 DEF StepsOf
    <2>3. H[i] = EdgeCost(SelectEdge(gr, q[i], q[i + 1]))
      BY <2>1, <1>3 DEF StepsOf
    <2> QED BY <2>1, <2>2, <2>3, <1>2, <1>n
  <1>5. Total(F, 0 + k) = Total(F, 0) + Total(H, k) /\ Total(H, k) \in Nat
    <2>1. AreNats(F, 0 + k) /\ ContinuesAs(F, 0, H, k)
      BY <1>4 DEF AreNats, ContinuesAs
    <2> QED BY <2>1, TotalSplit
  <1>6. Total(F, 0) = 0 /\ 0 + k = k
    BY TotalSteps
  <1> QED BY <1>1, <1>2, <1>3, <1>5, <1>6

\* Nothing of p from its s-th vertex on is barred.
FreeFrom(bans, p, s) ==
    /\ \A i \in 1..Len(p) : i >= s => ~NodeBlocked(bans, p[i])
    /\ \A i \in 1..(Len(p) - 1) : i >= s => ~EdgeBlocked(bans, p[i], p[i + 1])

\* The one source of d is v.
StartsAt(d, v) == d.sources = <<[vertex |-> v, cost |-> 0, bearing |-> kNoBearing]>>

\* The rest of a route, from one of its vertices on.
LEMMA SuffixRoute ==
  ASSUME NEW gr, NEW c, NEW d, NEW p, NEW s \in Nat \ {0}, Flyable(gr, c, p), s <= Len(p),
         StartsAt(d, p[s]), FreeFrom(d.bans, p, s)
  PROVE  \E r : /\ Flyable(gr, d, r)
                /\ EndsAs(p, s, r)
                /\ BuildSeedTable(d.sources)[r[1]] = 0
                /\ r[Len(r)] = p[Len(p)]
  <1>1. /\ p \in Seq(Vertex) /\ Len(p) \in Nat /\ Len(p) >= 1 /\ DOMAIN p = 1..Len(p)
        /\ \A i \in 1..Len(p) : p[i] \in Vertex
        /\ \A i \in 1..(Len(p) - 1) : Usable(gr, p[i], p[i + 1]) # {}
        /\ IsSimple(p)
    BY FlyableFacts DEF Flyable
  <1>2. PICK m \in Nat : m = s - 1 /\ s = m + 1
    OBVIOUS
  <1>3. PICK k \in Nat : k = Len(p) - m /\ Len(p) = m + k /\ k >= 1
    <2>1. Len(p) - m \in Nat /\ Len(p) = m + (Len(p) - m) /\ Len(p) - m >= 1
      BY <1>1, <1>2
    <2> QED BY <2>1, Zenon
  <1>4. PICK r : r = [i \in 1..k |-> p[m + i]]
    OBVIOUS
  <1>5. r \in Seq(Vertex) /\ Len(r) = k /\ DOMAIN r = 1..k /\ \A i \in 1..k : r[i] = p[m + i]
    <2>1. \A i \in 1..k : m + i \in 1..Len(p)
      BY <1>3
    <2>2. r \in [1..k -> Vertex]
      BY <2>1, <1>1, <1>4
    <2>3. r \in Seq(Vertex) /\ Len(r) = k
      BY <2>2
    <2> QED BY <2>3, <1>4
  <1>6. r[1] = p[s] /\ r[k] = p[Len(p)]
    BY <1>2, <1>3, <1>5
  <1>7. BuildSeedTable(d.sources)[r[1]] = 0
    <2>1. p[s] \in Vertex /\ kNoBearing \in Heading
      BY <1>1 DEF Heading
    <2> QED BY <2>1, <1>6, SingleSeed DEF StartsAt
  <1>8. \A i \in 1..k : ~NodeBlocked(d.bans, r[i])
    <2> SUFFICES ASSUME NEW i \in 1..k PROVE ~NodeBlocked(d.bans, r[i])
      OBVIOUS
    <2>1. m + i \in 1..Len(p) /\ m + i >= s
      BY <1>2, <1>3
    <2> QED BY <2>1, <1>5 DEF FreeFrom
  <1>9. \A i \in 1..(k - 1) : ~EdgeBlocked(d.bans, r[i], r[i + 1]) /\ Usable(gr, r[i], r[i + 1]) # {}
    <2> SUFFICES ASSUME NEW i \in 1..(k - 1)
                 PROVE  ~EdgeBlocked(d.bans, r[i], r[i + 1]) /\ Usable(gr, r[i], r[i + 1]) # {}
      OBVIOUS
    <2>1. m + i >= s /\ m + i \in 1..(Len(p) - 1) /\ i \in 1..k /\ i + 1 \in 1..k
          /\ (m + i) + 1 = m + (i + 1)
      BY <1>2, <1>3
    <2>2. r[i] = p[m + i] /\ r[i + 1] = p[(m + i) + 1]
      BY <2>1, <1>5
    <2> QED BY <2>1, <2>2, <1>1 DEF FreeFrom
  <1>10. IsSimple(r)
    <2> SUFFICES ASSUME NEW i \in 1..k, NEW j \in 1..k, r[i] = r[j] PROVE i = j
      BY <1>5 DEF IsSimple
    <2>1. m + i \in DOMAIN p /\ m + j \in DOMAIN p /\ p[m + i] = p[m + j]
      BY <1>1, <1>3, <1>5
    <2>2. m + i = m + j
      BY <2>1, <1>1 DEF IsSimple
    <2> QED BY <2>2
  <1>11. r # <<>> /\ BuildSeedTable(d.sources)[r[1]] >= 0
    <2>1. Len(r) # 0
      BY <1>3, <1>5
    <2> QED BY <2>1, <1>7
  <1>12. Flyable(gr, d, r)
    <2>1. \A i \in 1..Len(r) : ~NodeBlocked(d.bans, r[i])
      BY <1>5, <1>8
    <2>2. \A i \in 1..(Len(r) - 1) : ~EdgeBlocked(d.bans, r[i], r[i + 1]) /\ Usable(gr, r[i], r[i + 1]) # {}
      BY <1>5, <1>9
    <2> QED BY <2>1, <2>2, <1>5, <1>10, <1>11 DEF Flyable
  <1>13. EndsAs(p, s, r)
    BY <1>2, <1>3, <1>5 DEF EndsAs
  <1> QED BY <1>5, <1>6, <1>7, <1>12, <1>13

(***************************************************************************)
(* A route that leaves the accepted paths at the spur is one the spur      *)
(* search could fly, so what the search found is no dearer.                *)
(***************************************************************************)
LEMMA SuffixFits ==
  ASSUME AInv, YInv, phase = "spur", spur # 0, NEW p \in Other, LeavesAt(p, spur), Shares(p, PrevPath, spur)
  PROVE  \E r \in Routes(graph, call) :
            /\ EndsAs(p, spur, r)
            /\ BuildSeedTable(call.sources)[r[1]] = 0
            /\ call.goalSeed[r[Len(r)]] = goal_seed[p[Len(p)]]
  <1>1. /\ RequestOK(request) /\ IsGraph(graph) /\ spur \in Nat
        /\ PrevPath \in Seq(Vertex) /\ Len(PrevPath) \in Nat
        /\ \A i \in 1..Len(PrevPath) : PrevPath[i] \in Vertex
        /\ \A i \in DOMAIN results : results[i].vertices \in Seq(Vertex)
    BY RoundFacts
  <1>2. /\ p \in Seq(Vertex) /\ Len(p) \in Nat /\ Len(p) >= 1 /\ DOMAIN p = 1..Len(p)
        /\ goal_seed[p[Len(p)]] >= 0 /\ Flyable(graph, Question, p)
    BY <1>1, TrueRouteNumbers DEF Other
  <1>3. call = SpurCall /\ spur <= Len(PrevPath) /\ spur_goal_seed = SpurSeed
    BY DEF YInv, SearchAsked, TablesOK
  <1>4. Question.bans = request.bans /\ goal_seed \in [Vertex -> Nat \cup {-1}]
    BY <1>1, QuestionFacts
  <1>5. PICK s \in Nat \ {0} : s = spur
    BY <1>1
  <1>6. PICK q \in Seq(Vertex) : q = PrevPath
    BY <1>1
  <1>7. s <= Len(p) /\ s <= Len(q) /\ \A i \in 1..s : p[i] = q[i]
    BY <1>5, <1>6 DEF Shares
  <1>8. /\ call.sources = <<[vertex |-> p[s], cost |-> 0, bearing |-> kNoBearing]>>
        /\ call.goalSeed = spur_goal_seed /\ call.bans = SpurBans
    BY <1>3, <1>5, <1>6, <1>7 DEF SpurCall, Call
  <1>9. \A i \in 1..s : Root[i] = p[i]
    <2>1. s \in 0..Len(q)
      BY <1>1, <1>3, <1>5, <1>6
    <2> QED BY <2>1, <1>5, <1>6, <1>7, Prefix DEF Root
  <1>10. IsSimple(p) /\ \A i \in 1..Len(p) : p[i] \in Vertex
    BY <1>2, FlyableFacts DEF Flyable
  <1>11. ASSUME NEW i \in 1..Len(p), NodeBlocked(call.bans, p[i]), i >= s PROVE FALSE
    <2>1. p[i] \notin request.bans.nodes
      BY <1>2, <1>4, FlyableFacts DEF NodeBlocked
    <2>2. PICK j \in 1..(s - 1) : p[i] = Root[j]
      BY <1>11, <2>1, <1>8, <1>5 DEF NodeBlocked, SpurBans
    <2>3. j \in 1..s /\ j \in 1..Len(p) /\ j # i
      BY <1>7, <1>11, <1>2
    <2>4. p[i] = p[j]
      BY <2>2, <2>3, <1>9
    <2> QED BY <2>3, <2>4, <1>2, <1>10 DEF IsSimple
  <1>12. ASSUME NEW j \in SharingRoot PROVE Shares(results[j].vertices, q, s) /\ j \in DOMAIN results
    <2>1. j \in DOMAIN results
      BY DEF SharingRoot
    <2> QED BY <2>1, <1>3, <1>5, <1>6, SharingIs
  <1>13. ASSUME NEW i \in 1..(Len(p) - 1), EdgeBlocked(call.bans, p[i], p[i + 1]), i >= s PROVE FALSE
    <2>1. <<p[i], p[i + 1]>> \notin request.bans.edges
      BY <1>2, <1>4, FlyableFacts DEF EdgeBlocked
    <2>2. PICK j \in SharingRoot : /\ Len(results[j].vertices) > spur
                                   /\ <<p[i], p[i + 1]>> =
                                        <<results[j].vertices[spur], results[j].vertices[spur + 1]>>
      BY <1>13, <2>1, <1>8 DEF EdgeBlocked, SpurBans
    <2>3. PICK w \in Seq(Vertex) : w = results[j].vertices /\ j \in DOMAIN results
      BY <1>1, <1>12
    <2>4. Len(w) > s /\ p[i] = w[s] /\ p[i + 1] = w[s + 1] /\ Len(w) \in Nat
      BY <2>2, <2>3, <1>5
    <2>5. \A x \in 1..s : w[x] = p[x]
      BY <2>3, <1>7, <1>12 DEF Shares
    <2>6. p[i] = p[s] /\ s \in 1..Len(p) /\ i \in 1..Len(p)
      BY <2>4, <2>5, <1>7, <1>2
    <2>7. i = s
      BY <2>6, <1>2, <1>10 DEF IsSimple
    <2>8. s + 1 <= Len(p) /\ s + 1 <= Len(w)
      BY <2>4, <2>7, <1>2
    <2>9. ASSUME NEW x \in 1..(s + 1) PROVE p[x] = w[x]
      <3>1. CASE x = s + 1
        BY <3>1, <2>4, <2>7
      <3>2. CASE x # s + 1
        BY <3>2, <2>5
      <3> QED BY <3>1, <3>2
    <2>10. Shares(p, w, s + 1)
      BY <2>8, <2>9 DEF Shares
    <2> QED BY <2>3, <2>10, <1>5 DEF LeavesAt
  <1>14. spur_goal_seed[p[Len(p)]] = goal_seed[p[Len(p)]]
    <2> SUFFICES ASSUME EndsAtSpur, p[Len(p)] = PrevPath[spur] PROVE FALSE
      <3>1. p[Len(p)] \in Vertex
        BY <1>2, <1>10
      <3> QED BY <3>1, <1>3, <1>4 DEF SpurSeed
    <2>1. p[Len(p)] = p[s] /\ s \in 1..Len(p) /\ Len(p) \in 1..Len(p)
      BY <1>2, <1>5, <1>6, <1>7, SMTT(30)
    <2>2. Len(p) = s
      BY <2>1, <1>2, <1>10 DEF IsSimple
    <2>3. PICK j \in SharingRoot : Len(results[j].vertices) = s
      BY <1>5 DEF EndsAtSpur
    <2>4. results[j].vertices \in Seq(Vertex) /\ j \in DOMAIN results
      BY <1>1, <1>12
    <2>5. \A x \in 1..s : results[j].vertices[x] = p[x]
      BY <1>7, <1>12 DEF Shares
    <2>6. results[j].vertices = p
      BY <2>2, <2>3, <2>4, <2>5, <1>2, SeqEqual
    <2> QED BY <2>4, <2>6 DEF Other, Answer
  <1>15. PICK r : /\ Flyable(graph, call, r)
                  /\ EndsAs(p, s, r)
                  /\ BuildSeedTable(call.sources)[r[1]] = 0
                  /\ r[Len(r)] = p[Len(p)]
    <2>1. StartsAt(call, p[s])
      BY <1>8 DEF StartsAt
    <2>2. FreeFrom(call.bans, p, s)
      BY <1>11, <1>13 DEF FreeFrom
    <2>4. PICK d : d = call
      OBVIOUS
    <2>5. PICK c : c = Question
      OBVIOUS
    <2>6. \E r : /\ Flyable(graph, d, r)
                 /\ EndsAs(p, s, r)
                 /\ BuildSeedTable(d.sources)[r[1]] = 0
                 /\ r[Len(r)] = p[Len(p)]
      BY <2>1, <2>2, <2>4, <2>5, <1>2, <1>7, SuffixRoute
    <2> QED BY <2>4, <2>6
  <1>16. r \in Routes(graph, call)
    BY <1>2, <1>8, <1>14, <1>15, RoutesAre
  <1> QED BY <1>5, <1>8, <1>14, <1>15, <1>16

LEMMA SourceFits ==
  ASSUME AInv, YInv, phase = "spur", spur = 0, NEW p \in Other, LeavesAt(p, 0)
  PROVE  p \in Routes(graph, call)
  <1>1. /\ RequestOK(request) /\ IsGraph(graph)
        /\ \A i \in DOMAIN results : /\ results[i].vertices \in Seq(Vertex)
                                     /\ Flyable(graph, Question, results[i].vertices)
    BY RoundFacts
  <1>2. /\ p \in Seq(Vertex) /\ Len(p) \in Nat /\ Len(p) >= 1 /\ p[1] \in Vertex
        /\ goal_seed[p[Len(p)]] >= 0 /\ Flyable(graph, Question, p) /\ source_seed[p[1]] >= 0
    BY <1>1, TrueRouteNumbers DEF Other
  <1>3. call.sources = SpurSources /\ call.goalSeed = goal_seed /\ call.bans = request.bans
    BY DEF YInv, SearchAsked, SpurCall, Call
  <1> DEFINE V == {Head(results[i].vertices) : i \in DOMAIN results}
  <1>4. p[1] \notin V
    <2> SUFFICES ASSUME NEW i \in DOMAIN results, p[1] = Head(results[i].vertices) PROVE FALSE
      OBVIOUS
    <2>1. PICK q \in Seq(Vertex) : q = results[i].vertices /\ Len(q) \in Nat /\ Len(q) >= 1
      BY <1>1, FlyableFacts
    <2>2. Head(q) = q[1]
      BY <2>1
    <2>3. Shares(p, q, 0 + 1)
      BY <2>1, <2>2, <1>2 DEF Shares
    <2> QED BY <2>1, <2>3 DEF LeavesAt
  <1>5. BuildSeedTable(SpurSources)[p[1]] = source_seed[p[1]]
    <2>1. SpurSources = DropAt(request.sources, V)
      BY DEF SpurSources
    <2> HIDE DEF V
    <2> QED BY <2>1, <1>1, <1>2, <1>4, DropAtSeeds DEF RequestOK, source_seed
  <1>6. Question.bans = request.bans
    BY <1>1, QuestionFacts
  <1>7. Flyable(graph, call, p)
    BY <1>2, <1>3, <1>5, <1>6 DEF Flyable
  <1> QED BY <1>2, <1>3, <1>7, RoutesAre

\* A route of the super-source's search costs the same as a route of the request.
LEMMA SourceCost ==
  ASSUME AInv, YInv, phase = "spur", spur = 0, ~request.turn,
         NEW p \in Routes(graph, call), p \in Routes(graph, Question)
  PROVE  RouteCost(graph, call, p) = RouteCost(graph, Question, p)
  <1>1. RequestOK(request) /\ IsGraph(graph) /\ CallOK(call)
    BY DEF YInv, AInv, Types
  <1>2. /\ call.sources = SpurSources /\ call.goalSeed = goal_seed /\ call.turn = request.turn
    BY DEF YInv, SearchAsked, SpurCall, Call
  <1>3. /\ CallOK(Question) /\ Question.sources = request.sources /\ Question.goalSeed = goal_seed
        /\ Question.turn = request.turn
    BY <1>1, QuestionFacts
  <1>4. p[1] \in Vertex
    BY <1>1, RoutesAre, FlyableFacts
  <1>5. BuildSeedTable(call.sources)[p[1]] \in Nat
    BY <1>1, RouteNumbers
  <1>6. BuildSeedTable(call.sources)[p[1]] = BuildSeedTable(Question.sources)[p[1]]
    <2>1. PICK V : V = {Head(results[i].vertices) : i \in DOMAIN results}
      OBVIOUS
    <2>2. SpurSources = DropAt(request.sources, V)
      BY <2>1 DEF SpurSources
    <2>3. BuildSeedTable(SpurSources)[p[1]] =
             IF p[1] \in V THEN -1 ELSE BuildSeedTable(request.sources)[p[1]]
      BY <2>2, <1>1, <1>4, DropAtSeeds DEF RequestOK
    <2> QED BY <2>3, <1>2, <1>3, <1>5
  <1>7. RouteCost(graph, call, p) = BuildSeedTable(call.sources)[p[1]] + call.goalSeed[p[Len(p)]]
                                      + Total(StepsOf(graph, p), Len(p) - 1)
    BY <1>1, <1>2, RouteNumbers
  <1>8. RouteCost(graph, Question, p) =
           BuildSeedTable(Question.sources)[p[1]] + Question.goalSeed[p[Len(p)]]
             + Total(StepsOf(graph, p), Len(p) - 1)
    BY <1>1, <1>3, RouteNumbers
  <1> QED BY <1>2, <1>3, <1>6, <1>7, <1>8

LEMMA SpurCovers ==
  ASSUME AInv, YInv, phase = "spur", pc = "done", ~request.turn,
         NEW p \in Other, LeavesAt(p, spur), Shares(p, PrevPath, spur)
  PROVE  result.found /\ RouteCost(graph, Question, Stitched) <= RouteCost(graph, Question, p)
  <1>1. /\ RequestOK(request) /\ IsGraph(graph) /\ CallOK(call) /\ AnswerIsTrue /\ ShortestFound
        /\ spur \in Nat
    BY DEF YInv, TablesOK, AInv, Types
  <1>2. call = SpurCall /\ call.turn = request.turn
    BY DEF YInv, SearchAsked, SpurCall, Call
  <1>3. p \in Routes(graph, Question)
    BY DEF Other
  <1>4. ASSUME NEW r \in Routes(graph, call)
        PROVE  /\ result.found /\ result.vertices \in Routes(graph, call)
               /\ RouteCost(graph, call, result.vertices) <= RouteCost(graph, call, r)
    BY <1>1, <1>2 DEF AnswerIsTrue, ShortestFound
  <1>5. CASE spur = 0
    <2>1. p \in Routes(graph, call)
      BY <1>5, SourceFits
    <2>2. result.found /\ result.vertices \in Routes(graph, call)
          /\ RouteCost(graph, call, result.vertices) <= RouteCost(graph, call, p)
      BY <2>1, <1>4
    <2>3. Stitched = result.vertices /\ Stitched \in Routes(graph, Question)
      BY <2>2, <1>5, StitchedIsRoute
    <2>4. RouteCost(graph, call, p) = RouteCost(graph, Question, p)
      BY <2>1, <1>3, <1>5, SourceCost
    <2>5. RouteCost(graph, call, Stitched) = RouteCost(graph, Question, Stitched)
      BY <2>2, <2>3, <1>5, SourceCost
    <2> QED BY <2>2, <2>3, <2>4, <2>5
  <1>6. CASE spur # 0
    <2>1. PICK r \in Routes(graph, call) :
             /\ EndsAs(p, spur, r)
             /\ BuildSeedTable(call.sources)[r[1]] = 0
             /\ call.goalSeed[r[Len(r)]] = goal_seed[p[Len(p)]]
      BY <1>6, SuffixFits
    <2>2. PICK t : t = result.vertices
      OBVIOUS
    <2>3. PICK w : w = Stitched
      OBVIOUS
    <2>4. result.found /\ t \in Routes(graph, call) /\ RouteCost(graph, call, t) <= RouteCost(graph, call, r)
      BY <2>1, <2>2, <1>4
    <2>5. w \in Routes(graph, Question) /\ EndsAs(w, spur, t) /\ Shares(w, PrevPath, spur)
      BY <2>2, <2>3, <2>4, <1>6, StitchedIsRoute
    <2>6. PICK s \in Nat \ {0} : s = spur
      BY <1>1, <1>6
    <2>7. PICK c : c = Question
      OBVIOUS
    <2>8. /\ CallOK(c) /\ ~c.turn /\ c.goalSeed = goal_seed /\ goal_seed \in [Vertex -> Nat \cup {-1}]
      BY <2>7, <1>1, QuestionFacts
    <2>9. Flyable(graph, call, t) /\ call.goalSeed[t[Len(t)]] >= 0 /\ t[1] \in Vertex
          /\ Len(t) \in Nat /\ Len(t) >= 1 /\ t[Len(t)] \in Vertex
          /\ BuildSeedTable(call.sources)[t[1]] >= 0
      <3>1. Flyable(graph, call, t) /\ call.goalSeed[t[Len(t)]] >= 0
        BY <2>4, RoutesAre
      <3> QED BY <3>1, FlyableFacts
    <2>10. BuildSeedTable(call.sources)[t[1]] = 0
      <3>1. PrevPath[spur] \in Vertex
        <4>1. spur \in 1..Len(PrevPath)
          BY <1>1, <1>6, RoundFacts DEF YInv, SearchAsked
        <4> QED BY <4>1, RoundFacts
      <3>2. PICK x \in Vertex : x = PrevPath[spur]
        BY <3>1
      <3>3. call.sources = <<[vertex |-> x, cost |-> 0, bearing |-> kNoBearing]>>
        BY <3>2, <1>2, <1>6 DEF SpurCall, Call
      <3>4. kNoBearing \in Heading
        BY DEF Heading
      <3>5. BuildSeedTable(call.sources)[t[1]] = IF t[1] = x THEN 0 ELSE -1
        BY <3>3, <3>4, <2>9, SingleSeed
      <3> QED BY <3>5, <2>9
    <2>11. call.goalSeed[t[Len(t)]] = goal_seed[t[Len(t)]]
      <3>1. call.goalSeed = SpurSeed
        BY <1>2, <1>6 DEF SpurCall, Call, YInv, TablesOK
      <3> QED BY <3>1, <2>8, <2>9 DEF SpurSeed
    <2>12. w[Len(w)] = t[Len(t)]
      <3>1. EndsAs(w, s, t) /\ Len(t) \in 1..Len(t)
        BY <2>5, <2>6, <2>9
      <3> QED BY <3>1 DEF EndsAs
    <2>13. /\ RouteCost(graph, c, p) = BuildSeedTable(c.sources)[p[1]] + Total(StepsOf(graph, p), s - 1)
                                         + RouteCost(graph, call, r)
           /\ BuildSeedTable(c.sources)[p[1]] \in Nat /\ Total(StepsOf(graph, p), s - 1) \in Nat
           /\ RouteCost(graph, call, r) \in Nat
      <3>1. c.goalSeed[p[Len(p)]] = call.goalSeed[r[Len(r)]]
        BY <2>1, <2>8
      <3>2. EndsAs(p, s, r) /\ p \in Routes(graph, c) /\ ~call.turn
        BY <2>1, <2>6, <2>7, <1>2, <1>3
      <3> QED BY <3>1, <3>2, <2>1, <2>8, <1>1, SplitCost
    <2>14. /\ RouteCost(graph, c, w) = BuildSeedTable(c.sources)[w[1]] + Total(StepsOf(graph, w), s - 1)
                                         + RouteCost(graph, call, t)
           /\ RouteCost(graph, call, t) \in Nat
      <3>1. c.goalSeed[w[Len(w)]] = call.goalSeed[t[Len(t)]]
        BY <2>8, <2>11, <2>12
      <3>2. EndsAs(w, s, t) /\ w \in Routes(graph, c) /\ ~call.turn
        BY <2>5, <2>6, <2>7, <1>2
      <3> QED BY <3>1, <3>2, <2>4, <2>8, <2>10, <1>1, SplitCost
    <2>15. Shares(p, w, s) /\ Len(w) \in Nat
      <3>1. Shares(p, PrevPath, s) /\ Shares(w, PrevPath, s)
        BY <2>5, <2>6
      <3>2. Len(w) \in Nat
        BY <2>5, <1>1, TrueRouteNumbers
      <3> QED BY <3>1, <3>2 DEF Shares
    <2>16. Total(StepsOf(graph, p), s - 1) = Total(StepsOf(graph, w), s - 1)
      BY <2>7, <2>8, <2>15, <1>1, <1>3, SharedCost
    <2>17. p[1] = w[1]
      BY <2>15 DEF Shares
    <2> QED BY <2>3, <2>4, <2>7, <2>13, <2>14, <2>16, <2>17
  <1> QED BY <1>5, <1>6

(***************************************************************************)
(* The end of a spur.                                                      *)
(***************************************************************************)
LEMMA StitchedCandidate ==
  ASSUME AInv, YInv, phase = "spur", pc = "done", result.found
  PROVE  /\ CandidateOf(Stitched) \in Candidate
         /\ TrueRoute(CandidateOf(Stitched))
         /\ CandidateOf(Stitched).vertices = Stitched
         /\ CandidateOf(Stitched).deviation = spur
         /\ CandidateOf(Stitched).cost = RouteCost(graph, Question, Stitched)
         /\ Recostable(graph, Stitched, source_seed, goal_seed, request.bans)
  <1>1. RequestOK(request) /\ IsGraph(graph) /\ spur \in Nat
    BY DEF YInv, TablesOK, AInv, Types
  <1>2. PICK w : w = Stitched
    OBVIOUS
  <1>3. w \in Routes(graph, Question)
    BY <1>2, StitchedIsRoute
  <1>4. /\ Question.sources = request.sources /\ Question.goals = request.goals
        /\ Question.goalSeed = goal_seed /\ Question.sourceBearing = source_bearing
        /\ Question.goalBearing = goal_bearing
        /\ Question.turn = request.turn /\ Question.bans = request.bans
    BY <1>1, QuestionFacts
  <1>5. /\ RouteCost(graph, Question, w) \in Nat
        /\ DistanceOfPathMulti(graph, w, source_seed, goal_seed) \in Nat
        /\ w \in Seq(Vertex) /\ Len(w) \in Nat /\ Len(w) >= 1 /\ DOMAIN w = 1..Len(w)
        /\ Flyable(graph, Question, w) /\ goal_seed[w[Len(w)]] >= 0 /\ source_seed[w[1]] >= 0
    BY <1>1, <1>3, TrueRouteNumbers
  <1>6. PICK c : c = CandidateOf(w)
    OBVIOUS
  <1>7. /\ c.vertices = w /\ c.deviation = spur
        /\ c.distance_nm = DistanceOfPathMulti(graph, w, source_seed, goal_seed)
        /\ c = [cost |-> c.cost, distance_nm |-> c.distance_nm, vertices |-> c.vertices, deviation |-> c.deviation]
    BY <1>6 DEF CandidateOf
  <1>8. c.cost = RouteCost(graph, Question, w)
    BY <1>4, <1>6 DEF CandidateOf, RouteCost, source_seed
  <1>9. c \in Candidate
    BY <1>1, <1>5, <1>7, <1>8 DEF Candidate
  <1>10. TrueRoute(c)
    BY <1>3, <1>7, <1>8 DEF TrueRoute
  <1>11. Recostable(graph, w, source_seed, goal_seed, request.bans)
    <2>1. Head(w) = w[1] /\ w # <<>>
      BY <1>5 DEF Flyable
    <2>2. PathUsable(graph, w, request.bans)
      BY <1>4, <1>5, FlyableFacts DEF PathUsable
    <2> QED BY <2>1, <2>2, <1>5 DEF Recostable
  <1> QED BY <1>2, <1>6, <1>7, <1>8, <1>9, <1>10, <1>11

LEMMA GoalRestored ==
  ASSUME AInv, YInv, phase = "spur"
  PROVE  RestoreGoal = goal_seed
  <1>1. goal_seed \in [Vertex -> Nat \cup {-1}] /\ spur_goal_seed = SpurSeed /\ spur \in Nat
    BY QuestionFacts DEF YInv, TablesOK
  <1>2. ASSUME NEW v \in Vertex PROVE RestoreGoal[v] = goal_seed[v]
    BY <1>1 DEF RestoreGoal, SpurSeed
  <1>3. RestoreGoal = [v \in Vertex |-> RestoreGoal[v]]
    BY DEF RestoreGoal
  <1> QED BY <1>1, <1>2, <1>3

LEMMA SpurDoneKeeps ==
  ASSUME AInv, YInv, KInv, SpurDone
  PROVE  AInv' /\ YInv' /\ KInv'
  <1>1. /\ phase = "spur" /\ pc = "done" /\ candidates' = AddCandidate /\ spur_goal_seed' = RestoreGoal
        /\ spur' = spur + 1 /\ phase' = "round" /\ UNCHANGED astarVars
        /\ UNCHANGED <<request, results, spur_source_bearing>>
    BY DEF SpurDone
  <1>2. AInv' /\ UNCHANGED <<graph, request, results>>
    BY <1>1, SearchFrame DEF astarVars
  <1>3. /\ goal_seed' = goal_seed /\ Question' = Question /\ Answer' = Answer /\ PrevPath' = PrevPath
        /\ Other' = Other /\ RequestOK(request)' = RequestOK(request)
        /\ \A r : TrueRoute(r)' = TrueRoute(r)
        /\ \A p, n : LeavesAt(p, n)' = LeavesAt(p, n)
    BY <1>2, SameQuestion
  <1>4. /\ RequestOK(request) /\ IsGraph(graph) /\ spur \in Nat
        /\ Len(results) \in DOMAIN results /\ PrevPath = results[Len(results)].vertices
    BY <1>1, RoundFacts DEF PrevPath
  <1>5. CandidatesOK
    BY DEF YInv
  \* What the candidate set gains.
  <1>6. /\ candidates \subseteq candidates' /\ IsFiniteSet(candidates')
        /\ \A c \in candidates' : c \in candidates \/
              /\ result.found /\ c = CandidateOf(Stitched) /\ ~Known(CandidateOf(Stitched))
        /\ result.found => \E c \in candidates' : /\ c.vertices = Stitched
                                                  /\ c.cost = RouteCost(graph, Question, Stitched)
                                                  /\ c = CandidateOf(Stitched) \/ c \in candidates
    <2>1. PICK c : c = CandidateOf(Stitched)
      OBVIOUS
    <2>2. CASE result.found /\ ~Known(c)
      <3>1. /\ c.vertices = Stitched /\ c.cost = RouteCost(graph, Question, Stitched)
            /\ Recostable(graph, Stitched, source_seed, goal_seed, request.bans)
        BY <2>1, <2>2, <1>1, StitchedCandidate
      <3>2. candidates' = candidates \cup {c}
        BY <3>1, <2>1, <2>2, <1>1 DEF AddCandidate
      <3>3. IsFiniteSet(candidates')
        BY <3>2, <1>5, FS_AddElement DEF CandidatesOK
      <3> QED BY <3>1, <3>2, <3>3, <2>1, <2>2
    <2>3. CASE result.found /\ Known(c)
      <3>1. c.vertices = Stitched /\ c.cost = RouteCost(graph, Question, Stitched)
        BY <2>1, <2>3, <1>1, StitchedCandidate
      <3>2. PICK d \in candidates : d.cost = c.cost /\ d.vertices = c.vertices
        BY <2>3 DEF Known
      <3>3. candidates' = candidates
        BY <2>1, <2>3, <1>1 DEF AddCandidate
      <3> QED BY <3>1, <3>2, <3>3, <1>5 DEF CandidatesOK
    <2>4. CASE ~result.found
      <3>1. candidates' = candidates
        BY <2>4, <1>1 DEF AddCandidate
      <3> QED BY <3>1, <2>4, <1>5 DEF CandidatesOK
    <2> QED BY <2>2, <2>3, <2>4
  <1>7. ASSUME result.found, NEW d \in candidates, d.vertices = Stitched
        PROVE  Known(CandidateOf(Stitched)) /\ d.deviation <= spur
    <2>1. /\ CandidateOf(Stitched).vertices = Stitched
          /\ CandidateOf(Stitched).cost = RouteCost(graph, Question, Stitched)
      BY <1>1, <1>7, StitchedCandidate
    <2>2. d.cost = RouteCost(graph, Question, Stitched)
      BY <1>5, <1>7 DEF CandidatesOK, TrueRoute
    <2>3. Known(CandidateOf(Stitched))
      BY <2>1, <2>2, <1>7 DEF Known
    <2>4. PICK i \in DOMAIN results : Shares(Stitched, results[i].vertices, d.deviation)
      BY <1>5, <1>7 DEF CandidatesOK
    <2>5. d.deviation \in Nat
      BY <1>5 DEF CandidatesOK, Candidate
    <2>6. ~Shares(Stitched, results[i].vertices, spur + 1)
      BY <1>1, <1>7, StitchedIsRoute
    <2>7. d.deviation <= spur
      <3> SUFFICES ASSUME spur + 1 <= d.deviation PROVE FALSE
        BY <2>5, <1>4
      <3>1. PICK m \in Nat : m = d.deviation
        BY <2>5
      <3>2. PICK k \in Nat : k = spur + 1 /\ k <= m
        BY <3>1, <1>4
      <3>3. PICK w : w = Stitched
        OBVIOUS
      <3>4. PICK q : q = results[i].vertices
        OBVIOUS
      <3>5. m <= Len(w) /\ m <= Len(q) /\ \A j \in 1..m : w[j] = q[j]
        BY <3>1, <3>3, <3>4, <2>4 DEF Shares
      <3>6. Len(w) \in Nat /\ Len(q) \in Nat
        <4>1. w \in Routes(graph, Question)
          BY <3>3, <1>1, <1>7, StitchedIsRoute
        <4>2. Len(w) \in Nat
          BY <4>1, <1>4, TrueRouteNumbers
        <4>3. Len(q) \in Nat
          BY <3>4, <1>1, RoundFacts
        <4> QED BY <4>2, <4>3
      <3>7. Shares(w, q, k)
        BY <3>2, <3>5, <3>6 DEF Shares
      <3> QED BY <3>2, <3>3, <3>4, <3>7, <2>6
    <2> QED BY <2>3, <2>7
  <1>8. CandidatesOK'
    <2>1. ASSUME NEW c \in candidates'
          PROVE  /\ c \in Candidate /\ TrueRoute(c) /\ c.vertices \notin Answer
                 /\ \E i \in DOMAIN results : Shares(c.vertices, results[i].vertices, c.deviation)
      <3>1. CASE c \in candidates
        BY <3>1, <1>5 DEF CandidatesOK
      <3>2. CASE result.found /\ c = CandidateOf(Stitched)
        <4>1. /\ c \in Candidate /\ TrueRoute(c) /\ c.vertices = Stitched /\ c.deviation = spur
          BY <3>2, <1>1, StitchedCandidate
        <4>2. Stitched \notin Answer /\ Shares(Stitched, PrevPath, spur)
          BY <3>2, <1>1, StitchedIsRoute
        <4> QED BY <4>1, <4>2, <1>4
      <3> QED BY <3>1, <3>2, <1>6
    <2>2. ASSUME NEW c \in candidates', NEW d \in candidates', c.vertices = d.vertices PROVE c = d
      <3>1. CASE c \in candidates /\ d \in candidates
        BY <3>1, <2>2, <1>5 DEF CandidatesOK
      <3>2. ASSUME result.found, ~Known(CandidateOf(Stitched)), NEW e \in candidates,
                   e.vertices = CandidateOf(Stitched).vertices
            PROVE  FALSE
        <4>1. e.vertices = Stitched
          BY <3>2, <1>1, StitchedCandidate
        <4> QED BY <4>1, <3>2, <1>7
      <3> QED BY <3>1, <3>2, <2>2, <1>6
    <2>3. phase' \notin {"idle", "first"}
      BY <1>1
    <2> QED BY <2>1, <2>2, <2>3, <1>1, <1>3, <1>6 DEF CandidatesOK
  <1>9. AcceptedOK'
    BY <1>1, <1>3 DEF YInv, AcceptedOK
  <1>10. TablesOK' /\ SearchAsked'
    <2>1. spur_goal_seed' = goal_seed'
      BY <1>1, <1>3, GoalRestored
    <2> QED BY <2>1, <1>1, <1>4 DEF YInv, TablesOK, SearchAsked
  <1>11. KInv'
    <2> SUFFICES ASSUME ~request'.turn PROVE KInv'
      BY DEF KInv
    <2>0. ~request.turn
      BY <1>1
    <2>1. ASSUME NEW p \in Other, NEW n \in 0..Len(p), LeavesAt(p, n)
          PROVE  Covered(p, n)' \/ Ahead(p, n)'
      <3>1. Covered(p, n) \/ Ahead(p, n)
        BY <2>0, <2>1, <1>1 DEF KInv
      <3>2. CASE Covered(p, n)
        BY <3>2, <1>2, <1>3, <1>6 DEF Covered
      <3>3. CASE Ahead(p, n) /\ n # spur
        <4>1. spur' <= n
          BY <3>3, <1>1, <1>4 DEF Ahead
        <4> QED BY <4>1, <3>3, <1>3 DEF Ahead
      <3>4. CASE Ahead(p, n) /\ n = spur
        <4>1. Shares(p, PrevPath, spur) /\ LeavesAt(p, spur)
          BY <3>4, <2>1 DEF Ahead
        <4>2. result.found /\ RouteCost(graph, Question, Stitched) <= RouteCost(graph, Question, p)
          BY <4>1, <2>0, <1>1, SpurCovers
        <4>3. PICK c \in candidates' : /\ c.vertices = Stitched
                                       /\ c.cost = RouteCost(graph, Question, Stitched)
                                       /\ c = CandidateOf(Stitched) \/ c \in candidates
          BY <4>2, <1>6
        <4>4. c.deviation <= spur
          <5>1. CASE c = CandidateOf(Stitched)
            BY <5>1, <4>2, <1>1, <1>4, StitchedCandidate
          <5>2. CASE c \in candidates
            BY <5>2, <4>2, <4>3, <1>7
          <5> QED BY <5>1, <5>2, <4>3
        <4>5. Shares(p, Stitched, spur)
          <5>1. Shares(Stitched, PrevPath, spur)
            BY <4>2, <1>1, StitchedIsRoute
          <5> QED BY <5>1, <4>1 DEF Shares
        <4>6. Covered(p, n)'
          BY <4>2, <4>3, <4>4, <4>5, <3>4, <1>2, <1>3 DEF Covered
        <4> QED BY <4>6
      <3> QED BY <3>1, <3>2, <3>3, <3>4
    <2>2. \A p \in Other : \A i \in DOMAIN results : results[i].cost <= RouteCost(graph, Question, p)
      BY <2>0 DEF KInv
    <2> QED BY <2>1, <2>2, <1>1, <1>2, <1>3 DEF KInv
  <1>12. phase' \in {"idle", "first", "round", "spur", "return"} /\ RequestOK(request)'
    BY <1>1, <1>3, <1>4
  <1> QED BY <1>2, <1>8, <1>9, <1>10, <1>11, <1>12 DEF YInv

(***************************************************************************)
(* The end of a round.                                                     *)
(***************************************************************************)
LEMMA SharesLess ==
  ASSUME NEW p, NEW q, NEW m \in Nat, NEW n \in Nat, n <= m, Shares(p, q, m),
         Len(p) \in Nat, Len(q) \in Nat
  PROVE  Shares(p, q, n)
  <1>1. m <= Len(p) /\ m <= Len(q) /\ \A i \in 1..m : p[i] = q[i]
    BY DEF Shares
  <1>2. n <= Len(p) /\ n <= Len(q) /\ \A i \in 1..n : p[i] = q[i]
    BY <1>1
  <1> QED BY <1>2 DEF Shares

\* Every other route leaves the accepted paths somewhere.
LEMMA LeavesSomewhere ==
  ASSUME AInv, YInv, phase = "round", NEW p \in Other
  PROVE  \E n \in 0..Len(p) : LeavesAt(p, n)
  <1>1. /\ RequestOK(request) /\ IsGraph(graph) /\ Len(results) \in DOMAIN results
        /\ \A i \in DOMAIN results : Len(results[i].vertices) \in Nat
    BY RoundFacts
  <1>2. Len(p) \in Nat
    BY <1>1, TrueRouteNumbers DEF Other
  <1> DEFINE T == {k \in Nat : \A i \in DOMAIN results : ~Shares(p, results[i].vertices, k)}
  <1>3. Len(p) + 1 \in T
    BY <1>2 DEF Shares
  <1>4. PICK k \in T : \A j \in T : k <= j
    <2>1. T # {} /\ T \in SUBSET Nat
      BY <1>3
    <2> HIDE DEF T
    <2> QED BY <2>1, LeastNat
  <1>5. k # 0
    <2>1. Shares(p, results[Len(results)].vertices, 0)
      BY <1>1, <1>2 DEF Shares
    <2> QED BY <2>1, <1>1
  <1>6. PICK n \in Nat : n = k - 1 /\ k = n + 1
    BY <1>5
  <1>7. n \notin T
    BY <1>4, <1>6
  <1>8. PICK i \in DOMAIN results : Shares(p, results[i].vertices, n)
    BY <1>7
  <1>9. n <= Len(p)
    BY <1>8 DEF Shares
  <1>10. LeavesAt(p, n)
    BY <1>4, <1>6, <1>8 DEF LeavesAt
  <1> QED BY <1>2, <1>9, <1>10

\* Once the round has come to the end of the last path, candidates cover every other route.
LEMMA AllCovered ==
  ASSUME AInv, YInv, KInv, ~request.turn, phase = "round", spur > Len(PrevPath), NEW p \in Other
  PROVE  \E n \in 0..Len(p) : LeavesAt(p, n) /\ Covered(p, n)
  <1>1. PICK n \in 0..Len(p) : LeavesAt(p, n)
    BY LeavesSomewhere
  <1>2. Covered(p, n) \/ Ahead(p, n)
    BY <1>1 DEF KInv
  <1>3. ~Ahead(p, n)
    <2> SUFFICES ASSUME spur <= n, n <= Len(PrevPath) PROVE FALSE
      BY DEF Ahead, Shares
    <2>1. Len(PrevPath) \in Nat /\ spur \in Nat
      BY RoundFacts
    <2> QED BY <2>1
  <1> QED BY <1>1, <1>2, <1>3

LEMMA CheapestIs ==
  ASSUME AInv, YInv, candidates # {}
  PROVE  /\ Cheapest \in candidates
         /\ \A d \in candidates : Cheapest.cost <= d.cost
  <1>1. /\ IsFiniteSet(candidates) /\ \A c \in candidates : c.cost \in Nat /\ c.vertices \in Seq(Vertex)
        /\ \A c, d \in candidates : c.vertices = d.vertices => c = d
    BY DEF YInv, CandidatesOK, Candidate
  <1>2. \E c \in candidates : \A d \in candidates \ {c} : Before(c, d)
    BY <1>1, FirstBefore
  <1>3. Cheapest \in candidates /\ \A d \in candidates \ {Cheapest} : Before(Cheapest, d)
    BY <1>2 DEF Cheapest
  <1>4. ASSUME NEW d \in candidates PROVE Cheapest.cost <= d.cost
    <2>1. PICK c \in candidates : c = Cheapest
      BY <1>3
    <2>2. c.cost \in Nat /\ d.cost \in Nat
      BY <1>1
    <2>3. CASE d = c
      BY <2>1, <2>2, <2>3
    <2>4. CASE d # c
      BY <2>1, <2>2, <2>4, <1>3 DEF Before
    <2> QED BY <2>3, <2>4
  <1> QED BY <1>3, <1>4

\* Where the route p leaves once c is accepted as well: where it left before, or farther
\* along c, which itself leaves the earlier paths no later than p does.
LEMMA LeavesLater ==
  ASSUME AInv, YInv, phase = "round", NEW c \in candidates, NEW p \in Other,
         NEW n \in Nat, LeavesAt(p, n), NEW m \in Nat,
         \/ Shares(p, c.vertices, m)
         \/ \E i \in DOMAIN results : Shares(p, results[i].vertices, m),
         \A i \in DOMAIN results : ~Shares(p, results[i].vertices, m + 1)
  PROVE  n = m \/ (n < m /\ Shares(p, c.vertices, m) /\ c.deviation <= n)
  <1>1. /\ RequestOK(request) /\ IsGraph(graph)
        /\ \A i \in DOMAIN results : Len(results[i].vertices) \in Nat
    BY RoundFacts
  <1>2. Len(p) \in Nat
    BY <1>1, TrueRouteNumbers DEF Other
  <1>3. /\ c.deviation \in Nat /\ c.vertices \in Routes(graph, Question)
        /\ \E i \in DOMAIN results : Shares(c.vertices, results[i].vertices, c.deviation)
    BY DEF YInv, CandidatesOK, Candidate, TrueRoute
  <1>4. Len(c.vertices) \in Nat
    BY <1>1, <1>3, TrueRouteNumbers
  <1>5. n <= m
    <2> SUFFICES ASSUME m + 1 <= n PROVE FALSE
      OBVIOUS
    <2>1. PICK i \in DOMAIN results : Shares(p, results[i].vertices, n)
      BY DEF LeavesAt
    <2>2. Shares(p, results[i].vertices, m + 1)
      BY <2>1, <1>1, <1>2, SharesLess
    <2> QED BY <2>2
  <1>6. ASSUME NEW i \in DOMAIN results, NEW k \in Nat, n < k, Shares(p, results[i].vertices, k) PROVE FALSE
    <2>1. Shares(p, results[i].vertices, n + 1)
      BY <1>6, <1>1, <1>2, SharesLess
    <2> QED BY <2>1 DEF LeavesAt
  <1>7. CASE n < m
    <2>1. Shares(p, c.vertices, m)
      BY <1>6, <1>7
    <2>2. c.deviation <= n
      <3> SUFFICES ASSUME n + 1 <= c.deviation PROVE FALSE
        BY <1>3
      <3>1. PICK i \in DOMAIN results : Shares(c.vertices, results[i].vertices, c.deviation)
        BY <1>3
      <3>2. Shares(c.vertices, results[i].vertices, n + 1)
        BY <3>1, <1>1, <1>3, <1>4, SharesLess
      <3>3. Shares(p, c.vertices, n + 1)
        BY <2>1, <1>2, <1>4, <1>7, SharesLess
      <3>4. Shares(p, results[i].vertices, n + 1)
        BY <3>2, <3>3 DEF Shares
      <3> QED BY <3>4 DEF LeavesAt
    <2> QED BY <2>1, <2>2, <1>7
  <1> QED BY <1>5, <1>7

LEMMA AcceptKeeps ==
  ASSUME AInv, YInv, KInv, Accept
  PROVE  AInv' /\ YInv' /\ KInv'
  <1>1. /\ phase = "round" /\ spur > Len(PrevPath) /\ UNCHANGED astarVars
        /\ UNCHANGED <<request, spur_source_bearing, spur_goal_seed>>
    BY DEF Accept
  <1>2. AInv' /\ graph' = graph
    BY <1>1, SearchFrame DEF astarVars
  <1>3. /\ RequestOK(request) /\ IsGraph(graph) /\ spur \in Nat /\ Len(results) \in Nat
        /\ DOMAIN results = 1..Len(results)
        /\ \A i \in DOMAIN results : results[i] \in FoundPath
    BY <1>1, RoundFacts
  <1>4. /\ source_seed' = source_seed /\ goal_seed' = goal_seed /\ Question' = Question
        /\ RequestOK(request)' /\ \A r : TrueRoute(r)' = TrueRoute(r)
    <2>1. /\ source_seed' = source_seed /\ goal_seed' = goal_seed /\ Question' = Question
          /\ RequestOK(request)'
      BY <1>1, <1>2, <1>3 DEF source_seed, goal_seed, source_bearing, goal_bearing, Question, RequestOK
    <2> QED BY <2>1, <1>2 DEF TrueRoute
  <1>5. CASE candidates = {}
    <2>1. phase' = "return" /\ UNCHANGED <<results, candidates, spur>>
      BY <1>5 DEF Accept
    <2>2. UNCHANGED <<graph, request, results>>
      BY <2>1, <1>1, <1>2
    <2>3. Answer' = Answer /\ Other' = Other
      BY <2>2, SameQuestion
    <2>4. AcceptedOK' /\ CandidatesOK'
      BY <2>1, <2>3, <1>4 DEF YInv, AcceptedOK, CandidatesOK
    <2>5. TablesOK' /\ SearchAsked'
      BY <2>1, <1>1, <1>4 DEF YInv, TablesOK, SearchAsked
    <2>6. KInv'
      <3> SUFFICES ASSUME ~request'.turn PROVE KInv'
        BY DEF KInv
      <3>0. ~request.turn
        BY <1>1
      <3>1. Other = {}
        <4> SUFFICES ASSUME NEW p \in Other PROVE FALSE
          OBVIOUS
        <4>1. PICK n \in 0..Len(p) : Covered(p, n)
          BY <3>0, <1>1, AllCovered
        <4> QED BY <4>1, <1>5 DEF Covered
      <3> QED BY <3>1, <2>1, <2>3 DEF KInv
    <2> QED BY <2>1, <2>4, <2>5, <2>6, <1>2, <1>4 DEF YInv
  <1>6. CASE candidates # {}
    <2>1. PICK c \in candidates : c = Cheapest /\ \A d \in candidates : c.cost <= d.cost
      BY <1>6, CheapestIs
    <2>2. PICK r : r = Path(c)
      OBVIOUS
    <2>3. /\ results' = Append(results, r) /\ candidates' = candidates \ {c} /\ spur' = c.deviation
          /\ phase' = IF Len(results) + 1 = request.k THEN "return" ELSE "round"
      BY <2>1, <2>2, <1>6 DEF Accept
    <2>4. /\ c \in Candidate /\ TrueRoute(c) /\ c.vertices \notin Answer
          /\ \E i \in DOMAIN results : Shares(c.vertices, results[i].vertices, c.deviation)
          /\ c.deviation \in Nat /\ c.cost \in Nat
      BY DEF YInv, CandidatesOK, Candidate
    <2>5. /\ r.vertices = c.vertices /\ r.cost = c.cost /\ r.distance_nm = c.distance_nm
          /\ r \in FoundPath
      BY <2>2, <2>4 DEF Path, Candidate, FoundPath
    <2>6. PICK N \in Nat : N = Len(results) + 1 /\ N - 1 = Len(results)
      BY <1>3
    <2>7. /\ results \in Seq(FoundPath) /\ results' \in Seq(FoundPath)
          /\ Len(results') = N /\ DOMAIN results' = 1..N
          /\ results'[N] = r /\ \A i \in DOMAIN results : results'[i] = results[i]
      <3>1. results \in Seq(FoundPath)
        BY DEF YInv, AcceptedOK
      <3>2. results' \in Seq(FoundPath) /\ Len(results') = N
        BY <3>1, <2>3, <2>5, <2>6, AppendProperties
      <3>3. results'[N] = r /\ \A i \in DOMAIN results : results'[i] = results[i]
        BY <3>1, <2>3, <2>5, <2>6, <1>3, AppendProperties
      <3> QED BY <3>1, <3>2, <3>3
    <2>8. \A i \in DOMAIN results' : i = N \/ i \in DOMAIN results
      BY <2>6, <2>7, <1>3
    <2>9. \A i \in DOMAIN results : i \in DOMAIN results' /\ i # N
      BY <2>6, <2>7, <1>3
    <2>10. N \in DOMAIN results' /\ results' # <<>>
      <3>1. N \in 1..N
        BY <2>6, <1>3
      <3> QED BY <3>1, <2>7
    <2>11. PrevPath' = c.vertices
      BY <2>5, <2>7 DEF PrevPath
    <2>12. Answer' = Answer \cup {c.vertices}
      BY <2>5, <2>7, <2>8, <2>9, <2>10 DEF Answer
    <2>13. AcceptedOK'
      <3>1. ASSUME NEW i \in DOMAIN results' PROVE TrueRoute(results'[i])
        <4>1. TrueRoute(r)
          BY <2>4, <2>5 DEF TrueRoute
        <4> QED BY <4>1, <2>7, <2>8 DEF YInv, AcceptedOK
      <3>2. ASSUME NEW i \in DOMAIN results', NEW j \in DOMAIN results',
                   results'[i].vertices = results'[j].vertices
            PROVE  i = j
        <4>1. \A k \in DOMAIN results : results[k].vertices # c.vertices
          BY <2>4 DEF Answer
        <4>2. CASE i \in DOMAIN results /\ j \in DOMAIN results
          BY <3>2, <4>2, <2>7 DEF YInv, AcceptedOK
        <4>3. CASE i = N /\ j \in DOMAIN results
          BY <3>2, <4>1, <4>3, <2>5, <2>7
        <4>4. CASE j = N /\ i \in DOMAIN results
          BY <3>2, <4>1, <4>4, <2>5, <2>7
        <4> QED BY <4>2, <4>3, <4>4, <2>8
      <3>3. phase' \notin {"idle", "first"}
        BY <2>3
      <3> QED BY <3>1, <3>2, <3>3, <2>7, <2>10, <1>4 DEF AcceptedOK
    <2>14. CandidatesOK'
      <3>1. IsFiniteSet(candidates')
        BY <2>3, FS_RemoveElement DEF YInv, CandidatesOK
      <3>2. ASSUME NEW d \in candidates'
            PROVE  /\ d \in Candidate /\ TrueRoute(d) /\ d.vertices \notin Answer'
                   /\ \E i \in DOMAIN results' : Shares(d.vertices, results'[i].vertices, d.deviation)
        <4>1. d \in candidates /\ d # c
          BY <2>3
        <4>2. /\ d \in Candidate /\ TrueRoute(d) /\ d.vertices \notin Answer /\ d.vertices # c.vertices
              /\ \E i \in DOMAIN results : Shares(d.vertices, results[i].vertices, d.deviation)
          BY <4>1 DEF YInv, CandidatesOK
        <4>3. \E i \in DOMAIN results' : Shares(d.vertices, results'[i].vertices, d.deviation)
          BY <4>2, <2>7, <2>9
        <4> QED BY <4>2, <4>3, <2>12
      <3>3. \A d, e \in candidates' : d.vertices = e.vertices => d = e
        BY <2>3 DEF YInv, CandidatesOK
      <3>4. phase' \notin {"idle", "first"}
        BY <2>3
      <3> QED BY <3>1, <3>2, <3>3, <3>4, <1>4 DEF CandidatesOK
    <2>15. TablesOK' /\ SearchAsked'
      <3>1. phase' \in {"round", "return"} /\ spur_goal_seed = goal_seed
        BY <2>3, <1>1 DEF YInv, TablesOK
      <3> QED BY <3>1, <2>3, <2>4, <1>1, <1>4 DEF YInv, TablesOK, SearchAsked
    <2>16. KInv'
      <3> SUFFICES ASSUME ~request'.turn PROVE KInv'
        BY DEF KInv
      <3>0. ~request.turn
        BY <1>1
      <3>1. Other' = Other \ {c.vertices}
        BY <2>12, <1>2, <1>4 DEF Other
      <3>2. ASSUME NEW p \in Other', NEW i \in DOMAIN results'
            PROVE  results'[i].cost <= RouteCost(graph, Question, p)
        <4>1. p \in Other /\ p \in Routes(graph, Question)
          BY <3>1 DEF Other
        <4>2. CASE i \in DOMAIN results
          BY <4>1, <4>2, <3>0, <2>7 DEF KInv
        <4>3. CASE i = N
          <5>1. PICK n \in 0..Len(p) : Covered(p, n)
            BY <4>1, <3>0, <1>1, AllCovered
          <5>2. PICK d \in candidates : d.cost <= RouteCost(graph, Question, p)
            BY <5>1 DEF Covered
          <5>3. d.cost \in Nat /\ c.cost <= d.cost
            BY <2>1 DEF YInv, CandidatesOK, Candidate
          <5>4. RouteCost(graph, Question, p) \in Nat
            BY <4>1, <1>3, TrueRouteNumbers
          <5>5. c.cost <= RouteCost(graph, Question, p)
            BY <5>2, <5>3, <5>4, <2>4
          <5> QED BY <5>5, <4>3, <2>5, <2>7
        <4> QED BY <4>2, <4>3, <2>8
      <3>3. ASSUME NEW p \in Other', NEW m \in 0..Len(p), LeavesAt(p, m)'
            PROVE  Covered(p, m)' \/ Ahead(p, m)'
        <4>1. p \in Other
          BY <3>1
        <4>2. PICK n \in 0..Len(p) : LeavesAt(p, n) /\ Covered(p, n)
          BY <4>1, <3>0, <1>1, AllCovered
        <4>3. PICK d \in candidates : /\ d.deviation <= n /\ Shares(p, d.vertices, n)
                                      /\ d.cost <= RouteCost(graph, Question, p)
          BY <4>2 DEF Covered
        <4>4. m \in Nat /\ n \in Nat
          OBVIOUS
        <4>5. /\ \/ Shares(p, c.vertices, m)
                 \/ \E i \in DOMAIN results : Shares(p, results[i].vertices, m)
              /\ \A i \in DOMAIN results : ~Shares(p, results[i].vertices, m + 1)
          BY <3>3, <2>5, <2>7, <2>8, <2>9 DEF LeavesAt
        <4>6. n = m \/ (n < m /\ Shares(p, c.vertices, m) /\ c.deviation <= n)
          BY <4>1, <4>2, <4>4, <4>5, <1>1, LeavesLater
        <4>7. CASE n # m
          <5>1. Shares(p, c.vertices, m) /\ c.deviation <= m
            BY <4>4, <4>6, <4>7, <2>4
          <5> QED BY <5>1, <2>3, <2>11 DEF Ahead
        <4>8. CASE n = m /\ d = c
          BY <4>3, <4>8, <2>3, <2>11 DEF Ahead
        <4>9. CASE n = m /\ d # c
          <5>1. d \in candidates'
            BY <4>9, <2>3
          <5> QED BY <5>1, <4>3, <4>9, <1>2, <1>4 DEF Covered
        <4> QED BY <4>7, <4>8, <4>9
      <3>4. phase' = "return" => Len(results') = request'.k
        BY <2>3, <2>6, <2>7, <1>1
      <3> QED BY <3>2, <3>3, <3>4, <1>2, <1>4 DEF KInv
    <2>17. phase' \in {"idle", "first", "round", "spur", "return"}
      BY <2>3
    <2> QED BY <2>13, <2>14, <2>15, <2>16, <2>17, <1>2, <1>4 DEF YInv
  <1> QED BY <1>5, <1>6

LEMMA YenStepKeeps ==
  ASSUME AInv, YInv, KInv, YenStep
  PROVE  AInv' /\ YInv' /\ KInv'
  BY FirstSearchKeeps, FirstDoneKeeps, SourceSpurKeeps, NodeSpurKeeps, SpurDoneKeeps, AcceptKeeps, SearchKeeps
     DEF YenStep, Search

(***************************************************************************)
(* The via merge and its fallback.                                         *)
(***************************************************************************)
LEMMA HopsNat ==
  ASSUME QueryOK
  PROVE  /\ Len(query.forced) \in Nat /\ hops \in Nat /\ hops >= 1 /\ Len(query.forced) = hops - 1
         /\ \A i \in 1..Len(query.forced) : query.forced[i] \in Vertex \cup {kNoVertex}
  <1>1. query.forced \in Seq(Vertex \cup {kNoVertex})
    BY DEF QueryOK
  <1>2. Len(query.forced) \in Nat /\ \A i \in 1..Len(query.forced) : query.forced[i] \in Vertex \cup {kNoVertex}
    BY <1>1, ElementOfSeq, LenProperties
  <1> QED BY <1>2 DEF hops

LEMMA HopEndpoints ==
  ASSUME QueryOK, hop \in Nat \ {0}, hop <= hops, NEW b \in Heading
  PROVE  HopSources(b) \in Seq(SeededEndpoint) /\ HopGoals \in Seq(SeededEndpoint)
  <1>1. /\ Len(query.forced) \in Nat /\ hops \in Nat /\ Len(query.forced) = hops - 1
        /\ \A i \in 1..Len(query.forced) : query.forced[i] \in Vertex \cup {kNoVertex}
    BY HopsNat
  <1>2. query.sources \in Seq(SeededEndpoint) /\ query.goals \in Seq(SeededEndpoint)
    BY DEF QueryOK, RequestOK
  <1>3. ASSUME NEW v \in Vertex \cup {kNoVertex}, NEW h \in Heading PROVE At(v, h) \in Seq(SeededEndpoint)
    BY <1>3 DEF At, SeededEndpoint, Heading
  <1>4. HopSources(b) \in Seq(SeededEndpoint)
    <2>1. CASE hop = 1
      BY <2>1, <1>2 DEF HopSources
    <2>2. CASE hop # 1
      <3>1. hop - 1 \in 1..Len(query.forced)
        BY <2>2, <1>1
      <3> QED BY <3>1, <2>2, <1>1, <1>3 DEF HopSources
    <2> QED BY <2>1, <2>2
  <1>5. HopGoals \in Seq(SeededEndpoint)
    <2>1. CASE hop = hops
      BY <2>1, <1>2 DEF HopGoals
    <2>2. CASE hop # hops
      <3>1. hop \in 1..Len(query.forced) /\ kNoBearing \in Heading
        BY <2>2, <1>1 DEF Heading
      <3> QED BY <3>1, <2>2, <1>1, <1>3 DEF HopGoals
    <2> QED BY <2>1, <2>2
  <1> QED BY <1>4, <1>5

LEMMA AskHopKeeps ==
  ASSUME AInv, FInv, AskHop
  PROVE  AInv' /\ YInv' /\ KInv' /\ FInv'
  <1>1. PICK r : r = [sources |-> HopSources(kNoBearing), goals |-> HopGoals,
                      k |-> query.k, turn |-> query.turn, bans |-> query.bans]
    OBVIOUS
  <1>2. /\ stage = "ask" /\ FindKShortestPathsMulti(r) /\ stage' = "hop" /\ UNCHANGED <<query, hop, path>>
    BY <1>1 DEF AskHop
  <1>3. QueryOK /\ hop \in Nat \ {0} /\ hop <= hops /\ path \in Seq(Vertex)
    BY <1>2 DEF FInv
  <1>4. RequestOK(r)
    <2>1. kNoBearing \in Heading
      BY DEF Heading
    <2> QED BY <2>1, <1>1, <1>3, HopEndpoints DEF RequestOK, QueryOK
  <1>5. FInv'
    BY <1>2, <1>3 DEF FInv, QueryOK, RequestOK, hops
  <1> QED BY <1>2, <1>4, <1>5, FindKKeeps

LEMMA ForcedFrame ==
  ASSUME FInv, UNCHANGED forcedVars
  PROVE  FInv' /\ stage' = stage
  BY DEF FInv, QueryOK, RequestOK, hops, forcedVars

\* The searches stand still.
LEMMA SearchesStill ==
  ASSUME AInv, YInv, KInv, UNCHANGED searchVars
  PROVE  AInv' /\ YInv' /\ KInv' /\ phase' = phase /\ pc' = pc
  <1>1. UNCHANGED astarVars /\ UNCHANGED yenVars
    BY DEF searchVars
  <1>2. graph' = graph /\ call' = call /\ pc' = pc
    BY <1>1 DEF astarVars
  <1>3. phase = "first" => pc' = "idle" \/ call' = Question
    BY <1>2 DEF YInv, SearchAsked
  <1>4. phase' = phase
    BY <1>1 DEF yenVars
  <1> QED BY <1>1, <1>2, <1>3, <1>4, SearchFrame, YenFrame

\* A search outside Yen's loop.
LEMMA OtherSearch ==
  ASSUME AInv, YInv, KInv, phase \in {"idle", "return"}, UNCHANGED <<graph, yenVars>>
  PROVE  YInv' /\ KInv'
  BY YenFrame

LEMMA MergeKeeps ==
  ASSUME AInv, YInv, KInv, FInv, HopDone \/ Emit \/ Explore \/ MergeDone
  PROVE  AInv' /\ YInv' /\ KInv' /\ FInv' /\ phase' = phase /\ stage' \in {"return", "merge", "ask", "bar"}
  <1>1. UNCHANGED searchVars /\ query' = query /\ path' = path
    BY DEF HopDone, Emit, Explore, MergeDone
  <1>2. AInv' /\ YInv' /\ KInv' /\ phase' = phase
    BY <1>1, SearchesStill
  <1>3. QueryOK /\ hop \in Nat \ {0} /\ path \in Seq(Vertex)
    BY DEF FInv
  <1>4. hops \in Nat /\ hops >= 1 /\ hops' = hops /\ QueryOK'
    BY <1>1, <1>3, HopsNat DEF hops, QueryOK, RequestOK
  <1>5. CASE HopDone
    <2>1. stage = "hop" /\ hop <= hops
      BY <1>5 DEF HopDone, FInv
    <2>2. \/ stage' = "return" /\ hop' = hop
          \/ hop' = hop + 1 /\ stage' = IF hop = hops THEN "merge" ELSE "ask"
      BY <1>5 DEF HopDone
    <2>3. hop' \in Nat \ {0} /\ (stage' = "ask" => hop' <= hops) /\ stage' \in {"return", "merge", "ask"}
      BY <2>1, <2>2, <1>3, <1>4
    <2> QED BY <2>3, <1>1, <1>2, <1>3, <1>4 DEF FInv
  <1>6. CASE Emit \/ Explore
    <2>1. stage' = "merge" /\ hop' = hop
      BY <1>6 DEF Emit, Explore
    <2> QED BY <2>1, <1>1, <1>2, <1>3, <1>4 DEF FInv
  <1>7. CASE MergeDone
    <2>1. stage' \in {"return", "bar"} /\ hop' = 1
      BY <1>7 DEF MergeDone
    <2> QED BY <2>1, <1>1, <1>2, <1>3, <1>4 DEF FInv
  <1> QED BY <1>5, <1>6, <1>7

LEMMA ArrivalHeading ==
  ASSUME FInv
  PROVE  ArrivalBearing \in Heading
  <1>1. PICK w \in Seq(Vertex) : w = path
    BY SMTT(30) DEF FInv
  <1>2. CASE Len(w) >= 2
    <2>1. Len(w) - 1 \in 1..Len(w) /\ Len(w) \in 1..Len(w)
      BY <1>1, <1>2, LenProperties
    <2>2. w[Len(w) - 1] \in Vertex /\ w[Len(w)] \in Vertex
      BY <2>1, ElementOfSeq
    <2>3. BearingTo[w[Len(w) - 1]][w[Len(w)]] \in 0..359
      BY <2>2, BearingAssumption, ZenonT(60)
    <2> QED BY <2>3, <1>1, <1>2 DEF ArrivalBearing, Heading
  <1>3. CASE ~(Len(w) >= 2)
    BY <1>1, <1>3 DEF ArrivalBearing, Heading
  <1> QED BY <1>2, <1>3

LEMMA FallbackKeeps ==
  ASSUME AInv, YInv, KInv, FInv, phase \in {"idle", "return"},
         NewWorkspace \/ BarredSearch \/ SearchBarred \/ BarredDone
  PROVE  AInv' /\ YInv' /\ KInv' /\ FInv' /\ phase' = phase /\ stage' \in {"return", "search", "bar"}
  <1>1. QueryOK /\ hop \in Nat \ {0} /\ path \in Seq(Vertex)
    BY DEF FInv
  <1>2. hops \in Nat /\ hops >= 1
    BY <1>1, HopsNat
  <1>3. CASE NewWorkspace
    <2>1. /\ stage = "bar" /\ FreshWorkspace /\ stage' = "search" /\ UNCHANGED yenVars
          /\ UNCHANGED <<query, hop, path>>
      BY <1>3 DEF NewWorkspace
    <2>2. AInv' /\ graph' = graph /\ phase' = phase
      BY <2>1, FreshKeeps DEF FreshWorkspace, yenVars
    <2>3. FInv'
      BY <2>1 DEF FInv, QueryOK, RequestOK, hops
    <2> QED BY <2>1, <2>2, <2>3, OtherSearch
  <1>4. CASE BarredSearch
    <2>1. PICK c : c = PlainCall(HopSources(ArrivalBearing), HopGoals, query.turn, HopBans)
      OBVIOUS
    <2>2. /\ stage = "search" /\ Begin(c) /\ UNCHANGED yenVars /\ UNCHANGED forcedVars
      BY <1>4, <2>1 DEF BarredSearch
    <2>3. hop <= hops
      BY <2>2 DEF FInv
    <2>4. CallOK(c)
      <3>1. ArrivalBearing \in Heading
        BY ArrivalHeading
      <3>2. HopSources(ArrivalBearing) \in Seq(SeededEndpoint) /\ HopGoals \in Seq(SeededEndpoint)
        BY <3>1, <2>3, <1>1, HopEndpoints
      <3>3. query.turn \in BOOLEAN
        BY <1>1 DEF QueryOK, RequestOK
      <3> QED BY <3>2, <3>3, <2>1, PlainCallOK
    <2>5. AInv' /\ graph' = graph /\ phase' = phase
      BY <2>2, <2>4, BeginKeeps DEF Begin, yenVars
    <2> QED BY <2>2, <2>5, OtherSearch, ForcedFrame
  <1>5. CASE SearchBarred
    <2>1. stage = "search" /\ SearchStep /\ UNCHANGED yenVars /\ UNCHANGED forcedVars
      BY <1>5 DEF SearchBarred
    <2>2. phase' = phase
      BY <2>1 DEF yenVars
    <2> QED BY <2>1, <2>2, SearchKeeps, ForcedFrame
  <1>6. CASE BarredDone
    <2>1. stage = "search" /\ pc = "done" /\ UNCHANGED searchVars /\ query' = query
      BY <1>6 DEF BarredDone
    <2>2. AInv' /\ YInv' /\ KInv' /\ phase' = phase
      BY <2>1, SearchesStill
    <2>3. hop <= hops /\ hops' = hops /\ QueryOK'
      BY <2>1, <1>1 DEF FInv, hops, QueryOK, RequestOK
    <2>4. CASE ~result.found
      <3>1. stage' = "return" /\ UNCHANGED <<path, hop>>
        BY <1>6, <2>4 DEF BarredDone
      <3> QED BY <3>1, <2>2, <2>3, <1>1 DEF FInv
    <2>5. CASE result.found
      <3>1. PICK r : r = result.vertices
        OBVIOUS
      <3>2. r \in Seq(Vertex) /\ r # <<>>
        <4>1. r \in Routes(graph, call)
          BY <3>1, <2>1, <2>5 DEF AInv, AnswerIsTrue
        <4> QED BY <4>1, RoutesAre DEF Flyable
      <3>3. PICK w : w = path \o (IF path = <<>> THEN r ELSE Tail(r))
        OBVIOUS
      <3>4. w \in Seq(Vertex)
        <4>1. Tail(r) \in Seq(Vertex)
          BY <3>2, HeadTailProperties
        <4>2. PICK t \in Seq(Vertex) : t = IF path = <<>> THEN r ELSE Tail(r)
          BY <4>1, <3>2
        <4> QED BY <4>2, <3>3, <1>1, ConcatProperties
      <3>5. path' = w /\ hop' = hop + 1 /\ stage' = IF hop = hops THEN "return" ELSE "bar"
        BY <3>1, <3>3, <1>6, <2>5 DEF BarredDone
      <3>6. hop' \in Nat \ {0} /\ (stage' = "bar" => hop' <= hops) /\ stage' \in {"return", "bar"}
        BY <3>5, <2>3, <1>1, <1>2
      <3> QED BY <3>4, <3>5, <3>6, <2>2, <2>3 DEF FInv
    <2> QED BY <2>4, <2>5
  <1> QED BY <1>3, <1>4, <1>5, <1>6

LEMMA ForcedStepKeeps ==
  ASSUME Inv, step = "forced", ForcedStep, UNCHANGED topVars
  PROVE  Inv'
  <1>1. AInv /\ YInv /\ KInv /\ FInv /\ TInv
    BY DEF Inv
  <1>2. step' = "forced" /\ asked' = asked
    BY DEF topVars
  <1>3. ASSUME stage' # "hop" => phase' \in {"idle", "return"} PROVE TInv'
    BY <1>1, <1>2, <1>3 DEF TInv
  <1>4. stage # "hop" => phase \in {"idle", "return"}
    BY <1>1 DEF TInv
  <1>5. CASE AskHop
    <2>1. stage' = "hop"
      BY <1>5 DEF AskHop
    <2> QED BY <2>1, <1>1, <1>3, <1>5, AskHopKeeps DEF Inv
  <1>6. CASE SearchHop
    <2>1. stage = "hop" /\ YenStep /\ UNCHANGED forcedVars
      BY <1>6 DEF SearchHop
    <2> QED BY <2>1, <1>1, <1>3, YenStepKeeps, ForcedFrame DEF Inv
  <1>7. CASE HopDone \/ Emit \/ Explore \/ MergeDone
    <2>1. phase \in {"idle", "return"}
      BY <1>4, <1>7 DEF HopDone, Emit, Explore, MergeDone
    <2> QED BY <2>1, <1>1, <1>3, <1>7, MergeKeeps DEF Inv
  <1>8. CASE NewWorkspace \/ BarredSearch \/ SearchBarred \/ BarredDone
    <2>1. phase \in {"idle", "return"}
      BY <1>4, <1>8 DEF NewWorkspace, BarredSearch, SearchBarred, BarredDone
    <2> QED BY <2>1, <1>1, <1>3, <1>8, FallbackKeeps DEF Inv
  <1> QED BY <1>5, <1>6, <1>7, <1>8 DEF ForcedStep

(***************************************************************************)
(* FindRoutes.                                                             *)
(***************************************************************************)
\* Avoiding waypoints leaves a graph.
LEMMA AvoidingIsGraph ==
  ASSUME NEW rows, IsGraph(rows), NEW avoid
  PROVE  IsGraph(Avoiding(rows, avoid))
  <1> DEFINE A == Avoiding(rows, avoid)
  <1>1. ASSUME NEW v \in Vertex
        PROVE  /\ A[v] \in Seq(Edge)
               /\ \A i \in DOMAIN A[v] : Chord[v][A[v][i].to] <= A[v][i].distance_nm
    <2>1. PICK row \in Seq(Edge) : row = rows[v] /\ \A i \in DOMAIN row : Chord[v][row[i].to] <= row[i].distance_nm
      BY DEF IsGraph
    <2> DEFINE new == [i \in DOMAIN row |-> [row[i] EXCEPT !.allowed = @ /\ row[i].to \notin avoid]]
    <2>2. A[v] = new
      BY <2>1 DEF Avoiding
    <2>3. ASSUME NEW i \in DOMAIN row
          PROVE  new[i] \in Edge /\ new[i].to = row[i].to /\ new[i].distance_nm = row[i].distance_nm
      <3>1. row[i] \in Edge
        BY ElementOfSeq
      <3> QED BY <3>1 DEF Edge
    <2>4. new \in Seq(Edge)
      <3>1. Len(row) \in Nat /\ DOMAIN row = 1..Len(row)
        BY LenProperties
      <3>2. new \in [1..Len(row) -> Edge]
        BY <3>1, <2>3
      <3> HIDE DEF new
      <3> QED BY <3>1, <3>2
    <2>5. DOMAIN new = DOMAIN row
      OBVIOUS
    <2> HIDE DEF new
    <2> QED BY <2>1, <2>2, <2>3, <2>4, <2>5
  <1>2. A = [v \in Vertex |-> A[v]]
    BY DEF Avoiding
  <1> HIDE DEF A
  <1>3. IsGraph(A)
    BY <1>1, <1>2 DEF IsGraph
  <1> QED BY <1>3 DEF A

LEMMA AskedFacts ==
  ASSUME TInv
  PROVE  /\ Sources \in Seq(SeededEndpoint) /\ Goals \in Seq(SeededEndpoint)
         /\ Count \in Int /\ asked.turn \in BOOLEAN
         /\ asked.forced \in Seq(Vertex \cup {kNoVertex})
  <1>1. /\ asked.sources \in Seq(SeededEndpoint) /\ asked.goals \in Seq(SeededEndpoint)
        /\ asked.forced \in Seq(Vertex \cup {kNoVertex})
        /\ asked.k \in Int /\ asked.turn \in BOOLEAN
    BY QuestionsAssumption DEF TInv
  <1>2. Kept(asked.sources) \in Seq(SeededEndpoint) /\ Kept(asked.goals) \in Seq(SeededEndpoint)
    BY <1>1, DropAtKeeps DEF Kept
  <1> QED BY <1>1, <1>2 DEF Sources, Goals, Count

LEMMA AdmitKeeps ==
  ASSUME Inv, Admit
  PROVE  Inv'
  <1>1. AInv /\ YInv /\ KInv /\ FInv /\ TInv
    BY DEF Inv
  <1>2. /\ step = "call" /\ graph' = Avoiding(graph, asked.avoid) /\ step' = "run" /\ asked' = asked
        /\ UNCHANGED <<call, pc, wsVars, open, cursor, u, bestTotal, bestGoal, result>>
        /\ UNCHANGED yenVars /\ UNCHANGED forcedVars
    BY DEF Admit
  <1>3. pc = "idle" /\ phase = "idle" /\ stage = "idle" /\ asked \in Questions
    BY <1>1, <1>2 DEF TInv
  <1>4. /\ pc' = "idle" /\ call' = call /\ result' = result /\ g' = g /\ geo' = geo /\ prev' = prev
        /\ inbound' = inbound /\ stamp' = stamp /\ closedStamp' = closedStamp /\ generation' = generation
        /\ open' = open /\ cursor' = cursor /\ u' = u /\ bestTotal' = bestTotal /\ bestGoal' = bestGoal
    BY <1>2, <1>3 DEF wsVars
  <1>5. /\ phase' = "idle" /\ request' = request /\ results' = results
        /\ candidates' = candidates /\ spur' = spur /\ spur_source_bearing' = spur_source_bearing
        /\ spur_goal_seed' = spur_goal_seed
    BY <1>2, <1>3 DEF yenVars
  <1>6. AInv'
    <2>1. IsGraph(graph)'
      BY <1>1, <1>2, AvoidingIsGraph DEF AInv, Types
    <2>2. CallOK(call)' /\ AStarTypeOK'
      BY <1>1, <1>4 DEF AInv, Types, CallOK, AStarTypeOK
    <2>3. Types'
      BY <2>1, <2>2, <1>1, <1>4 DEF AInv, Types
    <2> QED BY <2>3, <1>4 DEF AInv, Busy
  <1>7. results = <<>> /\ candidates = {}
    BY <1>1, <1>3 DEF YInv, AcceptedOK, CandidatesOK
  <1>8. AcceptedOK'
    BY <1>5, <1>7 DEF AcceptedOK
  <1>9. CandidatesOK'
    BY <1>5, <1>7, FS_EmptySet DEF CandidatesOK
  <1>10. TablesOK'
    <2>1. goal_seed' = goal_seed
      BY <1>5 DEF goal_seed
    <2> QED BY <2>1, <1>1, <1>3, <1>5 DEF YInv, TablesOK
  <1>11. SearchAsked' /\ RequestOK(request)'
    BY <1>1, <1>5 DEF YInv, SearchAsked, RequestOK
  <1>12. YInv'
    BY <1>5, <1>8, <1>9, <1>10, <1>11 DEF YInv
  <1>13. KInv'
    BY <1>5, <1>7 DEF KInv
  <1>14. FInv' /\ stage' = stage
    BY <1>1, <1>2, ForcedFrame
  <1>15. TInv'
    BY <1>2, <1>3, <1>4, <1>5, <1>14 DEF TInv
  <1> QED BY <1>6, <1>12, <1>13, <1>14, <1>15 DEF Inv

LEMMA RunKeeps ==
  ASSUME Inv, RunForced \/ RunOne \/ RunSeveral
  PROVE  Inv'
  <1>1. AInv /\ YInv /\ KInv /\ FInv /\ TInv
    BY DEF Inv
  <1>2. step = "run" /\ asked' = asked
    BY DEF RunForced, RunOne, RunSeveral
  <1>3. pc = "idle" /\ phase = "idle" /\ stage = "idle" /\ asked \in Questions
    BY <1>1, <1>2 DEF TInv
  <1>4. /\ Sources \in Seq(SeededEndpoint) /\ Goals \in Seq(SeededEndpoint)
        /\ Count \in Int /\ asked.turn \in BOOLEAN
        /\ asked.forced \in Seq(Vertex \cup {kNoVertex})
    BY <1>1, AskedFacts
  <1>5. CASE RunForced
    <2>1. PICK q : q = [sources |-> Sources, goals |-> Goals, forced |-> asked.forced, k |-> Count,
                        turn |-> asked.turn, bans |-> asked.bans]
      OBVIOUS
    <2>2. FindPaths(q) /\ step' = "forced"
      BY <1>5, <2>1 DEF RunForced
    <2>3. /\ query' = q /\ stage' \in {"return", "ask"} /\ UNCHANGED searchVars /\ UNCHANGED <<hop, path>>
      BY <2>2 DEF FindPaths
    <2>4. AInv' /\ YInv' /\ KInv' /\ phase' = phase
      BY <2>3, <1>1, SearchesStill
    <2>5. QueryOK'
      BY <2>1, <2>3, <1>4 DEF QueryOK, RequestOK
    <2>6. hops' \in Nat /\ hops' >= 1
      <3>1. Len(asked.forced) \in Nat /\ hops' = Len(asked.forced) + 1
        BY <2>1, <2>3, <1>4, LenProperties DEF hops
      <3> QED BY <3>1
    <2>7. FInv'
      BY <2>3, <2>5, <2>6, <1>1, <1>3 DEF FInv
    <2>8. TInv'
      BY <2>2, <2>3, <2>4, <1>2, <1>3 DEF TInv
    <2> QED BY <2>4, <2>7, <2>8 DEF Inv
  <1>6. CASE RunOne
    <2>1. PICK c : c = PlainCall(Sources, Goals, asked.turn, asked.bans)
      OBVIOUS
    <2>2. Begin(c) /\ step' = "astar" /\ UNCHANGED yenVars /\ UNCHANGED forcedVars
      BY <1>6, <2>1 DEF RunOne
    <2>3. AInv' /\ graph' = graph
      BY <2>1, <2>2, <1>1, <1>4, PlainCallOK, BeginKeeps DEF Begin
    <2>4. YInv' /\ KInv' /\ phase' = phase
      BY <2>2, <2>3, <1>1, <1>3, OtherSearch DEF yenVars
    <2>5. FInv' /\ stage' = stage
      BY <2>2, <1>1, ForcedFrame
    <2>6. TInv'
      BY <2>2, <2>4, <2>5, <1>2, <1>3 DEF TInv
    <2> QED BY <2>3, <2>4, <2>5, <2>6 DEF Inv
  <1>7. CASE RunSeveral
    <2>1. PICK r : r = [sources |-> Sources, goals |-> Goals, k |-> Count,
                        turn |-> asked.turn, bans |-> asked.bans]
      OBVIOUS
    <2>2. FindKShortestPathsMulti(r) /\ step' = "yen" /\ UNCHANGED forcedVars
      BY <1>7, <2>1 DEF RunSeveral
    <2>3. RequestOK(r)
      BY <2>1, <1>4 DEF RequestOK
    <2>4. AInv' /\ YInv' /\ KInv'
      BY <2>2, <2>3, <1>1, FindKKeeps
    <2>5. FInv' /\ stage' = stage
      BY <2>2, <1>1, ForcedFrame
    <2>6. TInv'
      BY <2>2, <2>5, <1>2, <1>3 DEF TInv
    <2> QED BY <2>4, <2>5, <2>6 DEF Inv
  <1> QED BY <1>5, <1>6, <1>7

LEMMA WorkKeeps ==
  ASSUME Inv, Work
  PROVE  Inv'
  <1>1. AInv /\ YInv /\ KInv /\ FInv /\ TInv
    BY DEF Inv
  <1>2. CASE step = "forced" /\ ForcedStep /\ UNCHANGED topVars
    BY <1>2, ForcedStepKeeps
  <1>3. CASE step = "astar" /\ SearchStep /\ UNCHANGED yenVars /\ UNCHANGED forcedVars /\ UNCHANGED topVars
    <2>1. AInv' /\ YInv' /\ KInv'
      BY <1>1, <1>3, SearchKeeps
    <2>2. FInv' /\ stage' = stage
      BY <1>1, <1>3, ForcedFrame
    <2>3. phase' = phase /\ step' = step /\ asked' = asked
      BY <1>3 DEF yenVars, topVars
    <2>4. TInv'
      BY <2>2, <2>3, <1>1, <1>3 DEF TInv
    <2> QED BY <2>1, <2>2, <2>4 DEF Inv
  <1>4. CASE step = "yen" /\ YenStep /\ UNCHANGED forcedVars /\ UNCHANGED topVars
    <2>1. AInv' /\ YInv' /\ KInv'
      BY <1>1, <1>4, YenStepKeeps
    <2>2. FInv' /\ stage' = stage
      BY <1>1, <1>4, ForcedFrame
    <2>3. step' = step /\ asked' = asked
      BY <1>4 DEF topVars
    <2>4. TInv'
      BY <2>2, <2>3, <1>1, <1>4 DEF TInv
    <2> QED BY <2>1, <2>2, <2>4 DEF Inv
  <1> QED BY <1>2, <1>3, <1>4 DEF Work

\* Refusing, returning and standing still leave the searches alone.
LEMMA OutsideKeeps ==
  ASSUME Inv, Refuse \/ Return \/ UNCHANGED vars
  PROVE  Inv'
  <1>1. AInv /\ YInv /\ KInv /\ FInv /\ TInv
    BY DEF Inv
  <1>2. /\ UNCHANGED searchVars /\ UNCHANGED forcedVars /\ asked' = asked
    BY DEF Refuse, Return, vars, topVars
  <1>3. AInv' /\ YInv' /\ KInv' /\ phase' = phase /\ pc' = pc
    BY <1>1, <1>2, SearchesStill
  <1>4. FInv' /\ stage' = stage
    BY <1>1, <1>2, ForcedFrame
  <1>5. TInv'
    <2>1. CASE Refuse
      BY <2>1, <1>1, <1>2, <1>3, <1>4 DEF TInv, Refuse
    <2>2. CASE Return
      BY <2>2, <1>1, <1>2, <1>3, <1>4 DEF TInv, Return, Done
    <2>3. CASE UNCHANGED vars
      <3>1. step' = step
        BY <2>3 DEF vars, topVars
      <3> QED BY <3>1, <1>1, <1>2, <1>3, <1>4 DEF TInv
    <2> QED BY <2>1, <2>2, <2>3
  <1> QED BY <1>3, <1>4, <1>5 DEF Inv

LEMMA InitInv ==
  ASSUME Init
  PROVE  Inv
  <1>1. /\ AStarInit /\ pc = "idle" /\ request = NoRequest /\ phase = "idle" /\ results = <<>>
        /\ candidates = {} /\ spur = 0
        /\ spur_source_bearing = [v \in Vertex |-> kNoBearing] /\ spur_goal_seed = BuildSeedTable(<<>>)
        /\ query = NoQuery /\ stage = "idle" /\ hop = 1 /\ path = <<>>
        /\ asked \in Questions /\ step = "call"
    BY DEF Init, ForcedInit, YenInit, AStarInit
  <1>2. AInv
    BY <1>1, InitHolds
  <1>3. RequestOK(request) /\ request.goals = <<>>
    BY <1>1 DEF RequestOK, NoRequest
  <1>4. AcceptedOK
    BY <1>1 DEF AcceptedOK
  <1>5. CandidatesOK
    BY <1>1, FS_EmptySet DEF CandidatesOK
  <1>6. TablesOK
    <2>1. goal_seed = BuildSeedTable(<<>>)
      BY <1>3 DEF goal_seed
    <2>2. spur_source_bearing \in [Vertex -> Heading]
      BY <1>1 DEF Heading
    <2> QED BY <1>1, <2>1, <2>2 DEF TablesOK
  <1>7. SearchAsked
    BY <1>1 DEF SearchAsked
  <1>8. YInv
    BY <1>1, <1>3, <1>4, <1>5, <1>6, <1>7 DEF YInv
  <1>9. KInv
    BY <1>1 DEF KInv
  <1>10. FInv
    <2>1. QueryOK
      BY <1>1 DEF QueryOK, RequestOK, NoQuery
    <2> QED BY <2>1, <1>1 DEF FInv
  <1>11. TInv
    BY <1>1 DEF TInv
  <1> QED BY <1>2, <1>8, <1>9, <1>10, <1>11 DEF Inv

LEMMA NextKeeps ==
  ASSUME Inv, [Next]_vars
  PROVE  Inv'
  BY AdmitKeeps, RunKeeps, WorkKeeps, OutsideKeeps DEF Next, Progress, Finished

LEMMA InvHolds == Spec => []Inv
  <1>1. Init => Inv
    BY InitInv
  <1>2. Inv /\ [Next]_vars => Inv'
    BY NextKeeps
  <1> QED BY <1>1, <1>2, PTL DEF Spec

(***************************************************************************)
(* When FindRoutes says that there is no route.  The search that answers   *)
(* is the one the question asked for, on the fixes that are left.          *)
(***************************************************************************)
Wanted == [sources |-> Sources, goals |-> Goals, k |-> Count,
           turn |-> asked.turn, bans |-> asked.bans]

WantedCall == PlainCall(Sources, Goals, asked.turn, asked.bans)

AsAsked == PlainCall(asked.sources, asked.goals, asked.turn,
                     [asked.bans EXCEPT !.nodes = @ \cup asked.avoid])

NInv ==
    /\ step # "done" => outcome = "pending"
    /\ step = "forced" => asked.forced # <<>>
    /\ step = "astar" => call = WantedCall
    /\ step = "yen" => /\ request = Wanted
                       /\ (phase = "return" /\ results = <<>> /\ request.k > 0) =>
                             Routes(graph, Question) = {}
    /\ NoRouteIsTrue

LEMMA PlainFields ==
  ASSUME NEW s, NEW t, NEW turn, NEW bans
  PROVE  /\ PlainCall(s, t, turn, bans).sources = s
         /\ PlainCall(s, t, turn, bans).goalSeed = BuildSeedTable(t)
         /\ PlainCall(s, t, turn, bans).bans = bans
  BY DEF PlainCall, Call

LEMMA AskedTypes ==
  ASSUME TInv
  PROVE  /\ asked.sources \in Seq(SeededEndpoint) /\ asked.goals \in Seq(SeededEndpoint)
         /\ asked.bans \in [nodes : SUBSET Vertex, edges : SUBSET (Vertex \X Vertex)]
         /\ asked.refused.constraints # "kNoRoute" /\ asked.refused.departure # "kNoRoute"
         /\ asked.refused.arrival # "kNoRoute"
  BY QuestionsAssumption DEF TInv

\* A route that keeps clear of the avoided waypoints uses none of the fixes dropped.
LEMMA AvoidingRoutes ==
  ASSUME TInv, NEW gr, NEW p \in Routes(gr, AsAsked)
  PROVE  /\ p \in Routes(gr, WantedCall)
         /\ p \in Routes(gr, PlainCall(Kept(asked.sources), Kept(asked.goals), asked.turn, asked.bans))
  <1> DEFINE bans == [asked.bans EXCEPT !.nodes = @ \cup asked.avoid]
  <1>1. /\ asked.sources \in Seq(SeededEndpoint) /\ asked.goals \in Seq(SeededEndpoint)
        /\ asked.bans \in [nodes : SUBSET Vertex, edges : SUBSET (Vertex \X Vertex)]
    BY AskedTypes
  <1>2. bans.nodes = asked.bans.nodes \cup asked.avoid /\ bans.edges = asked.bans.edges
    BY <1>1
  <1> HIDE DEF bans
  <1>3. /\ AsAsked.sources = asked.sources /\ AsAsked.bans = bans
        /\ AsAsked.goalSeed = BuildSeedTable(asked.goals)
    BY PlainFields DEF AsAsked, bans
  <1>4. Flyable(gr, AsAsked, p) /\ BuildSeedTable(asked.goals)[p[Len(p)]] >= 0
    BY <1>3, RoutesAre
  <1>5. /\ p \in Seq(Vertex) /\ p # <<>>
        /\ BuildSeedTable(asked.sources)[p[1]] >= 0
        /\ \A i \in 1..Len(p) : ~NodeBlocked(bans, p[i])
        /\ \A i \in 1..(Len(p) - 1) : /\ ~EdgeBlocked(bans, p[i], p[i + 1])
                                      /\ Usable(gr, p[i], p[i + 1]) # {}
        /\ IsSimple(p)
    BY <1>3, <1>4 DEF Flyable
  <1>6. Len(p) \in Nat /\ Len(p) >= 1 /\ p[1] \in Vertex /\ p[Len(p)] \in Vertex
    BY <1>5, LenProperties, ElementOfSeq, EmptySeq
  <1>7. \A i \in 1..Len(p) : p[i] \notin asked.avoid /\ ~NodeBlocked(asked.bans, p[i])
    BY <1>2, <1>5 DEF NodeBlocked
  <1>8. \A i \in 1..(Len(p) - 1) : ~EdgeBlocked(asked.bans, p[i], p[i + 1])
    BY <1>2, <1>5 DEF EdgeBlocked
  <1>9. p[1] \notin asked.avoid /\ p[Len(p)] \notin asked.avoid
    BY <1>6, <1>7
  <1>10. /\ BuildSeedTable(Kept(asked.sources))[p[1]] >= 0
         /\ BuildSeedTable(Kept(asked.goals))[p[Len(p)]] >= 0
    BY <1>1, <1>4, <1>5, <1>6, <1>9, DropAtSeeds DEF Kept
  <1>11. ASSUME NEW s, NEW t, BuildSeedTable(s)[p[1]] >= 0, BuildSeedTable(t)[p[Len(p)]] >= 0
         PROVE  p \in Routes(gr, PlainCall(s, t, asked.turn, asked.bans))
    <2> DEFINE c == PlainCall(s, t, asked.turn, asked.bans)
    <2>1. c.sources = s /\ c.goalSeed = BuildSeedTable(t) /\ c.bans = asked.bans
      BY PlainFields
    <2> HIDE DEF c
    <2>2. Flyable(gr, c, p)
      BY <2>1, <1>5, <1>7, <1>8, <1>11 DEF Flyable
    <2>3. p \in Routes(gr, c)
      BY <2>1, <2>2, <1>11, RoutesAre
    <2> QED BY <2>3 DEF c
  <1>12. p \in Routes(gr, WantedCall)
    BY <1>4, <1>5, <1>10, <1>11 DEF WantedCall, Sources, Goals
  <1> QED BY <1>10, <1>11, <1>12

LEMMA NoGoalsNoRoute ==
  ASSUME NEW gr, NEW c, c.goalSeed = BuildSeedTable(<<>>)
  PROVE  Routes(gr, c) = {}
  <1> SUFFICES ASSUME NEW p \in Routes(gr, c) PROVE FALSE
    OBVIOUS
  <1>1. Flyable(gr, c, p) /\ c.goalSeed[p[Len(p)]] >= 0
    BY RoutesAre
  <1>2. p[Len(p)] \in Vertex
    BY <1>1, LenProperties, ElementOfSeq, EmptySeq DEF Flyable
  <1>3. AtVertex(<<>>, p[Len(p)]) = {}
    BY DEF AtVertex
  <1> QED BY <1>1, <1>2, <1>3 DEF BuildSeedTable

\* Without via points only the check on the dropped fixes says that there is no route.
LEMMA RefusedForLack ==
  ASSUME TInv, Refuse, asked.forced = <<>>, outcome' = "kNoRoute"
  PROVE  Kept(asked.sources) = <<>> \/ Kept(asked.goals) = <<>>
  <1> DEFINE empty == [i \in DOMAIN asked.forced |-> ViaChecks(i)]
             rest == FlattenSeq(empty)
             front == <<[bad |-> asked.refused.constraints # "none", code |-> asked.refused.constraints],
                        [bad |-> asked.refused.departure # "none", code |-> asked.refused.departure],
                        [bad |-> asked.sources = <<>>, code |-> "kAirportNotFound"],
                        [bad |-> asked.refused.arrival # "none", code |-> asked.refused.arrival],
                        [bad |-> asked.goals = <<>>, code |-> "kAirportNotFound"],
                        [bad |-> asked.avoid # {} /\ (Kept(asked.sources) = <<>> \/ Kept(asked.goals) = <<>>),
                         code |-> "kNoRoute"],
                        [bad |-> Len(asked.forced) > kMaxForcedPoints, code |-> "kRouteParseError"]>>
  <1>1. empty = <<>>
    OBVIOUS
  <1>2. rest = <<>>
    BY <1>1 DEF FlattenSeq
  <1>3. Checks = front \o rest
    BY DEF Checks
  <1>4. Checks = front
    <2>1. \A s : (\E S : s \in Seq(S)) => s \o <<>> = s
      BY ConcatEmptySeq
    <2>2. front \in Seq([bad : BOOLEAN, code : {front[i].code : i \in 1..7}])
      OBVIOUS
    <2> HIDE DEF front, rest
    <2> QED BY <2>1, <2>2, <1>2, <1>3
  <1>5. Failed \subseteq 1..7 /\ Failed # {}
    BY <1>4 DEF Failed, Refuse
  <1>6. \E m \in Failed : \A k \in Failed : m <= k
    BY <1>5, LeastNat
  <1>7. Min(Failed) \in Failed
    BY <1>6 DEF Min
  <1>8. PICK m \in 1..7 : m \in Failed /\ Checks[m].bad /\ Checks[m].code = "kNoRoute"
    BY <1>5, <1>7 DEF Failed, Refuse
  <1>9. /\ asked.refused.constraints # "kNoRoute" /\ asked.refused.departure # "kNoRoute"
        /\ asked.refused.arrival # "kNoRoute"
    BY AskedTypes
  <1>10. m = 6
    BY <1>4, <1>8, <1>9
  <1> QED BY <1>4, <1>8, <1>10, ZenonT(60)

\* What NInv says of a step that stays outside the end of the request.
LEMMA SameAsked ==
  ASSUME asked' = asked
  PROVE  /\ Sources' = Sources /\ Goals' = Goals /\ Count' = Count
         /\ Wanted' = Wanted /\ WantedCall' = WantedCall
  <1>1. Sources' = Sources /\ Goals' = Goals /\ Count' = Count
    BY DEF Sources, Goals, Count, Kept
  <1> QED BY <1>1 DEF Wanted, WantedCall

\* Yen's loop returns nothing only when there is nothing.
LEMMA NothingFound ==
  ASSUME AInv, YInv, YenStep,
         (phase = "return" /\ results = <<>> /\ request.k > 0) => Routes(graph, Question) = {}
  PROVE  /\ graph' = graph /\ request' = request
         /\ (phase' = "return" /\ results' = <<>> /\ request.k > 0) => Routes(graph, Question)' = {}
  <1>1. graph' = graph /\ request' = request
    BY SearchStepFrame DEF YenStep, FirstSearch, FirstDone, SourceSpur, NodeSpur, SpurDone, Accept, Search,
                           Skip, Begin, astarVars, yenVars
  <1>2. Question' = Question
    BY <1>1 DEF Question, goal_seed, source_bearing, goal_bearing
  <1> SUFFICES ASSUME phase' = "return", results' = <<>>, request.k > 0
               PROVE  Routes(graph, Question) = {}
    BY <1>1, <1>2
  <1>3. phase # "return"
    BY DEF YenStep, FirstSearch, FirstDone, SourceSpur, NodeSpur, SpurDone, Accept, Search
  <1>4. FirstDone \/ Accept
    BY <1>3 DEF YenStep, FirstSearch, SourceSpur, NodeSpur, SpurDone, Search, Skip, yenVars
  <1>5. CASE FirstDone
    <2>1. ~result.found /\ pc = "done" /\ phase = "first"
      BY <1>5 DEF FirstDone
    <2>2. call = Question
      BY <2>1 DEF YInv, SearchAsked
    <2> QED BY <2>1, <2>2 DEF AInv, AnswerIsTrue
  <1>6. CASE Accept
    <2>1. results \in Seq(FoundPath) /\ results # <<>>
      BY <1>6 DEF Accept, YInv, AcceptedOK
    <2>2. candidates # {} => results' = Append(results, Path(Cheapest))
      BY <1>6 DEF Accept
    <2>3. candidates = {} => results' = results
      BY <1>6 DEF Accept
    <2>4. \A x : Append(results, x) # <<>>
      BY <2>1
    <2> QED BY <2>1, <2>2, <2>3, <2>4
  <1> QED BY <1>4, <1>5, <1>6

LEMMA WorkTells ==
  ASSUME Inv, NInv, Work
  PROVE  NInv'
  <1>1. step # "done" /\ outcome = "pending" /\ UNCHANGED topVars
    BY DEF Work, NInv
  <1>2. step' = step /\ asked' = asked /\ outcome' = "pending"
    BY <1>1 DEF topVars
  <1>3. Wanted' = Wanted /\ WantedCall' = WantedCall
    BY <1>2, SameAsked
  <1>4. NoRouteIsTrue'
    BY <1>2 DEF NoRouteIsTrue
  <1>5. step = "astar" => call' = call
    BY SearchStepFrame DEF Work
  <1>6. step = "yen" =>
           /\ request' = request
           /\ (phase' = "return" /\ results' = <<>> /\ request.k > 0) => Routes(graph, Question)' = {}
    BY NothingFound DEF Work, Inv, NInv
  <1> QED BY <1>1, <1>2, <1>3, <1>4, <1>5, <1>6 DEF NInv

LEMMA RunTells ==
  ASSUME Inv, NInv, Admit \/ RunForced \/ RunOne \/ RunSeveral
  PROVE  NInv'
  <1>1. /\ step \in {"call", "run"} /\ asked' = asked /\ outcome' = outcome
        /\ step' \in {"run", "forced", "astar", "yen"}
    BY DEF Admit, RunForced, RunOne, RunSeveral
  <1>2. outcome' = "pending"
    BY <1>1 DEF NInv
  <1>3. NoRouteIsTrue'
    BY <1>2 DEF NoRouteIsTrue
  <1>4. Wanted' = Wanted /\ WantedCall' = WantedCall
    BY <1>1, SameAsked
  <1>5. CASE Admit
    BY <1>1, <1>2, <1>3, <1>5 DEF Admit, NInv
  <1>6. CASE RunForced
    BY <1>1, <1>2, <1>3, <1>6 DEF RunForced, NInv
  <1>7. CASE RunOne
    <2>1. call' = WantedCall /\ step' = "astar"
      BY <1>7 DEF RunOne, Begin, WantedCall
    <2> QED BY <2>1, <1>2, <1>3, <1>4 DEF NInv
  <1>8. CASE RunSeveral
    <2>1. FindKShortestPathsMulti(Wanted) /\ step' = "yen"
      BY <1>8 DEF RunSeveral, Wanted
    <2>2. PICK r : r = Wanted
      OBVIOUS
    <2>3. FindKShortestPathsMulti(r)
      BY <2>1, <2>2
    <2>4. /\ request' = r
          /\ phase' = IF r.k <= 0 \/ r.sources = <<>> \/ r.goals = <<>> THEN "return" ELSE "first"
      BY <2>3 DEF FindKShortestPathsMulti
    <2>5. r.k \in Int
      BY <2>2, AskedFacts DEF Wanted, Inv
    <2>6. /\ Question'.sources = r.sources
          /\ Question'.goalSeed = BuildSeedTable(r.goals)
      BY <2>4 DEF Question, Call, goal_seed
    <2>7. ASSUME phase' = "return", r.k > 0
          PROVE  Routes(graph', Question') = {}
      <3>1. r.sources = <<>> \/ r.goals = <<>>
        BY <2>4, <2>5, <2>7
      <3>2. CASE r.sources = <<>>
        BY <3>2, <2>6, NoSourceNoRoute
      <3>3. CASE r.goals = <<>>
        BY <3>3, <2>6, NoGoalsNoRoute
      <3> QED BY <3>1, <3>2, <3>3
    <2> QED BY <2>1, <2>2, <2>4, <2>7, <1>2, <1>3, <1>4 DEF NInv
  <1> QED BY <1>5, <1>6, <1>7, <1>8

LEMMA RefuseTells ==
  ASSUME Inv, NInv, Refuse
  PROVE  NInv'
  <1>1. step' = "done" /\ asked' = asked
    BY DEF Refuse
  <1>2. TInv
    BY DEF Inv
  <1>3. ASSUME outcome' = "kNoRoute", asked.forced = <<>>
        PROVE  Routes(graph', AsAsked) = {}
    <2> SUFFICES ASSUME NEW p \in Routes(graph', AsAsked) PROVE FALSE
      OBVIOUS
    <2> DEFINE c == PlainCall(Kept(asked.sources), Kept(asked.goals), asked.turn, asked.bans)
    <2>1. p \in Routes(graph', c)
      BY <1>2, AvoidingRoutes
    <2>2. c.sources = Kept(asked.sources) /\ c.goalSeed = BuildSeedTable(Kept(asked.goals))
      BY PlainFields
    <2> HIDE DEF c
    <2>3. Kept(asked.sources) = <<>> \/ Kept(asked.goals) = <<>>
      BY <1>2, <1>3, RefusedForLack
    <2>4. Routes(graph', c) = {}
      BY <2>2, <2>3, NoSourceNoRoute, NoGoalsNoRoute
    <2> QED BY <2>1, <2>4
  <1>4. AsAsked' = AsAsked
    BY <1>1 DEF AsAsked
  <1>5. NoRouteIsTrue'
    BY <1>1, <1>3, <1>4 DEF NoRouteIsTrue, AsAsked
  <1> QED BY <1>1, <1>5 DEF NInv

LEMMA ReturnTells ==
  ASSUME Inv, NInv, Return
  PROVE  NInv'
  <1>1. /\ step' = "done" /\ asked' = asked /\ graph' = graph
        /\ step \in {"forced", "astar", "yen"} /\ Done
        /\ outcome' = IF Found = <<>> THEN "kNoRoute" ELSE "ok"
    BY DEF Return, searchVars, astarVars
  <1>2. TInv /\ AInv /\ YInv
    BY DEF Inv
  <1>3. Count' = Count /\ AsAsked' = AsAsked
    BY <1>1, SameAsked DEF AsAsked
  <1>4. ASSUME outcome' = "kNoRoute", asked.forced = <<>>, Count > 0
        PROVE  Routes(graph, WantedCall) = {}
    <2>1. Found = <<>>
      BY <1>1, <1>4
    <2>2. CASE step = "astar"
      <3>1. call = WantedCall /\ pc = "done"
        BY <2>2, <1>1 DEF NInv, Done
      <3>2. ~result.found
        BY <2>1, <2>2 DEF Found
      <3> QED BY <3>1, <3>2, <1>2 DEF AInv, AnswerIsTrue
    <2>3. CASE step = "yen"
      <3>1. phase = "return" /\ results = <<>> /\ request = Wanted
        BY <2>1, <2>3, <1>1 DEF NInv, Done, Found
      <3>2. /\ request.sources = Sources /\ request.goals = Goals /\ request.k = Count
            /\ request.turn = asked.turn /\ request.bans = asked.bans
        BY <3>1 DEF Wanted
      <3>3. Question = WantedCall
        BY <3>2 DEF Question, WantedCall, PlainCall, goal_seed, source_bearing, goal_bearing
      <3> QED BY <3>1, <3>2, <3>3, <2>3, <1>4 DEF NInv
    <2>4. CASE step = "forced"
      BY <2>4, <1>4 DEF NInv
    <2> QED BY <2>2, <2>3, <2>4, <1>1
  <1>5. ASSUME outcome' = "kNoRoute", asked.forced = <<>>, Count > 0
        PROVE  Routes(graph, AsAsked) = {}
    BY <1>2, <1>4, <1>5, AvoidingRoutes
  <1>6. NoRouteIsTrue'
    BY <1>1, <1>3, <1>5 DEF NoRouteIsTrue, AsAsked
  <1> QED BY <1>1, <1>6 DEF NInv

LEMMA NInvHolds == Spec => []NInv
  <1>1. Init => NInv
    BY DEF Init, NInv, NoRouteIsTrue
  <1>2. ASSUME Inv, NInv, UNCHANGED vars
        PROVE  NInv'
    <2>1. /\ step' = step /\ asked' = asked /\ outcome' = outcome /\ graph' = graph /\ call' = call
          /\ phase' = phase /\ request' = request /\ results' = results
      BY <1>2 DEF vars, topVars, searchVars, astarVars, yenVars
    <2>2. Wanted' = Wanted /\ WantedCall' = WantedCall /\ Count' = Count /\ Question' = Question
      BY <2>1, SameAsked DEF Question, goal_seed, source_bearing, goal_bearing
    <2>3. NoRouteIsTrue'
      BY <1>2, <2>1, <2>2 DEF NInv, NoRouteIsTrue
    <2> QED BY <1>2, <2>1, <2>2, <2>3 DEF NInv
  <1>3. Inv /\ NInv /\ [Next]_vars => NInv'
    BY <1>2, WorkTells, RunTells, RefuseTells, ReturnTells DEF Next, Progress, Finished
  <1> QED BY <1>1, <1>3, InvHolds, PTL DEF Spec

(***************************************************************************)
(* The theorems.                                                           *)
(***************************************************************************)

\* FindShortestPathMulti, on a workspace that earlier searches used, finds a path
\* exactly when there is one under the constraints and bans, and reports a loopless
\* one with its true cost and distance, whoever calls it: FindRoutes, Yen's loop with
\* its spur bans and patched tables, or the via merge's greedy fallback.
THEOREM SearchAnswersAreTrue == Spec => []AnswerIsTrue
  <1>1. Inv => AnswerIsTrue
    BY DEF Inv, AInv, AnswerIsTrue
  <1> QED BY <1>1, InvHolds, PTL

\* With the turn penalty off, what FindShortestPathMulti finds is the cheapest path
\* of all: closing each vertex once and stopping at the first f that cannot win lose
\* nothing, on every graph whose edges are no shorter than the chord.
THEOREM SearchIsOptimal == Spec => []ShortestFound
  <1>1. Inv => ShortestFound
    BY DEF Inv, AInv, ShortestFound
  <1> QED BY <1>1, InvHolds, PTL

\* Yen's loop returns loopless routes of its request only, each with its true cost
\* and distance, and none twice, with the turn penalty on or off.
THEOREM YenRoutesAreTrue == Spec => []DistinctTrueRoutes
  <1>1. Inv => DistinctTrueRoutes
    BY DEF Inv, YInv, AcceptedOK, TrueRoute, DistinctTrueRoutes
  <1> QED BY <1>1, InvHolds, PTL

\* With the turn penalty off, the paths Yen's loop has accepted are at every moment
\* the cheapest of the request, and it returns fewer than k only when there are no
\* more: neither the super-source and super-sink, nor starting each round at the
\* last path's deviation (Lawler), skips a route.
THEOREM YenIsComplete == Spec => []KCheapest
  <1>1. Inv => KCheapest
    BY DEF Inv, KInv, Other, KCheapest
  <1> QED BY <1>1, InvHolds, PTL

\* FindRoutes tells a request without via points that there is no route only when
\* every route between its connection fixes passes an avoided waypoint: dropping
\* fixes, barring edges and choosing between the two searches rule out nothing else.
THEOREM NoRouteIsTheTruth == Spec => []NoRouteIsTrue
  <1>1. NInv => NoRouteIsTrue
    BY DEF NInv
  <1> QED BY <1>1, NInvHolds, PTL
=============================================================================
