--------------------------- MODULE PipelineProofs ---------------------------
(***************************************************************************)
(* A proof about the database answering one question, for every data set,  *)
(* position and count: the fixes NearestOnNetwork reports are those of a   *)
(* scan of the whole network.                                              *)
(*                                                                         *)
(* The argument.  A list by distance gives each candidate the place that   *)
(* as many come before it (Ranks), so a shorter list of candidates agrees  *)
(* with the whole one as far as nothing left out comes before (Agrees).    *)
(* Whatever a search of the grid leaves out is no nearer than its bound    *)
(* (Outside), by way of a parallel or of a meridian, across the            *)
(* antimeridian or not; and the last radius leaves nothing out.  GridOK is *)
(* what this asks of a builder: the grid is that of its coordinates, and   *)
(* the flags are on waypoints.  Populate and a restored snapshot both give *)
(* it, which is the invariant (Built).                                     *)
(***************************************************************************)
EXTENDS RoutePipeline, SequenceTheorems, FiniteSetTheorems, FunctionTheorems,
        WellFoundedInduction, TLAPS

(***************************************************************************)
(* Least elements.                                                         *)
(***************************************************************************)
\* A set of naturals has a least element.
LEMMA LeastNat ==
  ASSUME NEW T \in SUBSET Nat, T # {}
  PROVE  \E m \in T : \A k \in T : m <= k
  <1>1. PICK x \in T : \A y \in T : ~(<<y, x>> \in OpToRel(<, Nat))
    BY WFMin, NatLessThanWellFounded
  <1>2. \A y \in T : ~(y < x)
    BY <1>1 DEF OpToRel
  <1> QED BY <1>2

\* Min is that element.
LEMMA MinOfNats ==
  ASSUME NEW T \in SUBSET Nat, T # {}
  PROVE  Min(T) \in T /\ \A k \in T : Min(T) <= k
  BY LeastNat DEF Min

\* A set that holds zero and every successor of its elements holds all naturals.
LEMMA NatSetInduction ==
  ASSUME NEW S, 0 \in S, \A n \in Nat : n \in S => n + 1 \in S
  PROVE  Nat \subseteq S
  <1> SUFFICES ASSUME Nat \ S # {} PROVE FALSE
    OBVIOUS
  <1>1. PICK m \in Nat \ S : \A k \in Nat \ S : m <= k
    BY LeastNat
  <1>2. m # 0 /\ m - 1 \in Nat /\ (m - 1) + 1 = m
    BY <1>1
  <1>3. m - 1 \in S
    BY <1>1, <1>2
  <1> QED BY <1>1, <1>2, <1>3

(***************************************************************************)
(* Places in an order.                                                     *)
(***************************************************************************)
\* R orders S strictly, and any two members of S compare.
Orders(R, S) ==
    /\ \A v \in S : <<v, v>> \notin R
    /\ \A v, w \in S : v # w => <<v, w>> \in R \/ <<w, v>> \in R
    /\ \A u, v, w \in S : <<u, v>> \in R /\ <<v, w>> \in R => <<u, w>> \in R

\* The members of S ahead of v.
Ahead(R, S, v) == {w \in S : <<w, v>> \in R}

\* A member ahead of another has fewer ahead of it.
LEMMA PlacesGrow ==
  ASSUME NEW R, NEW S, Orders(R, S), IsFiniteSet(S)
  PROVE  /\ \A v \in S : /\ Cardinality(Ahead(R, S, v)) \in Nat
                         /\ Cardinality(Ahead(R, S, v)) < Cardinality(S)
         /\ \A v, w \in S : <<v, w>> \in R =>
              Cardinality(Ahead(R, S, v)) < Cardinality(Ahead(R, S, w))
  <1> DEFINE B(v) == Ahead(R, S, v)
  <1>1. Cardinality(S) \in Nat
    BY FS_CardinalityType
  <1>2. ASSUME NEW v \in S
        PROVE  IsFiniteSet(B(v)) /\ Cardinality(B(v)) \in Nat /\ Cardinality(B(v)) < Cardinality(S)
    <2>1. B(v) \subseteq S /\ v \notin B(v)
      BY DEF Orders, Ahead
    <2> HIDE DEF B
    <2>2. IsFiniteSet(B(v)) /\ Cardinality(B(v)) <= Cardinality(S)
             /\ (Cardinality(B(v)) = Cardinality(S) => B(v) = S)
      BY <2>1, FS_Subset, ZenonT(60)
    <2>3. Cardinality(B(v)) \in Nat
      BY <2>2, FS_CardinalityType
    <2>4. Cardinality(B(v)) # Cardinality(S)
      BY <2>1, <2>2
    <2> QED BY <1>1, <2>2, <2>3, <2>4
  <1>3. ASSUME NEW v \in S, NEW w \in S, <<v, w>> \in R
        PROVE  Cardinality(B(v)) < Cardinality(B(w))
    <2>1. B(v) \subseteq B(w) /\ v \in B(w) /\ v \notin B(v)
      BY <1>3 DEF Orders, Ahead
    <2>2. IsFiniteSet(B(w)) /\ Cardinality(B(v)) \in Nat /\ Cardinality(B(w)) \in Nat
      BY <1>2
    <2> HIDE DEF B
    <2>3. Cardinality(B(v)) <= Cardinality(B(w))
             /\ (Cardinality(B(v)) = Cardinality(B(w)) => B(v) = B(w))
      BY <2>1, <2>2, FS_Subset, ZenonT(60)
    <2>4. Cardinality(B(v)) # Cardinality(B(w))
      BY <2>1, <2>3
    <2> QED BY <2>2, <2>3, <2>4
  <1> QED BY <1>2, <1>3

\* No two members have the same place.
LEMMA PlacesDiffer ==
  ASSUME NEW R, NEW S, Orders(R, S), IsFiniteSet(S), NEW v \in S, NEW w \in S, v # w
  PROVE  Cardinality(Ahead(R, S, v)) # Cardinality(Ahead(R, S, w))
  <1>1. /\ Cardinality(Ahead(R, S, v)) \in Nat /\ Cardinality(Ahead(R, S, w)) \in Nat
        /\ <<v, w>> \in R => Cardinality(Ahead(R, S, v)) < Cardinality(Ahead(R, S, w))
        /\ <<w, v>> \in R => Cardinality(Ahead(R, S, w)) < Cardinality(Ahead(R, S, v))
    BY PlacesGrow
  <1>2. <<v, w>> \in R \/ <<w, v>> \in R
    BY DEF Orders
  <1> QED BY <1>1, <1>2

\* Each place is some member's.
LEMMA PlacesFilled ==
  ASSUME NEW R, NEW S, Orders(R, S), IsFiniteSet(S), NEW i \in 1..Cardinality(S)
  PROVE  \E v \in S : Cardinality(Ahead(R, S, v)) = i - 1
  <1> DEFINE n == Cardinality(S)
             place == [v \in S |-> Cardinality(Ahead(R, S, v)) + 1]
  <1>1. n \in Nat
    BY FS_CardinalityType
  <1>2. IsFiniteSet(1..n) /\ Cardinality(1..n) = n
    BY <1>1, FS_Interval
  <1>3. place \in [S -> 1..n]
    BY <1>1, PlacesGrow
  <1>4. ASSUME NEW v \in S, NEW w \in S, v # w PROVE place[v] # place[w]
    <2>1. Cardinality(Ahead(R, S, v)) \in Nat /\ Cardinality(Ahead(R, S, w)) \in Nat
      BY PlacesGrow
    <2>2. Cardinality(Ahead(R, S, v)) # Cardinality(Ahead(R, S, w))
      BY <1>4, PlacesDiffer
    <2> QED BY <2>1, <2>2
  <1>5. \E v \in S : place[v] = i
    <2> HIDE DEF place, n
    <2>1. place \in Injection(S, 1..n)
      BY <1>3, <1>4, Fun_IsInj
    <2>2. place \in Surjection(S, 1..n)
      <3>1. Cardinality(S) = Cardinality(1..n)
        BY <1>2 DEF n
      <3> QED BY <3>1, <1>2, <2>1, FS_Injection
    <2> QED BY <2>2 DEF Surjection, n
  <1> QED BY <1>5, PlacesGrow

\* A list of vertices in ascending order is a sequence of them.
LEMMA AscendingType ==
  ASSUME NEW S \in SUBSET Nat, IsFiniteSet(S), NEW W, S \subseteq W
  PROVE  Ascending(S) \in Seq(W)
  <1> DEFINE R == {e \in S \X S : e[1] < e[2]}
             below(v) == {w \in S : w < v}
             nth(k) == CHOOSE v \in S : Cardinality(below(v)) = k - 1
  <1>1. Ascending(S) = [k \in 1..Cardinality(S) |-> nth(k)]
    BY DEF Ascending, InOrder
  <1>2. Orders(R, S)
    BY DEF Orders
  <1>3. ASSUME NEW i \in 1..Cardinality(S) PROVE nth(i) \in W
    <2>1. PICK v \in S : Cardinality(Ahead(R, S, v)) = i - 1
      <3> HIDE DEF R
      <3>1. \A k \in 1..Cardinality(S) : \E v \in S : Cardinality(Ahead(R, S, v)) = k - 1
        BY <1>2, PlacesFilled
      <3> QED BY <3>1
    <2>2. Ahead(R, S, v) = below(v)
      BY DEF Ahead
    <2>3. \E u \in S : Cardinality(below(u)) = i - 1
      BY <2>1, <2>2
    <2> QED BY <2>3
  <1>4. Cardinality(S) \in Nat
    BY FS_CardinalityType
  <1> HIDE DEF nth
  <1> QED BY <1>1, <1>3, <1>4

(***************************************************************************)
(* Lists by distance.                                                      *)
(***************************************************************************)
\* How far a vertex is from a position, and which of two is listed first.
Nm(b, c, v) == DistanceTo[c][b.coords[v]]
Nearer(b, c, v, w) == Nm(b, c, v) < Nm(b, c, w) \/ (Nm(b, c, v) = Nm(b, c, w) /\ v < w)

\* Vertices that a list by distance can hold.
Listable(b, c, S) == IsFiniteSet(S) /\ S \subseteq Nat /\ \A v \in S : Nm(b, c, v) \in Nat

\* The candidates listed before v.
Before(b, c, S, v) == {w \in S : Nearer(b, c, w, v)}

LEMMA ByDistanceIs ==
  ASSUME NEW b, NEW c, NEW S
  PROVE  ByDistance(b, c, S) =
           [i \in 1..Cardinality(S) |->
              CHOOSE v \in S : Cardinality(Before(b, c, S, v)) = i - 1]
  BY DEF ByDistance, InOrder, Before, Nearer, Nm

\* They are listed in an order.
NearerIn(b, c, S) == {e \in S \X S : Nearer(b, c, e[1], e[2])}

LEMMA NearerOrders ==
  ASSUME NEW b, NEW c, NEW S, Listable(b, c, S)
  PROVE  /\ Orders(NearerIn(b, c, S), S)
         /\ \A v \in S : Before(b, c, S, v) = Ahead(NearerIn(b, c, S), S, v)
  <1> DEFINE R == NearerIn(b, c, S)
  <1>1. \A v, w \in S : <<v, w>> \in R <=> Nearer(b, c, v, w)
    BY DEF NearerIn
  <1> HIDE DEF R
  <1>2. /\ \A v \in S : ~Nearer(b, c, v, v)
        /\ \A v, w \in S : v # w => Nearer(b, c, v, w) \/ Nearer(b, c, w, v)
        /\ \A u, v, w \in S : Nearer(b, c, u, v) /\ Nearer(b, c, v, w) => Nearer(b, c, u, w)
    BY DEF Listable, Nearer
  <1>3. Orders(R, S)
    BY <1>1, <1>2 DEF Orders
  <1>4. \A v \in S : Before(b, c, S, v) = Ahead(R, S, v)
    BY <1>1 DEF Before, Ahead
  <1> QED BY <1>3, <1>4 DEF R

\* Each candidate is listed once, at the place its distance gives it.
LEMMA Ranks ==
  ASSUME NEW b, NEW c, NEW S, Listable(b, c, S), NEW i \in 1..Cardinality(S)
  PROVE  /\ ByDistance(b, c, S)[i] \in S
         /\ Cardinality(Before(b, c, S, ByDistance(b, c, S)[i])) = i - 1
         /\ \A v \in S : Cardinality(Before(b, c, S, v)) = i - 1 => v = ByDistance(b, c, S)[i]
  <1> DEFINE R == NearerIn(b, c, S)
  <1>1. IsFiniteSet(S)
    BY DEF Listable
  <1>2. Orders(R, S) /\ \A v \in S : Before(b, c, S, v) = Ahead(R, S, v)
    BY NearerOrders
  <1> HIDE DEF R
  <1>3. /\ \E v \in S : Cardinality(Before(b, c, S, v)) = i - 1
        /\ \A v, w \in S :
              Cardinality(Before(b, c, S, v)) = Cardinality(Before(b, c, S, w)) => v = w
    BY <1>1, <1>2, PlacesFilled, PlacesDiffer
  <1>4. ByDistance(b, c, S)[i] = CHOOSE v \in S : Cardinality(Before(b, c, S, v)) = i - 1
    BY ByDistanceIs
  <1>5. /\ ByDistance(b, c, S)[i] \in S
        /\ Cardinality(Before(b, c, S, ByDistance(b, c, S)[i])) = i - 1
    BY <1>3, <1>4
  <1> QED BY <1>3, <1>5

\* A candidate nearer than another has fewer before it.
LEMMA BeforeGrows ==
  ASSUME NEW b, NEW c, NEW S, Listable(b, c, S), NEW v \in S, NEW w \in S, Nearer(b, c, v, w)
  PROVE  Cardinality(Before(b, c, S, v)) < Cardinality(Before(b, c, S, w))
  <1> DEFINE R == NearerIn(b, c, S)
  <1>1. <<v, w>> \in R
    BY DEF NearerIn
  <1>2. Orders(R, S) /\ Before(b, c, S, v) = Ahead(R, S, v) /\ Before(b, c, S, w) = Ahead(R, S, w)
    BY NearerOrders
  <1>3. IsFiniteSet(S)
    BY DEF Listable
  <1> HIDE DEF R
  <1> QED BY <1>1, <1>2, <1>3, PlacesGrow

\* A shorter list agrees with a longer one as far as nothing left out comes before.
LEMMA Agrees ==
  ASSUME NEW b, NEW c, NEW A, Listable(b, c, A), NEW S \in SUBSET A, NEW i \in 1..Cardinality(S),
         \A v \in A \ S : ~Nearer(b, c, v, ByDistance(b, c, S)[i])
  PROVE  i \in 1..Cardinality(A) /\ ByDistance(b, c, A)[i] = ByDistance(b, c, S)[i]
  <1> DEFINE u == ByDistance(b, c, S)[i]
  <1>1. /\ IsFiniteSet(A) /\ Cardinality(A) \in Nat /\ IsFiniteSet(S) /\ Cardinality(S) \in Nat
        /\ Cardinality(S) <= Cardinality(A)
    BY FS_Subset, FS_CardinalityType DEF Listable
  <1>2. i \in 1..Cardinality(A)
    BY <1>1
  <1>3. Listable(b, c, S)
    BY <1>1 DEF Listable
  <1>4. u \in S /\ Cardinality(Before(b, c, S, u)) = i - 1
    BY <1>3, Ranks
  <1>5. Before(b, c, A, u) = Before(b, c, S, u)
    BY DEF Before
  <1> HIDE DEF u
  <1>6. u = ByDistance(b, c, A)[i]
    BY <1>2, <1>4, <1>5, Ranks
  <1> QED BY <1>2, <1>6 DEF u

(***************************************************************************)
(* The grid.                                                               *)
(***************************************************************************)
\* What the lookups by position ask of a builder.
GridOK(b) ==
    /\ b.firstAirport \in Nat
    /\ b.grid = RebuildGrid(b.coords, b.firstAirport)
    /\ b.inbound \subseteq 0..(b.firstAirport - 1)
    /\ b.outbound \subseteq 0..(b.firstAirport - 1)
    /\ \A v \in 0..(b.firstAirport - 1) : b.coords[v] \in DOMAIN DistanceTo

\* The cell of a coordinate holds it.
LEMMA CellHolds ==
  ASSUME NEW x \in Int
  PROVE  Cell(x) \in Int /\ 10 * Cell(x) <= x /\ x < 10 * Cell(x) + 10
  BY DEF Cell

\* A column is wrapped to the one a whole turn away that has a cell.
LEMMA WrapLonIs ==
  ASSUME NEW k \in Int
  PROVE  /\ WrapLon(k) \in Int
         /\ -180 <= k /\ k < 180 => WrapLon(k) = k
         /\ k < -180 => WrapLon(k) = k + 360
         /\ 180 <= k => WrapLon(k) = k - 360
  BY DEF WrapLon

\* A column that no wrapped column of the radius is lies beyond it on both sides.
LEMMA Beyond ==
  ASSUME NEW m \in Int, -180 <= m, m <= 180, NEW r \in Nat, r <= 180,
         NEW k \in Int, -180 <= k, k < 180,
         k \notin {WrapLon(WrapLon(m + d)) : d \in (-r)..r}
  PROVE  \A turn \in {-360, 0, 360} : k + turn < m - r \/ k + turn > m + r
  <1>1. ASSUME NEW turn \in {-360, 0, 360}, m - r <= k + turn, k + turn <= m + r
        PROVE  FALSE
    <2> DEFINE d == k + turn - m
    <2>1. d \in (-r)..r /\ m + d = k + turn /\ m + d \in Int
      BY <1>1
    <2>2. WrapLon(k + turn) = k
      BY <1>1, WrapLonIs
    <2>3. WrapLon(k) = k
      BY WrapLonIs
    <2>4. k = WrapLon(WrapLon(m + d))
      BY <2>1, <2>2, <2>3
    <2> HIDE DEF d
    <2> QED BY <2>1, <2>4
  <1> QED BY <1>1, SMTT(30)

\* A point in none of the columns is as far as the nearer bounding meridian.
LEMMA EastOrWest ==
  ASSUME NEW c, c.lon \in Int, Abs(c.lon) <= 1800, NEW p, p.lon \in Int, Abs(p.lon) <= 1800,
         NEW r \in Nat, r <= 180,
         WrapLon(Cell(p.lon)) \notin {WrapLon(WrapLon(Cell(c.lon) + d)) : d \in (-r)..r},
         NEW t \in Nat, t <= c.lon - 10 * (Cell(c.lon) - r),
         t <= 10 * (Cell(c.lon) + r + 1) - c.lon
  PROVE  2 * r + 1 < 360 /\ t <= LonGap(c, p)
  <1> DEFINE m == Cell(c.lon)
             x == c.lon
             y == p.lon
             k == WrapLon(Cell(y))
  <1>1. /\ m \in Int /\ 10 * m <= x /\ x < 10 * m + 10
        /\ Cell(y) \in Int /\ 10 * Cell(y) <= y /\ y < 10 * Cell(y) + 10
    BY CellHolds
  <1>2. /\ x \in Int /\ -1800 <= x /\ x <= 1800
        /\ y \in Int /\ -1800 <= y /\ y <= 1800
    BY DEF Abs
  <1>3. -180 <= m /\ m <= 180 /\ -180 <= Cell(y) /\ Cell(y) <= 180
    BY <1>1, <1>2
  <1>4. /\ k \in Int /\ -180 <= k /\ k < 180
        /\ (Cell(y) = k \/ (Cell(y) = 180 /\ k = -180 /\ y = 1800))
    BY <1>1, <1>2, <1>3, WrapLonIs
  <1>5. k \notin {WrapLon(WrapLon(m + d)) : d \in (-r)..r}
    OBVIOUS
  <1>6. LonGap(c, p) = IF (IF x - y < 0 THEN -(x - y) ELSE x - y) <= 1800
                       THEN (IF x - y < 0 THEN -(x - y) ELSE x - y)
                       ELSE 3600 - (IF x - y < 0 THEN -(x - y) ELSE x - y)
    BY DEF LonGap, Abs
  <1>7. t <= x - 10 * (m - r) /\ t <= 10 * (m + r + 1) - x
    OBVIOUS
  <1> HIDE DEF k, m, x, y
  <1>8. \A turn \in {-360, 0, 360} : k + turn < m - r \/ k + turn > m + r
    BY <1>1, <1>3, <1>4, <1>5, Beyond
  <1>9. /\ k - 360 < m - r \/ k - 360 > m + r
        /\ k < m - r \/ k > m + r
        /\ k + 360 < m - r \/ k + 360 > m + r
    BY <1>4, <1>8
  <1>10. 2 * r + 1 < 360
    BY <1>1, <1>3, <1>4, <1>9
  <1>11. t <= LonGap(c, p)
    BY <1>1, <1>2, <1>3, <1>4, <1>6, <1>7, <1>9, SMTT(60)
  <1> QED BY <1>10, <1>11

\* How far apart two points are at least, by their parallels and by a meridian between.
ApartByParallel(p, q) == 6 * Abs(p.lat - q.lat) <= DistanceTo[p][q]
ApartByMeridian(p, q) ==
    \A t \in QuarterTurn :
       /\ Across[p.lat][t] \in Nat
       /\ t <= LonGap(p, q) \/ AtPole(q) => Across[p.lat][t] <= DistanceTo[p][q]

LEMMA Globe ==
  ASSUME NEW p \in DOMAIN DistanceTo, OnGlobe(p), NEW q \in DOMAIN DistanceTo, OnGlobe(q)
  PROVE  ApartByParallel(p, q) /\ ApartByMeridian(p, q)
  BY GlobeAssumption, Zenon DEF ApartByParallel, ApartByMeridian

\* Whatever the search of the grid leaves out is no nearer than its bound.
LEMMA Outside ==
  ASSUME NEW b, GridOK(b), NEW c \in DOMAIN DistanceTo, OnGlobe(c), NEW r \in Nat, r <= 180,
         NEW v \in DOMAIN b.grid, v \notin Near(b, c, r)
  PROVE  OutsideLowerBoundNm(c, r) \in Nat /\ OutsideLowerBoundNm(c, r) <= Nm(b, c, v)
  <1> DEFINE p     == b.coords[v]
             south == 10 * (Cell(c.lat) - r)
             north == 10 * (Cell(c.lat) + r + 1)
             west  == 10 * (Cell(c.lon) - r)
             east  == 10 * (Cell(c.lon) + r + 1)
             sides == {c.lon - west, east - c.lon, 900}
             cols  == {WrapLon(WrapLon(Cell(c.lon) + d)) : d \in (-r)..r}
             S     == IF south > -900 THEN {6 * (c.lat - south)} ELSE {}
             N     == IF north < 900 THEN {6 * (north - c.lat)} ELSE {}
             E     == IF 2 * r + 1 < 360 THEN {Across[c.lat][Min(sides)]} ELSE {}
             gaps  == S \cup N \cup E \cup {Infinity}
  <1>1. v \in 0..(b.firstAirport - 1) /\ OnGlobe(p) /\ p \in DOMAIN DistanceTo
           /\ b.grid[v] = [lat |-> Cell(p.lat), lon |-> WrapLon(Cell(p.lon))]
    BY DEF GridOK, RebuildGrid, KeyForCoord
  <1>2. /\ c.lat \in Int /\ c.lon \in Int /\ p.lat \in Int /\ p.lon \in Int
        /\ Nm(b, c, v) \in Nat /\ Nm(b, c, v) = DistanceTo[c][p]
    BY <1>1, GlobeAssumption DEF Nm
  <1>3. 6 * Abs(c.lat - p.lat) <= Nm(b, c, v) /\ ApartByMeridian(c, p)
    <2> HIDE DEF p
    <2>1. 6 * Abs(c.lat - p.lat) <= DistanceTo[c][p] /\ ApartByMeridian(c, p)
      BY <1>1, Globe, Zenon DEF ApartByParallel
    <2> QED BY <1>2, <2>1
  <1>4. OutsideLowerBoundNm(c, r) = Min(gaps)
    BY DEF OutsideLowerBoundNm
  <1>5. Abs(Cell(p.lat) - Cell(c.lat)) > r \/ WrapLon(Cell(p.lon)) \notin cols
    <2>1. v \notin {u \in DOMAIN b.grid : Abs(b.grid[u].lat - Cell(c.lat)) <= r
                                              /\ b.grid[u].lon \in cols}
      BY DEF Near
    <2>2. Abs(b.grid[v].lat - Cell(c.lat)) <= r => b.grid[v].lon \notin cols
      BY <2>1
    <2>3. b.grid[v].lat = Cell(p.lat) /\ b.grid[v].lon = WrapLon(Cell(p.lon))
      BY <1>1
    <2>4. Cell(p.lat) \in Int /\ Cell(c.lat) \in Int
      BY <1>2, CellHolds
    <2> HIDE DEF cols, p
    <2> QED BY <2>2, <2>3, <2>4 DEF Abs
  <1>6. /\ Cell(c.lat) \in Int /\ 10 * Cell(c.lat) <= c.lat /\ c.lat < 10 * Cell(c.lat) + 10
        /\ Cell(p.lat) \in Int /\ 10 * Cell(p.lat) <= p.lat /\ p.lat < 10 * Cell(p.lat) + 10
        /\ Cell(c.lon) \in Int /\ 10 * Cell(c.lon) <= c.lon /\ c.lon < 10 * Cell(c.lon) + 10
    BY <1>2, CellHolds
  <1>7. sides \subseteq Nat /\ 900 \in sides
    BY <1>2, <1>6
  <1> HIDE DEF p, cols
  <1>8. PICK t \in QuarterTurn : t \in 0..900 /\ t = Min(sides) /\ t <= c.lon - west /\ t <= east - c.lon
    <2>1. c.lon - west \in sides /\ east - c.lon \in sides
      OBVIOUS
    <2> HIDE DEF sides
    <2>2. Min(sides) \in sides /\ \A k \in sides : Min(sides) <= k
      BY <1>7, MinOfNats
    <2>3. Min(sides) \in Nat /\ Min(sides) <= 900
      <3>1. Min(sides) \in Nat
        BY <1>7, <2>2
      <3>2. Min(sides) <= 900
        BY <1>7, <2>2, SMTT(60)
      <3> QED BY <3>1, <3>2
    <2>4. Min(sides) \in 0..900 /\ Min(sides) <= c.lon - west /\ Min(sides) <= east - c.lon
      BY <2>1, <2>2, <2>3
    <2>5. Min(sides) \in QuarterTurn
      BY <2>4, SMT DEF QuarterTurn
    <2> DEFINE t == Min(sides)
    <2>6. t \in QuarterTurn /\ t \in 0..900 /\ t <= c.lon - west /\ t <= east - c.lon
      BY <2>4, <2>5
    <2> QED BY <2>6
  <1>9. S \subseteq Nat /\ N \subseteq Nat /\ E \subseteq Nat
    <2> HIDE DEF sides
    <2>1. Across[c.lat][Min(sides)] \in Nat
      BY <1>3, <1>8 DEF ApartByMeridian
    <2> QED BY <1>2, <1>6, <2>1
  <1>10. Min(gaps) \in Nat /\ \A g \in S \cup N \cup E : Min(gaps) <= g
    <2> HIDE DEF S, N, E
    <2>1. gaps \subseteq Nat /\ gaps # {}
      BY <1>9 DEF Infinity
    <2> HIDE DEF gaps
    <2>2. Min(gaps) \in gaps /\ \A g \in gaps : Min(gaps) <= g
      BY <2>1, MinOfNats
    <2> QED BY <2>1, <2>2 DEF gaps
  <1>11. ASSUME NEW g \in S \cup N \cup E, g <= Nm(b, c, v)
         PROVE  OutsideLowerBoundNm(c, r) \in Nat /\ OutsideLowerBoundNm(c, r) <= Nm(b, c, v)
    <2>1. g \in Nat
      <3> HIDE DEF S, N, E
      <3> QED BY <1>9
    <2> HIDE DEF S, N, E, gaps
    <2> QED BY <1>2, <1>4, <1>10, <1>11, <2>1
  <1>a. /\ -900 <= c.lat /\ c.lat <= 900 /\ -900 <= p.lat /\ p.lat <= 900
        /\ Abs(c.lon) <= 1800 /\ Abs(p.lon) <= 1800
    BY <1>1, <1>2 DEF OnGlobe, Abs
  <1>12. CASE Cell(p.lat) < Cell(c.lat) - r
    <2>1. south > -900 /\ p.lat < south
      BY <1>6, <1>12, <1>a, <1>2
    <2>2. 6 * (c.lat - south) \in S
      BY <2>1
    <2>3. 6 * (c.lat - south) <= Nm(b, c, v)
      <3>1. c.lat - p.lat <= Abs(c.lat - p.lat) /\ Abs(c.lat - p.lat) \in Nat
        BY <1>2 DEF Abs
      <3>2. c.lat - south <= c.lat - p.lat /\ 6 * Abs(c.lat - p.lat) <= Nm(b, c, v)
        BY <1>2, <1>3, <1>6, <2>1
      <3> QED BY <1>2, <1>6, <3>1, <3>2
    <2> HIDE DEF S, N, E
    <2> QED BY <1>11, <2>2, <2>3
  <1>13. CASE Cell(p.lat) > Cell(c.lat) + r
    <2>1. p.lat >= north
      BY <1>6, <1>13, <1>2
    <2>2. CASE north < 900
      <3>1. 6 * (north - c.lat) \in N
        BY <2>2
      <3>2. 6 * (north - c.lat) <= Nm(b, c, v)
        <4>1. p.lat - c.lat <= Abs(c.lat - p.lat) /\ Abs(c.lat - p.lat) \in Nat
          BY <1>2 DEF Abs
        <4>2. north - c.lat <= p.lat - c.lat /\ 6 * Abs(c.lat - p.lat) <= Nm(b, c, v)
          BY <1>2, <1>3, <1>6, <2>1
        <4> QED BY <1>2, <1>6, <4>1, <4>2
      <3> HIDE DEF S, N, E
      <3> QED BY <1>11, <3>1, <3>2
    <2>3. CASE north >= 900
      <3>1. AtPole(p) /\ 2 * r + 1 < 360
        BY <1>2, <1>6, <1>a, <1>13, <2>1, <2>3 DEF Abs, AtPole
      <3>2. Across[c.lat][t] \in E
        BY <1>8, <3>1
      <3>3. Across[c.lat][t] <= Nm(b, c, v)
        <4>1. Across[c.lat][t] <= DistanceTo[c][p]
          BY <1>3, <3>1, ZenonT(60) DEF ApartByMeridian
        <4> QED BY <1>2, <4>1
      <3> HIDE DEF S, N, E
      <3> QED BY <1>11, <3>2, <3>3
    <2> QED BY <1>2, <1>6, <2>2, <2>3
  <1>14. CASE WrapLon(Cell(p.lon)) \notin cols
    <2>1. 2 * r + 1 < 360 /\ t <= LonGap(c, p)
      <3>1. /\ c.lon \in Int /\ Abs(c.lon) <= 1800 /\ p.lon \in Int /\ Abs(p.lon) <= 1800
            /\ t \in Nat /\ t <= c.lon - 10 * (Cell(c.lon) - r)
            /\ t <= 10 * (Cell(c.lon) + r + 1) - c.lon
            /\ WrapLon(Cell(p.lon)) \notin {WrapLon(WrapLon(Cell(c.lon) + d)) : d \in (-r)..r}
        BY <1>2, <1>8, <1>14, <1>a DEF cols
      <3> QED BY <3>1, EastOrWest, SMTT(30)
    <2>2. Across[c.lat][t] \in E
      BY <1>8, <2>1
    <2>3. Across[c.lat][t] <= Nm(b, c, v)
      <3>1. Across[c.lat][t] <= DistanceTo[c][p]
        BY <1>3, <2>1, ZenonT(60) DEF ApartByMeridian
      <3> QED BY <1>2, <3>1
    <2> HIDE DEF S, N, E
    <2> QED BY <1>11, <2>2, <2>3
  <1> QED BY <1>5, <1>6, <1>12, <1>13, <1>14 DEF Abs

\* The last radius leaves nothing out.
LEMMA Everywhere ==
  ASSUME NEW b, GridOK(b), NEW c \in DOMAIN DistanceTo, OnGlobe(c)
  PROVE  Near(b, c, 180) = DOMAIN b.grid
  <1> DEFINE cols == {WrapLon(WrapLon(Cell(c.lon) + d)) : d \in (-180)..180}
  <1>1. ASSUME NEW v \in DOMAIN b.grid
        PROVE  Abs(b.grid[v].lat - Cell(c.lat)) <= 180 /\ b.grid[v].lon \in cols
    <2> DEFINE p == b.coords[v]
    <2>1. OnGlobe(p) /\ p \in DOMAIN DistanceTo
             /\ b.grid[v] = [lat |-> Cell(p.lat), lon |-> WrapLon(Cell(p.lon))]
      BY DEF GridOK, RebuildGrid, KeyForCoord
    <2>2. /\ c.lat \in Int /\ c.lon \in Int /\ p.lat \in Int /\ p.lon \in Int
      BY <2>1, GlobeAssumption
    <2> HIDE DEF p, cols
    <2>3. /\ -900 <= c.lat /\ c.lat <= 900 /\ -900 <= p.lat /\ p.lat <= 900
          /\ Abs(c.lon) <= 1800 /\ Abs(p.lon) <= 1800
      BY <2>1, <2>2 DEF OnGlobe, Abs
    <2>4. /\ Cell(c.lat) \in Int /\ 10 * Cell(c.lat) <= c.lat /\ c.lat < 10 * Cell(c.lat) + 10
          /\ Cell(p.lat) \in Int /\ 10 * Cell(p.lat) <= p.lat /\ p.lat < 10 * Cell(p.lat) + 10
          /\ Cell(c.lon) \in Int /\ 10 * Cell(c.lon) <= c.lon /\ c.lon < 10 * Cell(c.lon) + 10
      BY <2>2, CellHolds
    <2>5. Abs(Cell(p.lat) - Cell(c.lat)) <= 180
      BY <2>2, <2>3, <2>4 DEF Abs
    <2>6. ASSUME WrapLon(Cell(p.lon)) \notin cols PROVE FALSE
      <3>1. PICK r \in Nat, s \in Nat : r = 180 /\ s = 0
        OBVIOUS
      <3>2. /\ r <= 180 /\ s <= c.lon - 10 * (Cell(c.lon) - r)
            /\ s <= 10 * (Cell(c.lon) + r + 1) - c.lon
        BY <2>2, <2>4, <3>1
      <3>3. WrapLon(Cell(p.lon)) \notin {WrapLon(WrapLon(Cell(c.lon) + d)) : d \in (-r)..r}
        BY <2>6, <3>1 DEF cols
      <3>4. 2 * r + 1 < 360
        BY <2>2, <2>3, <3>2, <3>3, EastOrWest
      <3> QED BY <3>1, <3>4
    <2> QED BY <2>1, <2>5, <2>6
  <1> QED BY <1>1 DEF Near

(***************************************************************************)
(* The search of the grid.                                                 *)
(***************************************************************************)
\* What it is to report: the nearest of the whole network.
FullScan(b, c, count, isInbound) ==
    LET mask == IF isInbound THEN b.inbound ELSE b.outbound
        all  == ByDistance(b, c, {v \in mask : OnGlobe(b.coords[v])})
    IN  IF OnGlobe(c) THEN SubSeq(all, 1, Min({count, Len(all)})) ELSE <<>>

LEMMA MinOfTwo ==
  ASSUME NEW m \in Int, NEW n \in Int
  PROVE  Min({m, n}) = IF m <= n THEN m ELSE n
  BY DEF Min

\* A list by distance is a sequence of its candidates.
LEMMA ByDistanceType ==
  ASSUME NEW b, NEW c, NEW S, Listable(b, c, S)
  PROVE  ByDistance(b, c, S) \in Seq(S) /\ Len(ByDistance(b, c, S)) = Cardinality(S)
  <1>1. Cardinality(S) \in Nat
    BY FS_CardinalityType DEF Listable
  <1> DEFINE nth(i) == CHOOSE v \in S : Cardinality(Before(b, c, S, v)) = i - 1
  <1>2. ByDistance(b, c, S) = [i \in 1..Cardinality(S) |-> nth(i)]
    BY ByDistanceIs
  <1> HIDE DEF nth
  <1>3. ASSUME NEW i \in 1..Cardinality(S) PROVE nth(i) \in S
    <2>1. ByDistance(b, c, S)[i] \in S
      BY Ranks
    <2> QED BY <1>2, <2>1
  <1>4. ByDistance(b, c, S) \in [1..Cardinality(S) -> S]
    BY <1>2, <1>3
  <1> QED BY <1>1, <1>4

\* The candidates of a network that stand on the globe.
LEMMA OnTheGrid ==
  ASSUME NEW b, GridOK(b), NEW c \in DOMAIN DistanceTo, NEW mask \in {b.inbound, b.outbound}
  PROVE  /\ {v \in mask : OnGlobe(b.coords[v])} = DOMAIN b.grid \cap mask
         /\ Listable(b, c, DOMAIN b.grid \cap mask)
  <1>1. mask \subseteq 0..(b.firstAirport - 1) /\ b.firstAirport \in Nat
    BY DEF GridOK
  <1>2. DOMAIN b.grid = {w \in 0..(b.firstAirport - 1) : OnGlobe(b.coords[w])}
    BY DEF GridOK, RebuildGrid
  <1>3. IsFiniteSet(0..(b.firstAirport - 1))
    BY <1>1, FS_Interval
  <1>4. IsFiniteSet(DOMAIN b.grid \cap mask)
    BY <1>1, <1>3, FS_Subset
  <1>5. \A v \in 0..(b.firstAirport - 1) : Nm(b, c, v) \in Nat
    BY GlobeAssumption DEF Nm, GridOK
  <1> QED BY <1>1, <1>2, <1>4, <1>5 DEF Listable

\* A search that has settled agrees with the whole scan as far as it is asked to.
LEMMA SettledAgrees ==
  ASSUME NEW b, GridOK(b), NEW c \in DOMAIN DistanceTo, OnGlobe(c), NEW n \in Nat \ {0},
         NEW r \in Nat, r <= 180, NEW A, A \subseteq DOMAIN b.grid, Listable(b, c, A),
         NEW S, S = Near(b, c, r) \cap A, Settled(b, c, ByDistance(b, c, S), n, r)
  PROVE  /\ n <= Cardinality(S) /\ n <= Cardinality(A)
         /\ \A i \in 1..n : ByDistance(b, c, S)[i] = ByDistance(b, c, A)[i]
  <1> DEFINE u(i) == ByDistance(b, c, S)[i]
             bound == OutsideLowerBoundNm(c, r)
  <1>1. /\ IsFiniteSet(A) /\ Cardinality(A) \in Nat /\ IsFiniteSet(S) /\ Cardinality(S) \in Nat
        /\ Cardinality(S) <= Cardinality(A)
    BY FS_Subset, FS_CardinalityType DEF Listable
  <1>2. Listable(b, c, S)
    BY <1>1 DEF Listable
  <1>3. n <= Cardinality(S) /\ n \in 1..Cardinality(S) /\ Nm(b, c, u(n)) < bound
    BY <1>1, <1>2, ByDistanceType DEF Settled, Nm
  <1>4. ASSUME NEW i \in 1..n PROVE ByDistance(b, c, S)[i] = ByDistance(b, c, A)[i]
    <2>1. i \in 1..Cardinality(S)
      BY <1>1, <1>3
    <2>2. /\ u(i) \in S /\ Cardinality(Before(b, c, S, u(i))) = i - 1
          /\ u(n) \in S /\ Cardinality(Before(b, c, S, u(n))) = n - 1
      BY <1>2, <1>3, <2>1, Ranks
    <2> HIDE DEF u, bound
    <2>3. ~Nearer(b, c, u(n), u(i))
      <3>1. Nearer(b, c, u(n), u(i)) =>
              Cardinality(Before(b, c, S, u(n))) < Cardinality(Before(b, c, S, u(i)))
        BY <1>2, <2>2, BeforeGrows
      <3> QED BY <2>2, <3>1
    <2>4. Nm(b, c, u(i)) <= Nm(b, c, u(n)) /\ Nm(b, c, u(i)) \in Nat /\ Nm(b, c, u(n)) \in Nat
      BY <1>2, <2>2, <2>3 DEF Nearer, Listable
    <2>5. ASSUME NEW v \in A \ S PROVE ~Nearer(b, c, v, u(i))
      <3>1. v \in DOMAIN b.grid /\ v \notin Near(b, c, r) /\ Nm(b, c, v) \in Nat
        BY DEF Listable
      <3>2. bound \in Nat /\ bound <= Nm(b, c, v)
        BY <3>1, Outside DEF bound
      <3> QED BY <1>3, <2>4, <3>1, <3>2 DEF Nearer
    <2>6. S \in SUBSET A /\ \A v \in A \ S : ~Nearer(b, c, v, ByDistance(b, c, S)[i])
      BY <2>5 DEF u
    <2> QED BY <2>1, <2>6, Agrees
  <1> QED BY <1>1, <1>3, <1>4

\* The nearest fixes reported are those of a scan of the whole network.
LEMMA NearestScans ==
  ASSUME NEW b, GridOK(b), NEW c \in DOMAIN DistanceTo, NEW n \in Int, NEW isInbound
  PROVE  NearestOnNetwork(b, c, n, isInbound) = FullScan(b, c, n, isInbound)
  <1> DEFINE mask     == IF isInbound THEN b.inbound ELSE b.outbound
             A        == DOMAIN b.grid \cap mask
             S(r)     == Near(b, c, r) \cap mask
             list(T)  == ByDistance(b, c, T)
             done     == {i \in DOMAIN Radii : Settled(b, c, list(S(Radii[i])), n, Radii[i])}
             k        == Min(done \cup {Len(Radii)})
             r        == Radii[k]
  <1>1. {v \in mask : OnGlobe(b.coords[v])} = A /\ Listable(b, c, A)
    BY OnTheGrid
  <1>2. FullScan(b, c, n, isInbound) =
          IF OnGlobe(c) THEN SubSeq(list(A), 1, Min({n, Len(list(A))})) ELSE <<>>
    BY <1>1 DEF FullScan
  <1>3. NearestOnNetwork(b, c, n, isInbound) =
          IF n <= 0 \/ ~OnGlobe(c) THEN <<>>
          ELSE SubSeq(list(S(r)), 1, Min({n, Len(list(S(r)))}))
    BY DEF NearestOnNetwork
  <1>4. list(A) \in Seq(A) /\ Len(list(A)) = Cardinality(A)
    BY <1>1, ByDistanceType
  <1>5. CASE ~OnGlobe(c)
    BY <1>2, <1>3, <1>5
  <1>6. CASE OnGlobe(c) /\ n <= 0
    <2> HIDE DEF A
    <2>1. Len(list(A)) \in Nat
      BY <1>4
    <2>2. Min({n, Len(list(A))}) = n
      BY <1>6, <2>1, MinOfTwo
    <2>3. SubSeq(list(A), 1, n) = <<>>
      BY <1>4, <1>6
    <2> QED BY <1>2, <1>3, <1>6, <2>2, <2>3
  <1>7. CASE OnGlobe(c) /\ n > 0
    <2>1. DOMAIN Radii = 1..8 /\ Len(Radii) = 8 /\ Radii[8] = 180
             /\ \A i \in 1..8 : Radii[i] \in Nat /\ Radii[i] <= 180
      BY DEF Radii
    <2>2. k \in done \/ k = 8
      <3>1. done \cup {Len(Radii)} \in SUBSET Nat /\ done \cup {Len(Radii)} # {}
        BY <2>1
      <3> HIDE DEF done
      <3>2. k \in done \cup {Len(Radii)}
        BY <3>1, MinOfNats
      <3> QED BY <2>1, <3>2
    <2>3. PICK R \in Nat, T \in SUBSET A :
             /\ R <= 180 /\ T = Near(b, c, R) \cap A
             /\ Settled(b, c, list(T), n, R) \/ R = 180
             /\ NearestOnNetwork(b, c, n, isInbound) = SubSeq(list(T), 1, Min({n, Len(list(T))}))
      <3>1. r \in Nat /\ r <= 180 /\ (Settled(b, c, list(S(r)), n, r) \/ r = 180)
        BY <2>1, <2>2
      <3>2. S(r) = Near(b, c, r) \cap A
        BY DEF Near
      <3>3. NearestOnNetwork(b, c, n, isInbound) =
              SubSeq(list(S(r)), 1, Min({n, Len(list(S(r)))}))
        <4> HIDE DEF r, S
        <4>1. ~(n <= 0)
          BY <1>7
        <4> QED BY <1>3, <1>7, <4>1, Zenon
      <3> HIDE DEF r, S, A
      <3> QED BY <3>1, <3>2, <3>3
    <2>4. FullScan(b, c, n, isInbound) = SubSeq(list(A), 1, Min({n, Len(list(A))}))
      BY <1>2, <1>7, Zenon
    <2>5. A \subseteq DOMAIN b.grid /\ n \in Nat \ {0}
      BY <1>7
    <2> HIDE DEF A, S, r, k, done, mask
    <2>6. CASE R = 180
      <3>1. T = A
        BY <1>7, <2>3, <2>5, <2>6, Everywhere
      <3> QED BY <2>3, <2>4, <3>1
    <2>7. CASE Settled(b, c, list(T), n, R)
      <3>1. /\ n <= Cardinality(T) /\ n <= Cardinality(A)
            /\ \A i \in 1..n : list(T)[i] = list(A)[i]
        <4>1. /\ OnGlobe(c) /\ R <= 180 /\ T = Near(b, c, R) \cap A
              /\ A \subseteq DOMAIN b.grid /\ Listable(b, c, A) /\ n \in Nat \ {0}
          BY <1>1, <1>7, <2>3, <2>5
        <4> QED BY <2>7, <4>1, SettledAgrees
      <3>2. Listable(b, c, T)
        <4>1. IsFiniteSet(A) /\ T \subseteq A
          BY <1>1, <2>3 DEF Listable
        <4>2. IsFiniteSet(T)
          BY <4>1, FS_Subset
        <4> QED BY <1>1, <4>1, <4>2 DEF Listable
      <3>3. /\ Len(list(T)) = Cardinality(T) /\ Cardinality(T) \in Nat
            /\ Cardinality(A) \in Nat
        BY <1>1, <3>2, ByDistanceType, FS_CardinalityType DEF Listable
      <3>4. Min({n, Len(list(A))}) = n /\ Min({n, Len(list(T))}) = n
        BY <1>4, <3>1, <3>3, MinOfTwo
      <3>5. SubSeq(list(T), 1, n) = SubSeq(list(A), 1, n)
        BY <3>1
      <3> HIDE DEF list
      <3> QED BY <2>3, <2>4, <3>4, <3>5
    <2> QED BY <2>3, <2>6, <2>7
  <1> QED BY <1>5, <1>6, <1>7

(***************************************************************************)
(* Sequences of sequences.                                                 *)
(***************************************************************************)
\* The recursion that defines FlattenSeq.
IsFlat(f, s, n) == f = [i \in 1..n |-> IF i = 1 THEN s[i] ELSE f[i - 1] \o s[i]]

\* It has a solution for every length.
LEMMA FlatExists ==
  ASSUME NEW s, NEW n \in Nat
  PROVE  \E f : IsFlat(f, s, n)
  <1> DEFINE T == {k \in Nat : \E f : IsFlat(f, s, k)}
  <1>1. 0 \in T
    <2>1. IsFlat([i \in 1..0 |-> 0], s, 0)
      BY DEF IsFlat
    <2> QED BY <2>1
  <1>2. ASSUME NEW k \in Nat, k \in T PROVE k + 1 \in T
    <2>1. PICK f : IsFlat(f, s, k)
      BY <1>2
    <2> DEFINE g == [i \in 1..(k + 1) |->
                       IF i = k + 1 THEN IF i = 1 THEN s[i] ELSE f[k] \o s[i] ELSE f[i]]
    <2>2. ASSUME NEW i \in 1..(k + 1)
          PROVE  g[i] = IF i = 1 THEN s[i] ELSE g[i - 1] \o s[i]
      <3>1. CASE i = k + 1
        BY <3>1
      <3>2. CASE i # k + 1
        <4>1. i \in 1..k /\ g[i] = f[i] /\ (i # 1 => g[i - 1] = f[i - 1])
          BY <3>2
        <4>2. f[i] = IF i = 1 THEN s[i] ELSE f[i - 1] \o s[i]
          BY <2>1, <4>1 DEF IsFlat
        <4> QED BY <4>1, <4>2
      <3> QED BY <3>1, <3>2
    <2>3. IsFlat(g, s, k + 1)
      BY <2>2 DEF IsFlat
    <2> QED BY <2>3
  <1> HIDE DEF T
  <1>3. Nat \subseteq T
    BY <1>1, <1>2, NatSetInduction
  <1> QED BY <1>3 DEF T

\* Two solutions agree as far as the sequences do.
LEMMA FlatUnique ==
  ASSUME NEW n \in Nat, NEW m \in Nat, n <= m, NEW s, NEW t, NEW f, NEW g,
         IsFlat(f, s, n), IsFlat(g, t, m), \A i \in 1..n : s[i] = t[i],
         NEW k \in 1..n
  PROVE  f[k] = g[k]
  <1> DEFINE T == {i \in Nat : i \in 1..n => f[i] = g[i]}
  <1>1. 0 \in T
    OBVIOUS
  <1>2. ASSUME NEW i \in Nat, i \in T PROVE i + 1 \in T
    <2> SUFFICES ASSUME i + 1 \in 1..n PROVE f[i + 1] = g[i + 1]
      OBVIOUS
    <2> DEFINE j == i + 1
    <2>1. j \in 1..n /\ j \in 1..m /\ j - 1 = i /\ s[j] = t[j] /\ (j # 1 => i \in 1..n)
      OBVIOUS
    <2>2. f[j] = IF j = 1 THEN s[j] ELSE f[j - 1] \o s[j]
      BY <2>1 DEF IsFlat
    <2>3. g[j] = IF j = 1 THEN t[j] ELSE g[j - 1] \o t[j]
      BY <2>1 DEF IsFlat
    <2> HIDE DEF j
    <2>4. f[j] = g[j]
      BY <1>2, <2>1, <2>2, <2>3
    <2> QED BY <2>4 DEF j
  <1> HIDE DEF T
  <1>3. Nat \subseteq T
    BY <1>1, <1>2, NatSetInduction
  <1> QED BY <1>3 DEF T

\* FlattenSeq is the last element of a solution.
LEMMA FlatIs ==
  ASSUME NEW s, Len(s) \in Nat \ {0}
  PROVE  \E f : IsFlat(f, s, Len(s)) /\ FlattenSeq(s) = f[Len(s)]
  <1> DEFINE f == CHOOSE f : IsFlat(f, s, Len(s))
  <1>1. IsFlat(f, s, Len(s))
    BY FlatExists
  <1>2. FlattenSeq(s) = f[Len(s)]
    BY DEF FlattenSeq, IsFlat
  <1> QED BY <1>1, <1>2

\* Nothing put together is nothing.
LEMMA FlatEmpty == FlattenSeq(<<>>) = <<>>
  BY DEF FlattenSeq

\* One sequence more is appended to the others.
LEMMA FlatAppend ==
  ASSUME NEW S, NEW u \in Seq(Seq(S)), NEW x \in Seq(S)
  PROVE  FlattenSeq(Append(u, x)) = FlattenSeq(u) \o x
  <1> DEFINE v == Append(u, x)
             n == Len(u)
  <1>1. n \in Nat /\ Len(v) = n + 1 /\ v[n + 1] = x /\ \A i \in 1..n : v[i] = u[i]
    OBVIOUS
  <1>a. n = 0 => u = <<>>
    OBVIOUS
  <1> HIDE DEF n, v
  <1>2. PICK g : IsFlat(g, v, n + 1) /\ FlattenSeq(v) = g[n + 1]
    BY <1>1, FlatIs
  <1>3. g[n + 1] = IF n + 1 = 1 THEN x ELSE g[n] \o x
    <2>1. n + 1 \in 1..(n + 1) /\ (n + 1) - 1 = n
      BY <1>1
    <2>2. g[n + 1] = IF n + 1 = 1 THEN v[n + 1] ELSE g[(n + 1) - 1] \o v[n + 1]
      BY <1>2, <2>1 DEF IsFlat
    <2> QED BY <1>1, <2>1, <2>2
  <1>4. CASE n = 0
    <2>1. u = <<>> /\ FlattenSeq(u) = <<>>
      BY <1>a, <1>4, FlatEmpty
    <2>2. <<>> \o x = x
      OBVIOUS
    <2>3. FlattenSeq(v) = x
      BY <1>2, <1>3, <1>4
    <2> QED BY <2>1, <2>2, <2>3 DEF v
  <1>5. CASE n # 0
    <2>1. PICK f : IsFlat(f, u, n) /\ FlattenSeq(u) = f[n]
      BY <1>1, <1>5, FlatIs DEF n
    <2>2. f[n] = g[n]
      <3>1. n + 1 \in Nat /\ n <= n + 1 /\ n \in 1..n
        BY <1>1, <1>5
      <3> QED BY <1>1, <1>2, <2>1, <3>1, FlatUnique
    <2>3. FlattenSeq(v) = g[n] \o x
      BY <1>1, <1>2, <1>3, <1>5
    <2> QED BY <2>1, <2>2, <2>3 DEF v
  <1> QED BY <1>4, <1>5

\* The last element of a sequence that has one, split off.
LEMMA SplitLast ==
  ASSUME NEW S, NEW v \in Seq(Seq(S)), NEW k \in Nat, Len(v) = k + 1
  PROVE  /\ SubSeq(v, 1, k) \in Seq(Seq(S)) /\ v[k + 1] \in Seq(S)
         /\ Len(SubSeq(v, 1, k)) = k
         /\ v = Append(SubSeq(v, 1, k), v[k + 1])
  OBVIOUS

\* What is put together of sequences over S is one.
LEMMA FlatType ==
  ASSUME NEW S, NEW u \in Seq(Seq(S))
  PROVE  FlattenSeq(u) \in Seq(S)
  <1> DEFINE T == {k \in Nat : \A v \in Seq(Seq(S)) : Len(v) = k => FlattenSeq(v) \in Seq(S)}
  <1>1. 0 \in T
    <2>1. ASSUME NEW v \in Seq(Seq(S)), Len(v) = 0 PROVE FlattenSeq(v) \in Seq(S)
      <3>1. v = <<>>
        BY <2>1, EmptySeq
      <3> QED BY <3>1, FlatEmpty, EmptySeq
    <2> QED BY <2>1
  <1>2. ASSUME NEW k \in Nat, k \in T PROVE k + 1 \in T
    <2>1. ASSUME NEW v \in Seq(Seq(S)), Len(v) = k + 1 PROVE FlattenSeq(v) \in Seq(S)
      <3> DEFINE w == SubSeq(v, 1, k)
                 x == v[k + 1]
      <3>1. w \in Seq(Seq(S)) /\ x \in Seq(S) /\ Len(w) = k /\ v = Append(w, x)
        BY <2>1, SplitLast
      <3> HIDE DEF w, x
      <3>2. FlattenSeq(w) \in Seq(S)
        BY <1>2, <3>1
      <3>3. FlattenSeq(v) = FlattenSeq(w) \o x
        BY <3>1, FlatAppend
      <3> QED BY <3>1, <3>2, <3>3, ConcatProperties
    <2> QED BY <2>1
  <1> HIDE DEF T
  <1>3. Nat \subseteq T
    BY <1>1, <1>2, NatSetInduction
  <1>4. Len(u) \in T
    BY <1>3, LenProperties
  <1> QED BY <1>4 DEF T

(***************************************************************************)
(* What Populate makes.                                                    *)
(***************************************************************************)
Waypoints(b) == 0..(b.firstAirport - 1)
IndexOK(b)   == b.index = RebuildIndices(b.idents, b.firstAirport)

\* What a name and region are indexed to are waypoints.
LEMMA IndexedAreWaypoints ==
  ASSUME NEW b, b.firstAirport \in Nat, IndexOK(b), NEW ident
  PROVE  Under(b.index.ident, ident) \in Seq(Waypoints(b))
  <1> DEFINE W == Waypoints(b)
             T == {v \in W : b.idents[v] = ident}
  <1>1. b.index.ident = [k \in {b.idents[v] : v \in W} |-> Ascending({v \in W : b.idents[v] = k})]
    BY DEF IndexOK, RebuildIndices, IndexBy, Waypoints
  <1>2. Under(b.index.ident, ident) = IF ident \in {b.idents[v] : v \in W} THEN Ascending(T) ELSE <<>>
    BY <1>1 DEF Under
  <1>3. W \subseteq Nat /\ IsFiniteSet(W)
    BY FS_Interval, SMTT(30) DEF Waypoints
  <1>4. T \in SUBSET Nat /\ T \subseteq W /\ IsFiniteSet(T)
    BY <1>3, FS_Subset
  <1> HIDE DEF T, W
  <1>5. Ascending(T) \in Seq(W)
    BY <1>4, AscendingType
  <1>6. <<>> \in Seq(W)
    BY EmptySeq
  <1> QED BY <1>2, <1>5, <1>6 DEF W

\* An end of an airway resolves to a waypoint or to nothing.
LEMMA ResolvesToWaypoint ==
  ASSUME NEW b, GridOK(b), IndexOK(b), NEW ident, NEW hint \in DOMAIN DistanceTo \cup {NoHint}
  PROVE  ResolveEnd(b, ident, hint) \in Waypoints(b) \cup {kNoVertex}
  <1> DEFINE s == Under(b.index.ident, ident)
             W == Waypoints(b)
  <1>1. s \in Seq(W)
    BY IndexedAreWaypoints DEF GridOK
  <1>2. FirstOf(s) \in W \cup {kNoVertex} /\ ToSet(s) \subseteq W
    <2> HIDE DEF s, W
    <2>1. FirstOf(s) \in W \cup {kNoVertex}
      BY <1>1 DEF FirstOf
    <2>2. \A i \in DOMAIN s : s[i] \in W
      BY <1>1
    <2> QED BY <2>1, <2>2 DEF ToSet
  <1>3. CASE hint # NoHint
    <2> DEFINE nm(v)  == DistanceTo[hint][b.coords[v]]
               inside == {v \in ToSet(s) : nm(v) <= kFixHintToleranceNm}
               least  == {v \in inside : \A w \in inside : nm(v) <= nm(w)}
    <2>1. VertexNear(b, ident, hint, kFixHintToleranceNm) =
            IF inside = {} THEN kNoVertex ELSE Min(least)
      BY DEF VertexNear
    <2>2. inside \subseteq W /\ W \subseteq Nat
      BY <1>2 DEF Waypoints, GridOK
    <2>3. \A v \in W : nm(v) \in Nat
      BY <1>3, GlobeAssumption DEF GridOK, Waypoints
    <2> HIDE DEF inside, nm, W
    <2>4. CASE inside # {}
      <3> DEFINE N == {nm(v) : v \in inside}
      <3>1. N \in SUBSET Nat /\ N # {}
        BY <2>2, <2>3, <2>4
      <3>2. PICK m \in N : \A k \in N : m <= k
        <4> HIDE DEF N
        <4> QED BY <3>1, LeastNat
      <3>3. least \in SUBSET Nat /\ least # {}
        <4>1. PICK u \in inside : nm(u) = m
          BY <3>2
        <4>2. \A w \in inside : nm(u) <= nm(w)
          BY <3>2, <4>1
        <4> QED BY <2>2, <4>1, <4>2
      <3>4. Min(least) \in least
        <4> HIDE DEF least
        <4> QED BY <3>3, MinOfNats
      <3> QED BY <2>1, <2>2, <2>4, <3>4, <1>3 DEF ResolveEnd, W
    <2> QED BY <2>1, <2>4, <1>3 DEF ResolveEnd
  <1> QED BY <1>2, <1>3 DEF ResolveEnd, VertexByIdent

\* What the assumptions say of a data set.
DataOK(data) ==
    /\ data.waypoints \in Seq(ToSet(data.waypoints))
    /\ data.airports \in Seq(ToSet(data.airports))
    /\ data.airways \in Seq(ToSet(data.airways))
    /\ \A p \in ToSet(data.waypoints) : p.coord \in DOMAIN DistanceTo
    /\ \A c \in ToSet(data.airways) :
          {c.from_hint, c.to_hint} \subseteq DOMAIN DistanceTo \cup {NoHint}

\* The builder before it has airways.
Bare(data) ==
    FromSnapshot([coords |-> FromZero(Vertices(data), LAMBDA p : p.coord),
                  idents |-> FromZero(Vertices(data), LAMBDA p : p.ident),
                  firstAirport |-> Len(data.waypoints), names |-> <<>>, rows |-> <<>>,
                  outbound |-> {}, inbound |-> {}])

LEMMA BareOK ==
  ASSUME NEW data, DataOK(data)
  PROVE  GridOK(Bare(data)) /\ IndexOK(Bare(data))
  <1> DEFINE b == Bare(data)
             w == data.waypoints
             a == [i \in DOMAIN data.airports |->
                     [ident |-> data.airports[i].ident, coord |-> data.airports[i].coord,
                      kind |-> "kFix"]]
  <1>1. /\ b.firstAirport = Len(w) /\ b.inbound = {} /\ b.outbound = {}
        /\ b.grid = RebuildGrid(b.coords, b.firstAirport)
        /\ b.index = RebuildIndices(b.idents, b.firstAirport)
        /\ b.coords = [v \in 0..(Len(Vertices(data)) - 1) |-> Vertices(data)[v + 1].coord]
    BY DEF Bare, FromSnapshot, FromZero
  <1>2. w \in Seq(ToSet(w)) /\ Len(w) \in Nat
    BY DEF DataOK
  <1>3. a \in Seq({a[i] : i \in DOMAIN data.airports})
    <2>1. Len(data.airports) \in Nat /\ DOMAIN data.airports = 1..Len(data.airports)
      BY DEF DataOK
    <2>2. \A i \in 1..Len(data.airports) : a[i] \in {a[j] : j \in DOMAIN data.airports}
      BY <2>1
    <2>3. a = [i \in 1..Len(data.airports) |-> a[i]]
      BY <2>1
    <2> HIDE DEF a
    <2> QED BY <2>1, <2>2, <2>3
  <1>4. Vertices(data) = w \o a
    BY DEF Vertices
  <1> HIDE DEF a, w, b
  <1>5. /\ Len(w \o a) = Len(w) + Len(a) /\ Len(a) \in Nat
        /\ \A i \in 1..Len(w) : (w \o a)[i] = w[i]
    BY <1>2, <1>3
  <1>6. ASSUME NEW v \in 0..(Len(w) - 1) PROVE b.coords[v] \in DOMAIN DistanceTo
    <2>1. v + 1 \in 1..Len(w) /\ v \in 0..(Len(w \o a) - 1)
      BY <1>2, <1>5
    <2>2. w[v + 1] \in ToSet(w)
      BY <1>2, <2>1
    <2>3. b.coords[v] = w[v + 1].coord
      BY <1>1, <1>4, <1>5, <2>1
    <2> QED BY <2>2, <2>3 DEF DataOK, w
  <1>7. GridOK(b)
    BY <1>1, <1>2, <1>6 DEF GridOK
  <1>8. IndexOK(b)
    BY <1>1 DEF IndexOK
  <1> QED BY <1>7, <1>8, SMTT(30) DEF b

\* The parts a lookup by position reads are kept when airways and rows are added.
LookupParts == {"coords", "firstAirport", "grid", "inbound", "outbound"}

LEMMA WithRowsOK ==
  ASSUME NEW data, DataOK(data), NEW names, NEW overflow, NEW E, NEW edges \in Seq(E),
         \A e \in E : e.from \in Waypoints(Bare(data)) /\ e.to \in Waypoints(Bare(data))
  PROVE  LET b == WithRows([Bare(data) EXCEPT !.names = names, !.overflow = overflow], edges)
         IN  GridOK(b) /\ LookupParts \subseteq DOMAIN b
  <1> DEFINE a == Bare(data)
             b == WithRows([a EXCEPT !.names = names, !.overflow = overflow], edges)
  <1>1. GridOK(a)
    BY BareOK
  <1>2. LookupParts \subseteq DOMAIN a
    BY DEF Bare, FromSnapshot, LookupParts
  <1> HIDE DEF a
  <1>3. /\ DOMAIN b = DOMAIN a /\ b.coords = a.coords /\ b.firstAirport = a.firstAirport
        /\ b.grid = a.grid
        /\ b.outbound = {edges[i].from : i \in DOMAIN edges}
        /\ b.inbound = {edges[i].to : i \in DOMAIN edges}
    BY <1>2 DEF WithRows, LookupParts
  <1>4. \A i \in DOMAIN edges : edges[i].from \in Waypoints(a) /\ edges[i].to \in Waypoints(a)
    BY DEF a
  <1> HIDE DEF b
  <1>5. GridOK(b)
    BY <1>1, <1>3, <1>4 DEF GridOK, Waypoints
  <1> QED BY <1>2, <1>3, <1>5 DEF a, b

\* The edges of an airway join waypoints, so the flags are on waypoints.
LEMMA PopulateOK ==
  ASSUME NEW data, DataOK(data)
  PROVE  GridOK(Populate(data)) /\ LookupParts \subseteq DOMAIN Populate(data)
  <1> DEFINE bare     == Bare(data)
             from(c)  == ResolveEnd(bare, c.from, c.from_hint)
             to(c)    == ResolveEnd(bare, c.to, c.to_hint)
             ends(c)  == from(c) # kNoVertex /\ to(c) # kNoVertex
             used     == SelectSeq(data.airways, ends)
             table    == AirwayTable([i \in DOMAIN used |-> used[i].name])
             id(c)    == AirwayIdFor(table, c.name)
             edges(c) == IF ends(c) /\ id(c) >= 0 THEN EdgesOf(bare, c, from(c), to(c), id(c))
                         ELSE <<>>
             lists    == [i \in DOMAIN data.airways |-> edges(data.airways[i])]
             overflow == \E i \in DOMAIN used : id(used[i]) < 0
             W        == Waypoints(bare)
             joins(e) == e.from \in W /\ e.to \in W
             edge(c, u, v) == [from |-> u, to |-> v, airway_id |-> id(c),
                               distance_nm |-> DistanceTo[bare.coords[u]][bare.coords[v]],
                               level |-> c.level, base_fl |-> c.base_fl, top_fl |-> c.top_fl]
             A        == ToSet(data.airways)
             E        == {edge(c, u, v) : c \in A, u \in W, v \in W}
  <1>1. Populate(data) =
          WithRows([bare EXCEPT !.names = table, !.overflow = overflow], FlattenSeq(lists))
    BY DEF Populate, Bare
  <1>2. GridOK(bare) /\ IndexOK(bare)
    BY BareOK
  <1>3. \A e \in E : joins(e)
    <2> HIDE DEF id, bare, W, A
    <2> QED OBVIOUS
  <1>4. ASSUME NEW c \in A PROVE edges(c) \in Seq(E)
    <2>1. <<>> \in Seq(E)
      BY EmptySeq
    <2>2. CASE ends(c)
      <3>1. {c.from_hint, c.to_hint} \subseteq DOMAIN DistanceTo \cup {NoHint}
        BY DEF DataOK
      <3>2. from(c) \in W /\ to(c) \in W
        BY <1>2, <2>2, <3>1, ResolvesToWaypoint
      <3>3. edge(c, from(c), to(c)) \in E /\ edge(c, to(c), from(c)) \in E
        <4> HIDE DEF id, bare, from, to, W, A
        <4> QED BY <3>2
      <3>4. EdgesOf(bare, c, from(c), to(c), id(c)) =
              (IF c.direction # "kBackward" THEN <<edge(c, from(c), to(c))>> ELSE <<>>)
                \o (IF c.direction # "kForward" THEN <<edge(c, to(c), from(c))>> ELSE <<>>)
        BY DEF EdgesOf
      <3> HIDE DEF E, edge, from, to, id, bare, W
      <3>5. EdgesOf(bare, c, from(c), to(c), id(c)) \in Seq(E)
        BY <2>1, <3>3, <3>4
      <3> QED BY <2>1, <3>5
    <2> HIDE DEF ends, E
    <2> QED BY <2>1, <2>2
  <1>5. FlattenSeq(lists) \in Seq(E)
    <2>1. Len(data.airways) \in Nat /\ DOMAIN data.airways = 1..Len(data.airways)
             /\ \A i \in DOMAIN data.airways : data.airways[i] \in A
      BY DEF DataOK
    <2> HIDE DEF edges, E, A
    <2>2. lists \in Seq(Seq(E))
      BY <1>4, <2>1
    <2> HIDE DEF lists
    <2> QED BY <2>2, FlatType
  <1> HIDE DEF lists, E, table, overflow
  <1>6. \A e \in E : e.from \in Waypoints(Bare(data)) /\ e.to \in Waypoints(Bare(data))
    BY <1>3
  <1> HIDE DEF bare
  <1> QED BY <1>1, <1>5, <1>6, WithRowsOK DEF bare

\* A builder restored from a snapshot answers as the one that was stored.
LEMMA RestoredOK ==
  ASSUME NEW b, GridOK(b)
  PROVE  GridOK(FromSnapshot(ToSnapshot(b))) /\ LookupParts \subseteq DOMAIN FromSnapshot(ToSnapshot(b))
  BY DEF GridOK, FromSnapshot, ToSnapshot, LookupParts

\* The index of airways is added beside the rest.
LEMMA OpenedOK ==
  ASSUME NEW b, GridOK(b), LookupParts \subseteq DOMAIN b
  PROVE  GridOK(Opened(b))
  BY DEF GridOK, Opened, LookupParts

(***************************************************************************)
(* The invariant.                                                          *)
(***************************************************************************)
\* An open database can be asked by position.
Built == step \notin {"load", "done"} => GridOK(db)

PInv == world \in Worlds /\ Built /\ NearestIsFullScan

LEMMA InitPInv == Init => PInv
  BY DEF Init, PInv, Built, NearestIsFullScan

LEMMA NextPInv == PInv /\ [Next]_vars => PInv'
  <1> SUFFICES ASSUME PInv, [Next]_vars PROVE PInv'
    OBVIOUS
  <1>1. world \in Worlds /\ Built
    BY DEF PInv
  <1>2. CASE Build
    <2> DEFINE built == Populate(world.nav)
    <2>1. DataOK(world.nav)
      BY <1>1, WorldsAssumption DEF DataOK
    <2>2. GridOK(built) /\ LookupParts \subseteq DOMAIN built
      BY <2>1, PopulateOK
    <2> HIDE DEF built
    <2>3. PICK b \in {built, FromSnapshot(ToSnapshot(built))} : db' = Opened(b)
      BY <1>2 DEF Build, built
    <2>4. GridOK(b) /\ LookupParts \subseteq DOMAIN b
      BY <2>2, <2>3, RestoredOK
    <2>5. GridOK(db')
      BY <2>3, <2>4, OpenedOK
    <2>6. step' = "open" /\ world' = world
      BY <1>2 DEF Build
    <2>7. Built'
      BY <2>5 DEF Built, GridOK
    <2> QED BY <1>1, <2>6, <2>7 DEF PInv, NearestIsFullScan
  <1>3. CASE Nearest
    <2>1. step = "open" /\ db' = db /\ world' = world /\ step' = "nearest"
      BY <1>3 DEF Nearest
    <2>2. GridOK(db)
      BY <1>1, <2>1 DEF Built
    <2>3. PICK q \in Positions :
             asked' = q /\ found' = NearestOnNetwork(db, q.coord, q.count, q.inbound)
      BY <1>3 DEF Nearest
    <2>4. q.coord \in DOMAIN DistanceTo /\ q.count \in Int
      BY WorldsAssumption
    <2>5. found' = FullScan(db, q.coord, q.count, q.inbound)
      BY <2>2, <2>3, <2>4, NearestScans
    <2>6. NearestIsFullScan'
      BY <2>1, <2>3, <2>5 DEF NearestIsFullScan, FullScan
    <2>7. Built'
      BY <2>1, <2>2 DEF Built, GridOK
    <2> QED BY <1>1, <2>1, <2>6, <2>7 DEF PInv
  <1>4. ASSUME db' = db, world' = world, step \notin {"load", "done"}, step' # "nearest"
        PROVE  PInv'
    <2>1. Built'
      BY <1>1, <1>4 DEF Built, GridOK
    <2> QED BY <1>1, <1>4, <2>1 DEF PInv, NearestIsFullScan
  <1>5. CASE BuildRefused
    BY <1>1, <1>5 DEF BuildRefused, PInv, Built, NearestIsFullScan
  <1>6. CASE FindRoutes
    BY <1>4, <1>6 DEF FindRoutes
  <1>7. CASE PlanNextEnd
    BY <1>4, <1>7 DEF PlanNextEnd
  <1>8. CASE ResolveVias
    BY <1>4, <1>8 DEF ResolveVias
  <1>9. CASE Search
    BY <1>4, <1>9 DEF Search
  <1>10. CASE FileBack
    BY <1>4, <1>10 DEF FileBack
  <1>11. CASE FileByHand
    BY <1>4, <1>11 DEF FileByHand
  <1>12. CASE UNCHANGED vars
    <2>1. NearestIsFullScan'
      BY <1>12 DEF vars, PInv, NearestIsFullScan
    <2> QED BY <1>1, <1>12, <2>1 DEF vars, PInv, Built, GridOK
  <1> QED BY <1>2, <1>3, <1>5, <1>6, <1>7, <1>8, <1>9, <1>10, <1>11, <1>12 DEF Next

(***************************************************************************)
(* The theorem.                                                            *)
(***************************************************************************)
\* The fixes reported nearest a position are, for every data set, position and count and
\* from the grid of a built or of a restored database, those of a scan of the whole
\* network (graph_builder.cc: "the result always matches a full O(V) scan").
THEOREM NearestIsAlwaysFullScan == Spec => []NearestIsFullScan
  <1>1. PInv => NearestIsFullScan
    BY DEF PInv
  <1> QED BY <1>1, InitPInv, NextPInv, PTL DEF Spec
=============================================================================
