----------------------------- MODULE MCNetwork -----------------------------
(***************************************************************************)
(* A small network on a 10 NM grid of five fixes.                          *)
(*                                                                         *)
(*          2 --- 4                                                        *)
(*        / |  x  |                                                        *)
(*      0 - 1 --- 3                                                        *)
(***************************************************************************)
EXTENDS Integers, Sequences

MCVertex == 0..4

East(v)  == <<0, 1, 1, 2, 2>>[v + 1]
North(v) == <<0, 0, 1, 0, 1>>[v + 1]

Span(a, b) == IF a < b THEN b - a ELSE a - b

\* The larger of the two offsets: a metric below every edge's length.
MCChord ==
    [a \in MCVertex |-> [b \in MCVertex |->
        LET dx == Span(East(a), East(b))
            dy == Span(North(a), North(b))
        IN  10 * (IF dx > dy THEN dx ELSE dy)]]

\* The compass octant.
MCBearingTo ==
    [a \in MCVertex |-> [b \in MCVertex |->
        LET e == East(b) - East(a)
            n == North(b) - North(a)
        IN  CASE e = 0 /\ n >= 0 -> 0
              [] e > 0 /\ n > 0  -> 45
              [] e > 0 /\ n = 0  -> 90
              [] e > 0 /\ n < 0  -> 135
              [] e = 0 /\ n < 0  -> 180
              [] e < 0 /\ n < 0  -> 225
              [] e < 0 /\ n = 0  -> 270
              [] e < 0 /\ n > 0  -> 315]]

Leg(v, dist)        == [to |-> v, distance_nm |-> dist, allowed |-> TRUE, extra_cost |-> 0]
Soft(v, dist, cost) == [to |-> v, distance_nm |-> dist, allowed |-> TRUE, extra_cost |-> cost]
Hard(v, dist)       == [to |-> v, distance_nm |-> dist, allowed |-> FALSE, extra_cost |-> 0]

\* Every row with all its edges, in stored order.  The two edges 0 -> 1 cost the
\* same and differ in length; the first edge 1 -> 3 is blocked.
FullRows ==
    [v \in MCVertex |->
        CASE v = 0 -> <<Soft(1, 10, 3), Leg(1, 13), Leg(2, 10)>>
          [] v = 1 -> <<Hard(3, 10), Leg(3, 12), Leg(2, 10)>>
          [] v = 2 -> <<Leg(4, 10), Leg(1, 10), Soft(3, 10, 9)>>
          [] v = 3 -> <<Leg(1, 12), Leg(4, 11)>>
          [] v = 4 -> <<Leg(3, 10), Leg(2, 11)>>]

\* The graph without the edges named in S by their ends and length.
Without(S) ==
    [v \in MCVertex |-> SelectSeq(FullRows[v], LAMBDA e : <<v, e.to, e.distance_nm>> \notin S)]

\* The edges an instance may leave out: every subset of them is a network.
Optional == {<<0, 1, 10>>, <<0, 2, 10>>, <<1, 3, 12>>, <<2, 4, 10>>, <<2, 1, 10>>,
             <<2, 3, 10>>, <<3, 1, 12>>, <<1, 2, 10>>}

MCNetworks == {Without(S) : S \in SUBSET Optional}

Fix(v, cost)                == [vertex |-> v, cost |-> cost, bearing |-> -1]
Procedure(v, cost, bearing) == [vertex |-> v, cost |-> cost, bearing |-> bearing]
=============================================================================
