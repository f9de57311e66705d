--------------------------- MODULE MCUnifiedCache ---------------------------
(***************************************************************************)
(* Two builds and a server over a directory that already holds a cache.    *)
(* Input 1 has every section and repeats strings across sections; input 2  *)
(* is of the same cycle, with other data and without details; input 3 is   *)
(* one that the CIFP codec refuses (a key too long), and input 4 one that  *)
(* the graph codec does (too many airway names).                           *)
(***************************************************************************)
EXTENDS UnifiedCache

CONSTANTS b1, b2

A == 1
B == 2
Id(s, c) == [ident |-> s, code |-> c]

Graph1 ==
    [coords |-> <<11, 12>>, idents |-> <<Id(<<A>>, <<B>>), Id(<<A, B>>, <<>>)>>,
     flags |-> <<1, 2>>, kinds |-> <<0, 1>>, first |-> 1, elevations |-> <<5>>,
     offsets |-> <<0, 1, 1>>, edges |-> <<[to |-> 1, airway |-> 0, level |-> 2, rest |-> 3]>>,
     airways |-> <<<<B>>>>, mora |-> 7,
     msa |-> <<[center |-> Id(<<A>>, <<B>>), airport |-> <<A, B>>, arcs |-> <<4, 4>>]>>]
Graph2 ==
    [coords |-> <<13>>, idents |-> <<Id(<<B>>, <<A>>)>>, flags |-> <<0>>, kinds |-> <<3>>,
     first |-> 0, elevations |-> <<6>>, offsets |-> <<0, 0>>, edges |-> <<>>,
     airways |-> <<>>, mora |-> 8, msa |-> <<>>]

Leg(fix) ==
    [fix |-> fix, pos |-> 1, path |-> 23, alt |-> 4, turn |-> TurnLeft, flags |-> 3, rest |-> 9]
Proc(legs) ==
    [type |-> 2, rest |-> 1, name |-> <<A, A>>, transition |-> <<>>, runway |-> <<B>>,
     legs |-> legs]
Cifp1 ==
    <<[icao |-> <<A, B>>,
       data |-> [procedures |-> <<Proc(<<Leg(Id(<<A>>, <<B>>))>>)>>,
                 runways |-> <<[ident |-> <<B>>, rest |-> 2]>>]],
      [icao |-> <<B, A>>, data |-> [procedures |-> <<>>, runways |-> <<>>]]>>
Cifp2 ==
    <<[icao |-> <<A, B>>, data |-> [procedures |-> <<Proc(<<>>)>>, runways |-> <<>>]]>>

Navaid(s, c, k) == [id |-> Id(s, c), kind |-> k, rest |-> 1]
Detail1 ==
    [navaids |-> <<Navaid(<<B>>, <<>>, 5), Navaid(<<A>>, <<A>>, 1), Navaid(<<B>>, <<>>, 4)>>,
     holds |-> <<[fix |-> Id(<<A>>, <<B>>), airport |-> <<A, B>>, rest |-> 3, turn |-> TurnRight]>>]

Prov(cycle) ==
    [cycle |-> cycle, program |-> <<A>>, loader |-> <<A, B>>, dataDir |-> <<>>, capabilities |-> 15]

MCInputs ==
    <<[header |-> Prov(1), graph |-> Graph1, hasCifp |-> TRUE, cifp |-> Cifp1,
       hasDetail |-> TRUE, detail |-> Detail1],
      [header |-> Prov(1), graph |-> Graph2, hasCifp |-> TRUE, cifp |-> Cifp2,
       hasDetail |-> FALSE, detail |-> None],
      [header |-> Prov(2), graph |-> Graph2, hasCifp |-> TRUE,
       cifp |-> <<[icao |-> <<A, A, A>>, data |-> [procedures |-> <<>>, runways |-> <<>>]]>>,
       hasDetail |-> FALSE, detail |-> None],
      [header |-> Prov(2), graph |-> [Graph2 EXCEPT !.airways = <<<<A>>, <<B>>>>],
       hasCifp |-> FALSE, cifp |-> <<>>, hasDetail |-> FALSE, detail |-> None]>>

Padded == [form |-> "padded", cycle |-> 1]
MCBefore == (Padded :> 1)
MCPathOrder == <<Padded, FormatBfdbName(1), FormatBfdbName(2), [form |-> "other", cycle |-> 0]>>
MCOutputOf == (b1 :> Default) @@ (b2 :> FormatBfdbName(1))
MCFlip(w) == {w + 1}
MCTorn(n) == {0, n \div 2, n - 1}
MCDataOf == (b1 :> {1, 3, 4}) @@ (b2 :> {2})
MCBuilders == {b1, b2}
=============================================================================
