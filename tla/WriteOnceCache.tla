--------------------------- MODULE WriteOnceCache ---------------------------
(***************************************************************************)
(* What the two lazily filled caches of the program promise their callers  *)
(* (NavDatabaseRegistry::Get, registry.h:15-22, and Impl::ProceduresFor,   *)
(* nav_database_impl.h): a key is filled at most once and never changes,   *)
(* every answer that is not an error is what the slot holds, and an error  *)
(* leaves the slot as it was, so that a later call can still fill it.      *)
(***************************************************************************)
CONSTANTS
  Clients,   \* threads that call
  Keys,      \* what they ask for
  Values,    \* what a slot can hold: the identity of an object, or "no data"
  Nil,       \* an empty slot
  Err        \* the answer of a call that failed

VARIABLES
  slot,      \* slot[k]: Nil or the value k was filled with
  asked,     \* asked[c]: the key c is asking for or last asked for
  answer     \* answer[c]: Nil while the call runs, else its result

woVars == <<slot, asked, answer>>

WOTypeOK ==
  /\ slot \in [Keys -> Values \cup {Nil}]
  /\ asked \in [Clients -> Keys]
  /\ answer \in [Clients -> Values \cup {Nil, Err}]

\* A cache may be filled from the start (eager loading).
WOInit ==
  /\ slot \in [Keys -> Values \cup {Nil}]
  /\ asked \in [Clients -> Keys]
  /\ answer = [c \in Clients |-> Err]

Ask(c, k) ==
  /\ answer[c] # Nil
  /\ asked' = [asked EXCEPT ![c] = k]
  /\ answer' = [answer EXCEPT ![c] = Nil]
  /\ UNCHANGED slot

\* The call is answered from the slot.
AnswerHit(c) ==
  /\ answer[c] = Nil
  /\ slot[asked[c]] # Nil
  /\ answer' = [answer EXCEPT ![c] = slot[asked[c]]]
  /\ UNCHANGED <<slot, asked>>

\* The call fills the slot and is answered with what it put there.
AnswerFill(c, v) ==
  /\ answer[c] = Nil
  /\ slot[asked[c]] = Nil
  /\ slot' = [slot EXCEPT ![asked[c]] = v]
  /\ answer' = [answer EXCEPT ![c] = v]
  /\ UNCHANGED asked

AnswerErr(c) ==
  /\ answer[c] = Nil
  /\ answer' = [answer EXCEPT ![c] = Err]
  /\ UNCHANGED <<slot, asked>>

WONext ==
  \E c \in Clients :
    \/ \E k \in Keys : Ask(c, k)
    \/ AnswerHit(c)
    \/ \E v \in Values : AnswerFill(c, v)
    \/ AnswerErr(c)

WOSpec == WOInit /\ [][WONext]_woVars
=============================================================================
