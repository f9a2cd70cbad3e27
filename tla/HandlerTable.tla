---------------------------- MODULE HandlerTable ----------------------------
(***************************************************************************)
(* What the event bus promises its users (pkg/eventbus/eventbus.go): a     *)
(* table of handlers, and walks over it by those who fire an event.  A     *)
(* walk takes as long as its handlers do, yet the table stays as it is     *)
(* until it is over.  Nothing is said of locks, of who waits for whom, of  *)
(* the order of the handlers, or of callbacks.                             *)
(***************************************************************************)
CONSTANTS Walkers, Handlers

VARIABLES
  table,    \* the registered handlers
  walking,  \* walkers on their way
  left      \* the handlers each of them has still to run

vars == <<table, walking, left>>

Init ==
  /\ table = {}
  /\ walking = {}
  /\ left = [w \in Walkers |-> {}]

\* A walk is over some of the handlers that are registered when it begins.
Begin(w) ==
  /\ w \notin walking
  /\ walking' = walking \cup {w}
  /\ \E hs \in SUBSET table : left' = [left EXCEPT ![w] = hs]
  /\ UNCHANGED table

\* Handlers are run, or given up; none is added.
Advance(w) ==
  /\ w \in walking
  /\ \E hs \in SUBSET left[w] : left' = [left EXCEPT ![w] = hs]
  /\ UNCHANGED <<table, walking>>

End(w) ==
  /\ w \in walking /\ left[w] = {}
  /\ walking' = walking \ {w}
  /\ UNCHANGED <<table, left>>

\* The table changes while nobody walks, and those who have waited set out.
Change ==
  /\ walking = {}
  /\ table' \in SUBSET Handlers
  /\ walking' \in SUBSET Walkers
  /\ left' \in [Walkers -> SUBSET table']
  /\ \A w \in Walkers \ walking' : left'[w] = {}

Next == Change \/ \E w \in Walkers : Begin(w) \/ Advance(w) \/ End(w)

Spec == Init /\ [][Next]_vars
=============================================================================
