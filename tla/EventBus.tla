------------------------------- MODULE EventBus -------------------------------
(***************************************************************************)
(* The event bus (pkg/eventbus): handlers registered for events, run one   *)
(* after the other by WaitFor and each in a goroutine of its own by        *)
(* Dispatch, under a Go RWMutex.                                           *)
(*                                                                         *)
(* WaitFor holds the read lock while its handlers run.  A handler is a     *)
(* script that may call the API back, where another goroutine fires events *)
(* of its own while the first one waits for it.  Go's RWMutex turns new    *)
(* readers away as soon as a writer has announced itself, so such a call   *)
(* can be stuck behind a Register that is stuck behind its caller, until   *)
(* the script times out.                                                   *)
(***************************************************************************)
EXTENDS Naturals

CONSTANTS
  Firers,      \* goroutines that fire events, at most one each at a time
  Writers,     \* goroutines that register and unregister handlers
  Handlers,    \* all the handlers there may ever be
  Events,
  Awaited,     \* events fired with WaitFor, the others with Dispatch
  Matching,    \* the handlers whose resource, event and constraints match
  Weight,      \* of each handler
  CallsBack,   \* handlers whose script calls the API back
  NoOne

ASSUME BusAssumption ==
  /\ Awaited \subseteq Events
  /\ Matching \in [Events -> SUBSET Handlers]
  /\ Weight \in [Handlers -> Nat]
  /\ CallsBack \subseteq Handlers
  /\ NoOne \notin Firers \cup Writers

VARIABLES
  handlers,    \* eventbus.handlers
  announced,   \* writer that has called Lock, or NoOne
  state,       \* of each firer
  fired,       \* the event each firer is firing
  todo,        \* the handlers its WaitFor has found and not run yet
  helper,      \* the firer a handler waits for after calling the API back
  async        \* goroutines of Dispatch that have not run their handler yet

busVars == <<handlers, announced, state, fired, todo, helper, async>>

\* Firers holding the read lock, and firers waiting for it
Holders == {f \in Firers : state[f] \in {"running", "nested"}}
Blocked == {f \in Firers : state[f] = "blocked"}

\* A fault: find is called before the lock is asked for, not under it.
FindUnlocked(ev, registered) == Matching[ev] \cap handlers

\* find: the registered handlers that match
Find(ev, registered) == Matching[ev] \cap registered

\* the order of HandlerSet; sort.Sort leaves handlers of one weight in any order
Lightest(hs) == {h \in hs : \A g \in hs : Weight[h] <= Weight[g]}

BusTypeOK ==
  /\ handlers \subseteq Handlers
  /\ announced \in Writers \cup {NoOne}
  /\ state \in [Firers -> {"idle", "serving", "blocked", "running", "nested"}]
  /\ fired \in [Firers -> Events \cup {NoOne}]
  /\ todo \in [Firers -> SUBSET Handlers]
  /\ helper \in [Firers -> Firers \cup {NoOne}]
  /\ async \subseteq Firers \X Handlers

BusInit ==
  /\ handlers = {}
  /\ announced = NoOne
  /\ state = [f \in Firers |-> "idle"]
  /\ fired = [f \in Firers |-> NoOne]
  /\ todo = [f \in Firers |-> {}]
  /\ helper = [f \in Firers |-> NoOne]
  /\ async = {}

-----------------------------------------------------------------------------
(* Readers *)

\* RLock of the firers in fs, in the given states, over the given handlers.
\* Every waiting WaitFor finds its handlers, every Dispatch starts them and is
\* done at once.
Admit(fs, ev, registered) ==
  /\ state' = [f \in Firers |->
                 IF f \notin fs THEN state[f]
                 ELSE IF ev[f] \in Awaited THEN "running" ELSE "idle"]
  /\ todo' = [f \in Firers |->
                IF f \in fs /\ ev[f] \in Awaited THEN Find(ev[f], registered)
                ELSE todo[f]]
  /\ async' = async \cup {p \in fs \X Handlers :
                            /\ ev[p[1]] \notin Awaited
                            /\ p[2] \in Find(ev[p[1]], registered)}

\* A fault: readers pass a writer that is waiting.
FireFirst(f, ev) ==
  /\ state[f] \in {"idle", "serving"}
  /\ fired' = [fired EXCEPT ![f] = ev]
  /\ Admit({f}, fired', handlers)
  /\ UNCHANGED <<handlers, announced, helper>>

\* A fault: the timeout is looked at once the script's call is answered.
TimesOutLate(f) ==
  /\ state[f] = "nested" /\ state[helper[f]] = "idle"
  /\ state' = [state EXCEPT ![f] = "running"]
  /\ todo' = [todo EXCEPT ![f] = {}]
  /\ helper' = [helper EXCEPT ![f] = NoOne]
  /\ UNCHANGED <<handlers, announced, fired, async>>

\* Nobody waits for f's answer, and Dispatch has left it nothing to run.
Free(f) ==
  /\ state[f] = "idle"
  /\ \A g \in Firers : helper[g] # f
  /\ \A h \in Handlers : <<f, h>> \notin async

\* WaitFor and Dispatch: RLock, and the handlers are found under it.
Fire(f, ev) ==
  /\ Free(f) \/ state[f] = "serving"
  /\ announced = NoOne
  /\ fired' = [fired EXCEPT ![f] = ev]
  /\ Admit({f}, fired', handlers)
  /\ UNCHANGED <<handlers, announced, helper>>

\* The same behind an announced writer: RLock blocks.
FireBlocked(f, ev) ==
  /\ Free(f) \/ state[f] = "serving"
  /\ announced # NoOne
  /\ fired' = [fired EXCEPT ![f] = ev]
  /\ state' = [state EXCEPT ![f] = "blocked"]
  /\ UNCHANGED <<handlers, announced, todo, helper, async>>

\* The next handler returns without an error.
HandlerReturns(f) ==
  /\ state[f] = "running"
  /\ \E h \in Lightest(todo[f]) : todo' = [todo EXCEPT ![f] = @ \ {h}]
  /\ UNCHANGED <<handlers, announced, state, fired, helper, async>>

\* The next handler fails: WaitFor runs no other.
HandlerFails(f) ==
  /\ state[f] = "running"
  /\ todo[f] # {}
  /\ todo' = [todo EXCEPT ![f] = {}]
  /\ UNCHANGED <<handlers, announced, state, fired, helper, async>>

\* The next handler's script calls the API back: the request is served by a
\* goroutine g, which will fire an event of its own.
HandlerCallsBack(f, g) ==
  /\ state[f] = "running"
  /\ Lightest(todo[f]) \cap CallsBack # {}
  /\ Free(g)
  /\ helper' = [helper EXCEPT ![f] = g]
  /\ state' = [state EXCEPT ![f] = "nested", ![g] = "serving"]
  /\ UNCHANGED <<handlers, announced, fired, todo, async>>

\* The call is answered and the handler returns.
CallbackReturns(f) ==
  /\ state[f] = "nested" /\ state[helper[f]] = "idle"
  /\ state' = [state EXCEPT ![f] = "running"]
  /\ \E h \in Lightest(todo[f]) \cap CallsBack :
       todo' = [todo EXCEPT ![f] = @ \ {h}]
  /\ helper' = [helper EXCEPT ![f] = NoOne]
  /\ UNCHANGED <<handlers, announced, fired, async>>

\* DefaultExecTimeout: the script is abandoned, the handler fails.
HandlerTimesOut(f) ==
  /\ state[f] = "nested"
  /\ state' = [state EXCEPT ![f] = "running"]
  /\ todo' = [todo EXCEPT ![f] = {}]
  /\ helper' = [helper EXCEPT ![f] = NoOne]
  /\ UNCHANGED <<handlers, announced, fired, async>>

\* WaitFor returns and unlocks.
Return(f) ==
  /\ state[f] = "running" /\ todo[f] = {}
  /\ state' = [state EXCEPT ![f] = "idle"]
  /\ fired' = [fired EXCEPT ![f] = NoOne]
  /\ UNCHANGED <<handlers, announced, todo, helper, async>>

\* A goroutine of Dispatch runs its handler, without the lock.
AsyncReturns(f, h) ==
  /\ <<f, h>> \in async
  /\ async' = async \ {<<f, h>>}
  /\ UNCHANGED <<handlers, announced, state, fired, todo, helper>>

-----------------------------------------------------------------------------
(* Writers *)

\* Lock: from here on new readers wait; one writer at a time.
Announce(w) ==
  /\ announced = NoOne
  /\ announced' = w
  /\ UNCHANGED <<handlers, state, fired, todo, helper, async>>

\* The readers of before are gone: the handlers change, and Unlock admits every
\* reader that has come meanwhile.
Update(w, hs) ==
  /\ announced = w
  /\ Holders = {}
  /\ handlers' = hs
  /\ announced' = NoOne
  /\ Admit(Blocked, fired, hs)
  /\ UNCHANGED <<fired, helper>>

Register(w, h)    == Update(w, handlers \cup {h})
Unregister(w, hs) == Update(w, handlers \ hs)

Fires(f) == \E ev \in Events : Fire(f, ev) \/ FireBlocked(f, ev)

Runs(f) ==
  \/ HandlerReturns(f)
  \/ HandlerFails(f)
  \/ \E g \in Firers : HandlerCallsBack(f, g)
  \/ CallbackReturns(f)
  \/ HandlerTimesOut(f)
  \/ Return(f)
  \/ \E h \in Handlers : AsyncReturns(f, h)

BusNext ==
  \/ \E f \in Firers : Fires(f) \/ Runs(f)
  \/ \E w \in Writers : Announce(w)
  \/ \E w \in Writers, h \in Handlers : Register(w, h)
  \/ \E w \in Writers, hs \in SUBSET Handlers : Unregister(w, hs)

BusSpec == BusInit /\ [][BusNext]_busVars

-----------------------------------------------------------------------------
Table == INSTANCE HandlerTable
           WITH Walkers <- Firers, table <- handlers, walking <- Holders, left <- todo

\* "Prevent event handling during handler (un)registration": the bus is a table
\* of handlers that nobody changes under a walk, although WaitFor runs scripts
\* that call back, fail or time out, and a writer waits behind them.
ImplementsTable == Table!Spec

\* "Prevent event handling during handler (un)registration": a handler WaitFor
\* is about to run is still registered, however long the handlers before it
\* took and whatever was reloaded meanwhile.
RunsOnlyRegistered ==
  \A f \in Firers : todo[f] \subseteq handlers

=============================================================================
