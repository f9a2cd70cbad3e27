--------------------------- MODULE EventBusProofs ---------------------------
(***************************************************************************)
(* The event bus implements the table of handlers it promises, for any     *)
(* firers, writers, handlers, weights and callbacks, and goes on to do so  *)
(* while Corredor's scripts are reloaded: never two revisions together.    *)
(* At its end, the scheduler, which fires events on the bus: one that was  *)
(* never stopped has one goroutine and one ticker.                         *)
(***************************************************************************)
EXTENDS ScriptReload, Scheduler, FiniteSetTheorems, TLAPS

\* The parts of the state that the refinement looks at are well typed, what a
\* WaitFor has still to run is registered, and who holds no lock has nothing to
\* run.
BusInv ==
  /\ handlers \subseteq Handlers
  /\ state \in [Firers -> {"idle", "serving", "blocked", "running", "nested"}]
  /\ fired \in [Firers -> Events \cup {NoOne}]
  /\ todo \in [Firers -> SUBSET handlers]
  /\ \A f \in Firers \ Holders : todo[f] = {}

\* Readers are admitted with registered handlers to run, or with none.
LEMMA AdmitKeeps ==
  ASSUME BusInv, NEW fs \in SUBSET Firers, NEW ev, NEW hs \in SUBSET Handlers,
         Admit(fs, ev, hs), handlers' = hs,
         handlers = hs \/ (fs = Blocked /\ Holders = {}),
         fs \cap Holders = {}, fired' \in [Firers -> Events \cup {NoOne}]
  PROVE  BusInv'
<1>1. todo' \in [Firers -> SUBSET hs]
  <2>1. ASSUME NEW f \in Firers
        PROVE  (IF f \in fs /\ ev[f] \in Awaited THEN Find(ev[f], hs)
                ELSE todo[f]) \in SUBSET hs
    <3>1. CASE handlers = hs
      BY <3>1 DEF BusInv, Find
    <3>2. CASE Holders = {}
      BY <3>2 DEF BusInv, Find
    <3> QED
      BY <3>1, <3>2
  <2> QED
    BY <2>1 DEF Admit
<1>2. state' \in [Firers -> {"idle", "serving", "blocked", "running", "nested"}]
  BY DEF Admit, BusInv
<1>3. ASSUME NEW f \in Firers, f \notin Holders'
      PROVE  todo'[f] = {}
  <2>1. CASE f \in fs
    <3>1. f \notin Holders
      BY <2>1
    <3>2. state'[f] = IF ev[f] \in Awaited THEN "running" ELSE "idle"
      BY <2>1 DEF Admit
    <3>3. ev[f] \notin Awaited
      BY <3>2, <1>3 DEF Holders
    <3> QED
      BY <3>1, <3>3 DEF Admit, BusInv
  <2>2. CASE f \notin fs
    <3>1. state'[f] = state[f] /\ todo'[f] = todo[f]
      BY <2>2 DEF Admit
    <3> QED
      BY <3>1, <1>3 DEF Holders, BusInv
  <2> QED
    BY <2>1, <2>2
<1> QED
  BY <1>1, <1>2, <1>3 DEF BusInv

LEMMA InitHolds == BusInit => BusInv
BY DEF BusInit, BusInv

\* No step of a firer or a writer breaks the invariant.
LEMMA StepKeeps == BusInv /\ [BusNext]_busVars => BusInv'
<1> SUFFICES ASSUME BusInv, [BusNext]_busVars PROVE BusInv'
  OBVIOUS
<1>1. ASSUME NEW f \in Firers, NEW ev \in Events, Fire(f, ev) PROVE BusInv'
  <2>1. {f} \in SUBSET Firers /\ {f} \cap Holders = {}
    BY <1>1 DEF Fire, Free, Holders
  <2>2. handlers \in SUBSET Handlers
    BY DEF BusInv
  <2>3. Admit({f}, fired', handlers) /\ handlers' = handlers
    BY <1>1 DEF Fire
  <2>4. fired' \in [Firers -> Events \cup {NoOne}]
    BY <1>1 DEF Fire, BusInv
  <2> QED
    BY <2>1, <2>2, <2>3, <2>4, AdmitKeeps
<1>2. ASSUME NEW f \in Firers, NEW ev \in Events, FireBlocked(f, ev) PROVE BusInv'
  BY <1>2 DEF FireBlocked, Free, BusInv, Holders
<1>3. ASSUME NEW f \in Firers, HandlerReturns(f) PROVE BusInv'
  BY <1>3 DEF HandlerReturns, BusInv, Holders
<1>4. ASSUME NEW f \in Firers, HandlerFails(f) PROVE BusInv'
  BY <1>4 DEF HandlerFails, BusInv, Holders
<1>5. ASSUME NEW f \in Firers, NEW g \in Firers, HandlerCallsBack(f, g) PROVE BusInv'
  BY <1>5 DEF HandlerCallsBack, Free, BusInv, Holders
<1>6. ASSUME NEW f \in Firers, CallbackReturns(f) PROVE BusInv'
  BY <1>6 DEF CallbackReturns, BusInv, Holders
<1>7. ASSUME NEW f \in Firers, HandlerTimesOut(f) PROVE BusInv'
  BY <1>7 DEF HandlerTimesOut, BusInv, Holders
<1>8. ASSUME NEW f \in Firers, Return(f) PROVE BusInv'
  BY <1>8 DEF Return, BusInv, Holders
<1>9. ASSUME NEW f \in Firers, NEW h \in Handlers, AsyncReturns(f, h) PROVE BusInv'
  BY <1>9 DEF AsyncReturns, BusInv, Holders
<1>10. ASSUME NEW w \in Writers, Announce(w) PROVE BusInv'
  BY <1>10 DEF Announce, BusInv, Holders
<1>11. ASSUME NEW w \in Writers, NEW hs \in SUBSET Handlers, Update(w, hs) PROVE BusInv'
  <2>1. Blocked \in SUBSET Firers /\ Blocked \cap Holders = {}
    BY DEF Blocked, Holders
  <2>2. /\ Admit(Blocked, fired, hs) /\ handlers' = hs /\ Holders = {}
        /\ fired' \in [Firers -> Events \cup {NoOne}]
    BY <1>11 DEF Update, BusInv
  <2> QED
    BY <2>1, <2>2, AdmitKeeps
<1>12. ASSUME NEW w \in Writers, NEW h \in Handlers, Register(w, h) PROVE BusInv'
  <2>1. handlers \cup {h} \in SUBSET Handlers
    BY DEF BusInv
  <2> QED
    BY <2>1, <1>11, <1>12 DEF Register
<1>13. ASSUME NEW w \in Writers, NEW hs \in SUBSET Handlers, Unregister(w, hs) PROVE BusInv'
  <2>1. handlers \ hs \in SUBSET Handlers
    BY DEF BusInv
  <2> QED
    BY <2>1, <1>11, <1>13 DEF Unregister
<1>14. ASSUME UNCHANGED busVars PROVE BusInv'
  BY <1>14 DEF busVars, BusInv, Holders
<1> QED
  BY <1>1, <1>2, <1>3, <1>4, <1>5, <1>6, <1>7, <1>8, <1>9, <1>10, <1>12, <1>13, <1>14
     DEF BusNext, Fires, Runs

\* The invariant holds in every behaviour of the bus.
THEOREM Walks == BusSpec => []BusInv
BY InitHolds, StepKeeps, PTL DEF BusSpec

\* A handler WaitFor is about to run is still registered.
THEOREM OnlyRegisteredRun == BusSpec => []RunsOnlyRegistered
<1>1. BusInv => RunsOnlyRegistered
  BY DEF BusInv, RunsOnlyRegistered
<1> QED
  BY <1>1, Walks, PTL

-----------------------------------------------------------------------------
(* Every step of the bus is one of the table, or none *)

LEMMA InitRefines == BusInit => Table!Init
BY DEF BusInit, Table!Init, Holders

\* Firing an event begins a walk, unless it is dispatched or has to wait.
LEMMA FireRefines ==
  ASSUME BusInv, NEW f \in Firers, NEW ev \in Events, Fire(f, ev)
  PROVE  [Table!Next]_Table!vars
<1>1. f \notin Holders /\ todo[f] = {}
  BY DEF Fire, Free, Holders, BusInv
<1>2. state' = [state EXCEPT ![f] = IF ev \in Awaited THEN "running" ELSE "idle"]
  BY DEF Fire, Admit, BusInv
<1>3. CASE ev \in Awaited
  <2>1. Holders' = Holders \cup {f}
    BY <1>2, <1>3 DEF Holders, BusInv
  <2>2. todo' = [todo EXCEPT ![f] = Find(ev, handlers)]
    BY <1>3 DEF Fire, Admit, BusInv
  <2>3. Find(ev, handlers) \in SUBSET handlers
    BY DEF Find
  <2>4. Table!Begin(f)
    BY <1>1, <2>1, <2>2, <2>3 DEF Fire, Table!Begin
  <2> QED
    BY <2>4 DEF Table!Next
<1>4. CASE ev \notin Awaited
  <2>1. Holders' = Holders
    BY <1>1, <1>2, <1>4 DEF Holders, BusInv
  <2>2. todo' = todo
    BY <1>4 DEF Fire, Admit, BusInv
  <2> QED
    BY <2>1, <2>2 DEF Fire, Table!vars
<1> QED
  BY <1>3, <1>4

\* A handler that ends, well or not, leaves a part of what was left.
LEMMA HandlerRefines ==
  ASSUME BusInv, NEW f \in Firers,
         HandlerReturns(f) \/ HandlerFails(f) \/ CallbackReturns(f) \/ HandlerTimesOut(f)
  PROVE  Table!Advance(f)
<1>1. f \in Holders
  BY DEF HandlerReturns, HandlerFails, CallbackReturns, HandlerTimesOut, Holders
<1>2. Holders' = Holders
  BY DEF HandlerReturns, HandlerFails, CallbackReturns, HandlerTimesOut, Holders, BusInv
<1>3. \E hs \in SUBSET todo[f] : todo' = [todo EXCEPT ![f] = hs]
  BY DEF HandlerReturns, HandlerFails, CallbackReturns, HandlerTimesOut, BusInv
<1>4. UNCHANGED handlers
  BY DEF HandlerReturns, HandlerFails, CallbackReturns, HandlerTimesOut
<1> QED
  BY <1>1, <1>2, <1>3, <1>4 DEF Table!Advance

LEMMA ReturnRefines ==
  ASSUME BusInv, NEW f \in Firers, Return(f)
  PROVE  Table!End(f)
<1>1. f \in Holders /\ Holders' = Holders \ {f}
  BY DEF Return, Holders, BusInv
<1> QED
  BY <1>1 DEF Return, Table!End

\* A writer changes the table when nobody walks, and lets the waiting set out.
LEMMA UpdateRefines ==
  ASSUME BusInv, BusInv', NEW w \in Writers, NEW hs \in SUBSET Handlers, Update(w, hs)
  PROVE  Table!Change
<1>1. Holders = {} /\ handlers' = hs
  BY DEF Update
<1>2. Holders' \in SUBSET Firers
  BY DEF Holders
<1>3. todo' \in [Firers -> SUBSET handlers'] /\ \A f \in Firers \ Holders' : todo'[f] = {}
  BY DEF BusInv
<1> QED
  BY <1>1, <1>2, <1>3 DEF Table!Change

LEMMA StepRefines ==
  BusInv /\ BusInv' /\ [BusNext]_busVars => [Table!Next]_Table!vars
<1> SUFFICES ASSUME BusInv, BusInv', [BusNext]_busVars PROVE [Table!Next]_Table!vars
  OBVIOUS
<1>1. ASSUME NEW f \in Firers, NEW ev \in Events, Fire(f, ev)
      PROVE  [Table!Next]_Table!vars
  BY <1>1, FireRefines
<1>2. ASSUME NEW f \in Firers, NEW ev \in Events, FireBlocked(f, ev)
      PROVE  [Table!Next]_Table!vars
  <2>1. Holders' = Holders
    BY <1>2 DEF FireBlocked, Free, Holders, BusInv
  <2> QED
    BY <1>2, <2>1 DEF FireBlocked, Table!vars
<1>3. ASSUME NEW f \in Firers,
             HandlerReturns(f) \/ HandlerFails(f) \/ CallbackReturns(f) \/ HandlerTimesOut(f)
      PROVE  [Table!Next]_Table!vars
  BY <1>3, HandlerRefines DEF Table!Next
<1>4. ASSUME NEW f \in Firers, NEW g \in Firers, HandlerCallsBack(f, g)
      PROVE  [Table!Next]_Table!vars
  <2>1. Holders' = Holders
    BY <1>4 DEF HandlerCallsBack, Free, Holders, BusInv
  <2> QED
    BY <1>4, <2>1 DEF HandlerCallsBack, Table!vars
<1>5. ASSUME NEW f \in Firers, Return(f)
      PROVE  [Table!Next]_Table!vars
  BY <1>5, ReturnRefines DEF Table!Next
<1>6. ASSUME NEW f \in Firers, NEW h \in Handlers, AsyncReturns(f, h)
      PROVE  [Table!Next]_Table!vars
  BY <1>6 DEF AsyncReturns, Holders, Table!vars
<1>7. ASSUME NEW w \in Writers, Announce(w)
      PROVE  [Table!Next]_Table!vars
  BY <1>7 DEF Announce, Holders, Table!vars
<1>8. ASSUME NEW w \in Writers, NEW hs \in SUBSET Handlers, Update(w, hs)
      PROVE  [Table!Next]_Table!vars
  BY <1>8, UpdateRefines DEF Table!Next
<1>9. ASSUME NEW w \in Writers, NEW h \in Handlers, Register(w, h)
      PROVE  [Table!Next]_Table!vars
  <2>1. handlers \cup {h} \in SUBSET Handlers
    BY DEF BusInv
  <2> QED
    BY <2>1, <1>8, <1>9 DEF Register
<1>10. ASSUME NEW w \in Writers, NEW hs \in SUBSET Handlers, Unregister(w, hs)
       PROVE  [Table!Next]_Table!vars
  <2>1. handlers \ hs \in SUBSET Handlers
    BY DEF BusInv
  <2> QED
    BY <2>1, <1>8, <1>10 DEF Unregister
<1>11. ASSUME UNCHANGED busVars
       PROVE  [Table!Next]_Table!vars
  BY <1>11 DEF busVars, Holders, Table!vars
<1> QED
  BY <1>1, <1>2, <1>3, <1>4, <1>5, <1>6, <1>7, <1>9, <1>10, <1>11 DEF BusNext, Fires, Runs

\* The event bus is a table of handlers that nobody changes under a walk.
THEOREM BusImplementsTable == BusSpec => ImplementsTable
<1>1. BusSpec => Table!Init /\ [][Table!Next]_Table!vars
  BY InitRefines, StepRefines, Walks, PTL DEF BusSpec
<1> QED
  BY <1>1 DEF ImplementsTable, Table!Spec

-----------------------------------------------------------------------------
(* Reloading scripts *)

SameRevision(hs) == \A g, h \in hs : g[2] = h[2]

\* The index knows every handler of the bus; the loader works on one revision,
\* and on that of the bus from when the last old handler is gone; a script that
\* can be called has its rules.
LoaderInv ==
  /\ served \subseteq Scripts /\ revision \in 1..MaxRevision
  /\ response \subseteq Handlers /\ current \subseteq Handlers
  /\ handlers \subseteq registered
  /\ \A g, h \in current : g = h
  /\ phase # "securing" => current = {}
  /\ SameRevision(handlers)
  /\ phase \in {"answered", "unregistering"} => SameRevision(response)
  /\ phase \in {"registering", "securing"} => SameRevision(handlers \cup response \cup current)
  /\ explicit \subseteq permissions

ReloadInv == BusInv /\ LoaderInv

LEMMA ReloadInitHolds == Init => ReloadInv
<1> SUFFICES ASSUME Init PROVE ReloadInv
  OBVIOUS
<1>1. 1 \in 1..MaxRevision
  BY ScriptsAssumption
<1> QED
  BY <1>1, InitHolds DEF Init, BusInit, ReloadInv, LoaderInv, SameRevision

\* What the loader and Corredor do to the bus is a step of a writer, or none.
LEMMA ReloadStepsTheBus == ReloadInv /\ [Next]_vars => [BusNext]_busVars
<1> SUFFICES ASSUME ReloadInv, [Next]_vars PROVE [BusNext]_busVars
  OBVIOUS
<1>1. Loader \in Writers
  BY ScriptsAssumption
<1>2. CASE BusStep
  BY <1>2 DEF BusStep, BusNext
<1>3. CASE LoaderLocks
  BY <1>1, <1>3 DEF LoaderLocks, BusNext
<1>4. CASE UnregisterScript
  <2>1. PICK h \in registered \cap handlers : Unregister(Loader, {h})
    BY <1>4 DEF UnregisterScript
  <2>2. {h} \in SUBSET Handlers
    BY DEF ReloadInv, BusInv
  <2> QED
    BY <1>1, <2>1, <2>2 DEF BusNext
<1>5. CASE RegisterScript
  <2>1. PICK h \in current : Register(Loader, h)
    BY <1>5 DEF RegisterScript
  <2>2. h \in Handlers
    BY DEF ReloadInv, LoaderInv
  <2> QED
    BY <1>1, <2>1, <2>2 DEF BusNext
<1>6. ASSUME CorredorChanges \/ LoadStarts \/ CorredorAnswers \/ ListFails \/ AnswerArrives
             \/ ResetIndexes \/ SecureScript \/ ListScriptWithErrors \/ LoadEnds
             \/ UNCHANGED vars
      PROVE  UNCHANGED busVars
  BY <1>6 DEF CorredorChanges, LoadStarts, CorredorAnswers, ListFails, AnswerArrives,
              ResetIndexes, SecureScript, ListScriptWithErrors, LoadEnds, vars
<1> QED
  BY <1>2, <1>3, <1>4, <1>5, <1>6 DEF Next, LoaderStep

\* Firing and running events registers nothing.
LEMMA FirersKeepHandlers ==
  ASSUME BusStep \/ LoaderLocks
  PROVE  UNCHANGED <<handlers, loaderVars, corredorVars>>
BY DEF BusStep, LoaderLocks, Announce, Fires, Fire, FireBlocked, Runs, HandlerReturns,
       HandlerFails, HandlerCallsBack, CallbackReturns, HandlerTimesOut, Return, AsyncReturns

LEMMA UnregisterHolds ==
  ASSUME LoaderInv, UnregisterScript
  PROVE  LoaderInv'
<1>1. handlers' \subseteq handlers /\ UNCHANGED <<loaderVars, corredorVars>>
  BY DEF UnregisterScript, Unregister, Update
<1>2. phase = "unregistering"
  BY DEF UnregisterScript
<1> QED
  BY <1>1, <1>2 DEF LoaderInv, SameRevision, loaderVars, corredorVars

LEMMA RegisterHolds ==
  ASSUME LoaderInv, RegisterScript
  PROVE  LoaderInv'
<1>1. PICK h \in current : handlers' = handlers \cup {h}
  BY DEF RegisterScript, Register, Update
<1>2. /\ phase = "securing" /\ phase' = "registering" /\ current' = {}
      /\ registered' = registered \cup current
      /\ UNCHANGED <<served, revision, response, permissions, explicit>>
  BY DEF RegisterScript, corredorVars
<1>3. handlers' \subseteq handlers \cup current
  BY <1>1
<1> QED
  BY <1>2, <1>3 DEF LoaderInv, SameRevision

LEMMA AnswersHold ==
  ASSUME LoaderInv, CorredorAnswers
  PROVE  LoaderInv'
<1>1. /\ phase = "listing" /\ phase' = "answered"
      /\ response' \subseteq served \X {revision}
      /\ UNCHANGED <<handlers, served, revision, current, registered, permissions, explicit>>
  BY DEF CorredorAnswers, busVars, corredorVars
<1>2. served \X {revision} \subseteq Handlers
  BY ScriptsAssumption DEF LoaderInv
<1>3. SameRevision(response')
  BY <1>1 DEF SameRevision
<1> QED
  BY <1>1, <1>2, <1>3 DEF LoaderInv

\* The list is looked at, and the old handlers are gone.
LEMMA PhasesHold ==
  ASSUME LoaderInv, CorredorChanges \/ LoadStarts \/ ListFails \/ AnswerArrives \/ LoadEnds
  PROVE  LoaderInv'
<1>1. CASE CorredorChanges
  <2>1. revision' \in 1..MaxRevision
    BY <1>1, ScriptsAssumption DEF CorredorChanges, LoaderInv
  <2> QED
    BY <1>1, <2>1 DEF CorredorChanges, LoaderInv, busVars, loaderVars
<1>2. CASE LoadStarts \/ ListFails \/ LoadEnds
  BY <1>2 DEF LoadStarts, ListFails, LoadEnds, LoaderInv, busVars, corredorVars
<1>3. CASE AnswerArrives
  BY <1>3 DEF AnswerArrives, LoaderInv, busVars, corredorVars
<1> QED
  BY <1>1, <1>2, <1>3

LEMMA ScriptsHold ==
  ASSUME LoaderInv, ResetIndexes \/ SecureScript \/ ListScriptWithErrors
  PROVE  LoaderInv'
<1>1. CASE ResetIndexes
  <2>1. handlers = {} /\ current = {} /\ SameRevision(response)
    BY <1>1 DEF ResetIndexes, LoaderInv
  <2> QED
    BY <1>1, <2>1 DEF ResetIndexes, LoaderInv, SameRevision, busVars, corredorVars
<1>2. CASE SecureScript
  <2>1. PICK h \in response :
          /\ current' = {h} /\ response' = response \ {h}
          /\ permissions' = permissions \cup {h} /\ explicit' = explicit \cup {h}
    BY <1>2 DEF SecureScript
  <2>2. response' \cup current' \subseteq response
    BY <2>1
  <2> QED
    BY <1>2, <2>1, <2>2 DEF SecureScript, LoaderInv, SameRevision, busVars, corredorVars
<1>3. CASE ListScriptWithErrors
  <2>1. response' \subseteq response
    BY <1>3 DEF ListScriptWithErrors
  <2> QED
    BY <1>3, <2>1 DEF ListScriptWithErrors, LoaderInv, SameRevision, busVars, corredorVars
<1> QED
  BY <1>1, <1>2, <1>3

LEMMA ReloadKeeps == ReloadInv /\ [Next]_vars => ReloadInv'
<1> SUFFICES ASSUME ReloadInv, [Next]_vars PROVE ReloadInv'
  OBVIOUS
<1>1. LoaderInv
  BY DEF ReloadInv
<1>2. BusInv'
  BY StepKeeps, ReloadStepsTheBus DEF ReloadInv
<1>3. ASSUME BusStep \/ LoaderLocks PROVE LoaderInv'
  BY <1>1, <1>3, FirersKeepHandlers DEF LoaderInv, SameRevision, loaderVars, corredorVars
<1>4. ASSUME UNCHANGED vars PROVE LoaderInv'
  BY <1>1, <1>4 DEF LoaderInv, SameRevision, vars, busVars, loaderVars, corredorVars
<1>5. LoaderInv'
  BY <1>1, <1>3, <1>4, UnregisterHolds, RegisterHolds, AnswersHold, PhasesHold, ScriptsHold
  DEF Next, LoaderStep
<1> QED
  BY <1>2, <1>5 DEF ReloadInv

\* What holds of the bus and of its loader, however reloads and events interleave.
THEOREM Reloads == Spec => []ReloadInv
BY ReloadInitHolds, ReloadKeeps, PTL DEF Spec

\* Neither the bus nor a WaitFor ever has handlers of two revisions of Corredor's
\* list: registerServerScripts removes all the old ones first.
THEOREM RevisionsDoNotMix == Spec => []OneRevision
<1>1. ReloadInv => OneRevision
  <2> SUFFICES ASSUME ReloadInv PROVE OneRevision
    OBVIOUS
  <2>1. \A f \in Firers : todo[f] \subseteq handlers
    BY DEF ReloadInv, BusInv
  <2> QED
    BY <2>1 DEF ReloadInv, LoaderInv, SameRevision, OneRevision
<1> QED
  BY <1>1, Reloads, PTL

\* Exec finds no script without its security rules, at any point of a reload.
THEOREM RulesComeFirst == Spec => []ExecutableIsSecured
<1>1. ReloadInv => ExecutableIsSecured
  BY DEF ReloadInv, LoaderInv, ExecutableIsSecured
<1> QED
  BY <1>1, Reloads, PTL

\* Under reloads too, nobody changes the table of handlers under a walk.
THEOREM ReloadImplementsTable == Spec => ImplementsTable
<1>1. Init => BusInit
  BY DEF Init
<1>2. Spec => BusSpec
  BY <1>1, Reloads, ReloadStepsTheBus, PTL DEF Spec, BusSpec
<1> QED
  BY <1>2, BusImplementsTable
-----------------------------------------------------------------------------
(* The scheduler, for any number of Starts and any events *)

\* Until somebody stops it, only the first Start finds the service without a
\* ticker: it stays set from then on, and what runs, runs for that Start.  Whoever
\* has made the ticker copies it.
FirstStartOnly ==
  ~stopped => /\ ticker = None => started = 0
              /\ started <= 1
              /\ 1 \in launching \cup watching => ticker = 1
              /\ \A i \in watching : mine[i] = i

SchedulerInv == SchedulerTypeOK /\ FirstStartOnly

\* Every step keeps the types; in particular no goroutine is in two places.
LEMMA SchedulerTypeKept ==
  ASSUME SchedulerTypeOK, [SchedulerNext]_schedulerVars
  PROVE  SchedulerTypeOK'
<1> USE StartsAssumption DEF SchedulerTypeOK, Starts, Tickers, None, Waiting
<1>1. ASSUME NEW e \in Scheduled, OnTick(e) \/ Dispatched(e) PROVE SchedulerTypeOK'
  BY <1>1 DEF OnTick, Dispatched
<1>2. CASE Start
  BY <1>2 DEF Start
<1>3. CASE Stop
  <2>1. ticker' \in Tickers /\ ticking' \subseteq ticking
    BY <1>3 DEF Stop
  <2> QED
    BY <1>3, <2>1 DEF Stop
<1>4. CASE ContextDone
  BY <1>4 DEF ContextDone
<1>5. ASSUME NEW i \in Starts, DelayEnds(i) PROVE SchedulerTypeOK'
  BY <1>5 DEF DelayEnds
<1>6. ASSUME NEW i \in Starts, WatchBegins(i) PROVE SchedulerTypeOK'
  BY <1>6 DEF WatchBegins
<1>7. ASSUME NEW i \in Starts, Tick(i) PROVE SchedulerTypeOK'
  BY <1>7 DEF Tick
<1>8. ASSUME NEW i \in Starts, WatchEnds(i) PROVE SchedulerTypeOK'
  BY <1>8 DEF WatchEnds
<1>9. CASE UNCHANGED schedulerVars
  BY <1>9 DEF schedulerVars
<1> QED
  BY <1>1, <1>2, <1>3, <1>4, <1>5, <1>6, <1>7, <1>8, <1>9 DEF SchedulerNext

\* Every step keeps all the rest to the first Start.
LEMMA FirstStartKept ==
  ASSUME SchedulerInv, [SchedulerNext]_schedulerVars
  PROVE  FirstStartOnly'
<1> USE StartsAssumption DEF SchedulerInv, SchedulerTypeOK, FirstStartOnly, Starts, Tickers, None, Waiting
<1>1. ASSUME NEW e \in Scheduled, OnTick(e) \/ Dispatched(e) PROVE FirstStartOnly'
  BY <1>1 DEF OnTick, Dispatched
<1>2. CASE Start
  BY <1>2 DEF Start
<1>3. CASE Stop \/ ContextDone
  BY <1>3 DEF Stop, ContextDone
<1>4. ASSUME NEW i \in Starts, DelayEnds(i) PROVE FirstStartOnly'
  BY <1>4 DEF DelayEnds
<1>5. ASSUME NEW i \in Starts, WatchBegins(i) PROVE FirstStartOnly'
  BY <1>5 DEF WatchBegins
<1>6. ASSUME NEW i \in Starts, Tick(i) PROVE FirstStartOnly'
  BY <1>6 DEF Tick
<1>7. ASSUME NEW i \in Starts, WatchEnds(i) PROVE FirstStartOnly'
  BY <1>7 DEF WatchEnds
<1>8. CASE UNCHANGED schedulerVars
  BY <1>8 DEF schedulerVars
<1> QED
  BY <1>1, <1>2, <1>3, <1>4, <1>5, <1>6, <1>7, <1>8 DEF SchedulerNext

\* What runs for the first Start alone is at most one goroutine and one ticker.
LEMMA FirstStartIsOne == SchedulerInv => OneWatchUnlessStopped
<1> SUFFICES ASSUME SchedulerInv, ~stopped
             PROVE  /\ Cardinality(Busy) <= 1 /\ Cardinality(ticking) <= 1
                    /\ \A i \in watching : mine[i] = i
  BY DEF OneWatchUnlessStopped
<1>1. Busy \subseteq {1} /\ ticking \subseteq {1}
  BY DEF SchedulerInv, SchedulerTypeOK, FirstStartOnly, Busy
<1>2. ASSUME NEW S, S \subseteq {1}
      PROVE  Cardinality(S) <= 1
  <2>1. S = {} \/ S = {1}
    BY <1>2
  <2>2. Cardinality({}) = 0 /\ Cardinality({1}) = 1
    BY FS_EmptySet, FS_Singleton
  <2> QED
    BY <2>1, <2>2
<1>3. \A i \in watching : mine[i] = i
  BY DEF SchedulerInv, FirstStartOnly
<1> QED
  BY <1>1, <1>2, <1>3

\* The inductive invariant holds of every behaviour.
THEOREM SchedulerInductive == SchedulerSpec => []SchedulerInv
<1>1. SchedulerInit => SchedulerInv
  <2> SUFFICES ASSUME SchedulerInit PROVE SchedulerInv
    OBVIOUS
  <2>1. 0 \in 0..MaxStarts /\ 0 \in 0..(MaxStarts + 1)
    BY StartsAssumption
  <2>2. SchedulerTypeOK
    BY <2>1 DEF SchedulerInit, SchedulerTypeOK, Starts, Tickers, None
  <2>3. FirstStartOnly
    BY DEF SchedulerInit, FirstStartOnly, None
  <2> QED
    BY <2>2, <2>3 DEF SchedulerInv
<1>2. SchedulerInv /\ [SchedulerNext]_schedulerVars => SchedulerInv'
  BY SchedulerTypeKept, FirstStartKept DEF SchedulerInv
<1> QED
  BY <1>1, <1>2, PTL DEF SchedulerSpec

\* Whatever the order of Starts, ticks and ends: as long as nobody has called Stop
\* no event has two watches to fire it.
THEOREM OneWatch == SchedulerSpec => []OneWatchUnlessStopped
  BY SchedulerInductive, FirstStartIsOne, PTL

=============================================================================
