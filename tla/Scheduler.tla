------------------------------ MODULE Scheduler ------------------------------
(***************************************************************************)
(* The scheduler (pkg/scheduler): Start waits, in a goroutine, for the     *)
(* next full interval, makes a ticker and starts watch, which dispatches   *)
(* every registered event on each tick until its context is done.          *)
(*                                                                         *)
(* watch and dispatch have VALUE receivers: they work on a copy of the     *)
(* service made when the watch goroutine was started.  Stop stops and      *)
(* forgets the ticker of the service and knows of no goroutine.            *)
(*                                                                         *)
(* Every call of Start that starts anything is a number, which also names  *)
(* its goroutine and its ticker.  Calls are made by one goroutine; all use *)
(* one context.                                                            *)
(***************************************************************************)
EXTENDS Naturals, FiniteSets

CONSTANTS
  Scheduled,  \* events the applications register
  MaxStarts   \* bound on the calls of Start that start something

ASSUME StartsAssumption == MaxStarts \in Nat \ {0}

Starts  == 1..MaxStarts
None    == 0               \* ticker = nil
Waiting == MaxStarts + 1   \* ticker = &time.Ticker{}, which never ticks
Tickers == 0..(MaxStarts + 1)

VARIABLES
  events,     \* service.events
  ticker,     \* service.ticker
  started,    \* number of Starts so far
  delayed,    \* goroutines of Start sleeping until the next interval
  launching,  \* goroutines of Start that have made their ticker
  watching,   \* watch goroutines
  mine,       \* the ticker in the copy a watch goroutine works on
  seen,       \* the events in that copy
  ticking,    \* tickers made and not stopped
  pending,    \* events handed to a Dispatch goroutine
  done,       \* the context is done
  stopped     \* history: Stop has been called on a started service

schedulerVars == <<events, ticker, started, delayed, launching, watching, mine,
                   seen, ticking, pending, done, stopped>>

SchedulerTypeOK ==
  /\ events \subseteq Scheduled /\ pending \subseteq Scheduled
  /\ ticker \in Tickers
  /\ started \in 0..MaxStarts
  /\ delayed \cup launching \cup watching \subseteq 1..started
  /\ delayed \cap (launching \cup watching) = {}
  /\ launching \cap watching = {}
  /\ ticking \subseteq (1..started) \ delayed
  /\ mine \in [Starts -> Tickers]
  /\ seen \in [Starts -> SUBSET Scheduled]
  /\ done \in BOOLEAN /\ stopped \in BOOLEAN

SchedulerInit ==
  /\ events = {} /\ pending = {}
  /\ ticker = None
  /\ started = 0
  /\ delayed = {} /\ launching = {} /\ watching = {} /\ ticking = {}
  /\ mine = [i \in Starts |-> None]
  /\ seen = [i \in Starts |-> {}]
  /\ done = FALSE /\ stopped = FALSE

-----------------------------------------------------------------------------
(* Faults *)

\* Start does not look whether the service is started
StartUnchecked ==
  /\ started < MaxStarts
  /\ started' = started + 1
  /\ delayed' = delayed \cup {started + 1}
  /\ ticker' = Waiting
  /\ UNCHANGED <<events, launching, watching, mine, seen, ticking, pending,
                 done, stopped>>

\* the select of watch has no case for the context
WatchNeverEnds(i) ==
  /\ i \in watching /\ done /\ mine[i] = None
  /\ watching' = watching \ {i}
  /\ UNCHANGED <<events, ticker, started, delayed, launching, mine, seen,
                 ticking, pending, done, stopped>>

\* a tick that finds no event to dispatch
TickWithoutEvents(i) ==
  /\ i \in watching /\ mine[i] \in ticking
  /\ pending' = pending \ seen[i]
  /\ UNCHANGED <<events, ticker, started, delayed, launching, watching, mine,
                 seen, ticking, done, stopped>>

-----------------------------------------------------------------------------
OnTick(e) ==
  /\ events' = events \cup {e}
  /\ UNCHANGED <<ticker, started, delayed, launching, watching, mine, seen,
                 ticking, pending, done, stopped>>

\* Start of a service that is not started; of a started one it does nothing.
Start ==
  /\ ticker = None
  /\ started < MaxStarts
  /\ started' = started + 1
  /\ delayed' = delayed \cup {started + 1}
  /\ ticker' = Waiting
  /\ UNCHANGED <<events, launching, watching, mine, seen, ticking, pending,
                 done, stopped>>

\* The interval begins: the ticker is made, whatever has happened meanwhile.
DelayEnds(i) ==
  /\ i \in delayed
  /\ delayed' = delayed \ {i}
  /\ launching' = launching \cup {i}
  /\ ticker' = i
  /\ ticking' = ticking \cup {i}
  /\ UNCHANGED <<events, started, watching, mine, seen, pending, done, stopped>>

\* go svc.watch(ctx) copies the service, without the lock, and the copy
\* dispatches its events for the interval that begins.
WatchBegins(i) ==
  /\ i \in launching
  /\ launching' = launching \ {i}
  /\ watching' = watching \cup {i}
  /\ mine' = [mine EXCEPT ![i] = ticker]
  /\ seen' = [seen EXCEPT ![i] = events]
  /\ pending' = pending \cup events
  /\ UNCHANGED <<events, ticker, started, delayed, ticking, done, stopped>>

\* One tick of a copy's ticker
Tick(i) ==
  /\ i \in watching /\ mine[i] \in ticking
  /\ pending' = pending \cup seen[i]
  /\ UNCHANGED <<events, ticker, started, delayed, launching, watching, mine,
                 seen, ticking, done, stopped>>

\* The context is done: the copy's ticker is stopped, and the copy's field set
\* to nil.  Or the copy has no ticker: then the select panics, and sentry.Recover
\* ends the goroutine (without a Sentry client, the process).
WatchEnds(i) ==
  /\ i \in watching
  /\ done \/ mine[i] = None
  /\ watching' = watching \ {i}
  /\ ticking' = ticking \ {mine[i]}
  /\ UNCHANGED <<events, ticker, started, delayed, launching, mine, seen,
                 pending, done, stopped>>

\* Stop of a started service
Stop ==
  /\ ticker # None
  /\ ticking' = ticking \ {ticker}
  /\ ticker' = None
  /\ stopped' = TRUE
  /\ UNCHANGED <<events, started, delayed, launching, watching, mine, seen,
                 pending, done>>

\* A goroutine of dispatch hands its event to the bus.
Dispatched(e) ==
  /\ e \in pending
  /\ pending' = pending \ {e}
  /\ UNCHANGED <<events, ticker, started, delayed, launching, watching, mine,
                 seen, ticking, done, stopped>>

ContextDone ==
  /\ ~done
  /\ done' = TRUE
  /\ UNCHANGED <<events, ticker, started, delayed, launching, watching, mine,
                 seen, ticking, pending, stopped>>

SchedulerNext ==
  \/ \E e \in Scheduled : OnTick(e) \/ Dispatched(e)
  \/ Start
  \/ Stop
  \/ ContextDone
  \/ \E i \in Starts :
       DelayEnds(i) \/ WatchBegins(i) \/ Tick(i) \/ WatchEnds(i)

SchedulerSpec == SchedulerInit /\ [][SchedulerNext]_schedulerVars

\* Sleeping goroutines wake up, goroutines run, tickers tick.
SchedulerFairness ==
  /\ \A i \in Starts :
       /\ WF_schedulerVars(DelayEnds(i))
       /\ WF_schedulerVars(WatchBegins(i))
       /\ WF_schedulerVars(WatchEnds(i))
       /\ SF_schedulerVars(Tick(i))
  /\ \A e \in Scheduled : WF_schedulerVars(Dispatched(e))

SchedulerFairSpec == SchedulerSpec /\ SchedulerFairness

-----------------------------------------------------------------------------
Busy == delayed \cup launching \cup watching

\* However often Start is called, a service nobody has stopped has one
\* goroutine and one ticker, its watch has that ticker, and an event fires once
\* in an interval.
OneWatchUnlessStopped ==
  ~stopped => /\ Cardinality(Busy) <= 1 /\ Cardinality(ticking) <= 1
              /\ \A i \in watching : mine[i] = i

\* A copy that has a ticking ticker dispatches every event it knows again and
\* again, unless it is stopped or its context ends.
EventsKeepFiring ==
  \A i \in Starts, e \in Scheduled :
    i \in watching /\ mine[i] \in ticking /\ e \in seen[i] /\ e \notin pending
      ~> e \in pending \/ mine[i] \notin ticking

\* Every goroutine ends with the context, also those that were asleep when it
\* ended and those whose ticker Stop took away.
GoroutinesEnd == [](done => <>[](Busy = {}))

=============================================================================
