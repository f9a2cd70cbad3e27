------------------------------- MODULE Presence -------------------------------
(***************************************************************************)
(* The presence of one user (messaging/websocket): every session of the    *)
(* user announces to all clients whether the user is present, when it has  *)
(* connected, when it closes, and once a minute.  The announcement is the  *)
(* number of the user's sessions in the store, counted first and pushed    *)
(* into the pipe of events later, with nothing held in between.            *)
(*                                                                         *)
(* A session has up to three goroutines: its heartbeat, its reader, and    *)
(* its writer, which is the goroutine of the HTTP handler.  Reader and     *)
(* writer both close the session when they end; the first one does it.     *)
(*                                                                         *)
(* Subscriptions and the other events of the pipe are in ChannelFeed.  The *)
(* contexts of requests end with their handlers.                           *)
(***************************************************************************)
EXTENDS Naturals, Sequences, FiniteSets

CONSTANTS
  Sessions,   \* of the user; one that is gone may be used for a new one
  Backlog     \* capacity of the pipe

ASSUME PresenceAssumption == Backlog \in Nat \ {0}

VARIABLES
  phase,    \* of each session: how far its handler has come
  gone,     \* sessions whose client is gone
  reader,   \* readLoop of each session
  heart,    \* its heartbeat, and what that has counted
  closing,  \* its Close, and what that has counted
  closer,   \* the goroutine that closes it
  pipe,     \* announcements in eventsPipe
  shown,    \* what the clients were told last
  met       \* history: two counts have met, see GoneIsShown

presenceVars == <<phase, gone, reader, heart, closing, closer, pipe, shown, met>>

Phases   == {"closed", "saved", "named", "counted", "live", "zombie"}
Counted  == {"present", "absent"}
Closings == Counted \cup {"no", "announced", "cut"}

PresenceTypeOK ==
  /\ phase \in [Sessions -> Phases]
  /\ gone \subseteq {s \in Sessions : phase[s] # "closed"}
  /\ reader \in [Sessions -> {"off", "reading", "dispatching"}]
  /\ heart \in [Sessions -> Counted \cup {"off", "on"}]
  /\ closing \in [Sessions -> Closings]
  /\ closer \in [Sessions -> {"none", "reader", "writer"}]
  /\ pipe \in Seq(BOOLEAN) /\ Len(pipe) <= Backlog
  /\ shown \in BOOLEAN /\ met \in BOOLEAN
  /\ \A s \in Sessions : closing[s] # "no" => phase[s] = "live"

PresenceInit ==
  /\ phase = [s \in Sessions |-> "closed"] /\ gone = {}
  /\ reader = [s \in Sessions |-> "off"] /\ heart = [s \in Sessions |-> "off"]
  /\ closing = [s \in Sessions |-> "no"] /\ closer = [s \in Sessions |-> "none"]
  /\ pipe = <<>> /\ shown = FALSE /\ met = FALSE

Stored   == {s \in Sessions : phase[s] # "closed"}
Nameless == {s \in Sessions : phase[s] = "saved"}

\* CountConnections, which panics on a session that has no user yet
CanCount == Nameless = {}
Count    == Cardinality(Stored)

Closes == {s \in Sessions : closing[s] # "no"}
Beats  == {s \in Sessions : heart[s] \in Counted}

\* repository/events.go: waits for room in the pipe
Push(present) ==
  /\ Len(pipe) < Backlog
  /\ pipe' = Append(pipe, present)

-----------------------------------------------------------------------------
(* Open and connected *)

\* The store has the session ...
Save(s) ==
  /\ phase[s] = "closed" /\ reader[s] = "off" /\ heart[s] = "off"
  /\ phase' = [phase EXCEPT ![s] = "saved"]
  /\ met' = (met /\ (Stored # {} \/ Beats # {}))
  /\ UNCHANGED <<gone, reader, heart, closing, closer, pipe, shown>>

\* ... before it has its user.
SetUser(s) ==
  /\ phase[s] = "saved"
  /\ phase' = [phase EXCEPT ![s] = "named"]
  /\ UNCHANGED <<gone, reader, heart, closing, closer, pipe, shown, met>>

CountConnected(s) ==
  /\ phase[s] = "named" /\ CanCount
  /\ phase' = [phase EXCEPT ![s] = "counted"]
  /\ UNCHANGED <<gone, reader, heart, closing, closer, pipe, shown, met>>

\* net/http recovers the panic: the session stays in the store, without loops.
ConnectedPanics(s) ==
  /\ phase[s] = "named" /\ ~CanCount
  /\ phase' = [phase EXCEPT ![s] = "zombie"]
  /\ UNCHANGED <<gone, reader, heart, closing, closer, pipe, shown, met>>

\* It counts itself, so it says "present"; then come heartbeat and loops.
PushConnected(s) ==
  /\ phase[s] = "counted"
  /\ Push(TRUE)
  /\ phase' = [phase EXCEPT ![s] = "live"]
  /\ heart' = [heart EXCEPT ![s] = "on"]
  /\ reader' = [reader EXCEPT ![s] = "reading"]
  /\ UNCHANGED <<gone, closing, closer, shown, met>>

-----------------------------------------------------------------------------
(* The heartbeat *)

Verdict(n) == IF n > 0 THEN "present" ELSE "absent"

Meets(s) == Closes # {} \/ Beats \ {s} # {}

\* A fault: the heartbeat leaves its own session out of the count.
TickWithoutOwn(s) ==
  /\ heart[s] = "on" /\ CanCount
  /\ heart' = [heart EXCEPT ![s] = Verdict(Cardinality(Stored \ {s}))]
  /\ met' = (met \/ Meets(s))
  /\ UNCHANGED <<phase, gone, reader, closing, closer, pipe, shown>>

\* The select may choose the tick although the context is done.
Tick(s) ==
  /\ heart[s] = "on" /\ CanCount
  /\ heart' = [heart EXCEPT ![s] = Verdict(Count)]
  /\ met' = (met \/ Meets(s))
  /\ UNCHANGED <<phase, gone, reader, closing, closer, pipe, shown>>

PushBeat(s) ==
  /\ heart[s] \in Counted
  /\ Push(heart[s] = "present")
  /\ heart' = [heart EXCEPT ![s] = "on"]
  /\ UNCHANGED <<phase, gone, reader, closing, closer, shown, met>>

Cancelled(s) == phase[s] = "closed" \/ closing[s] = "cut"

\* Push, too, may choose the context.
DropBeat(s) ==
  /\ heart[s] \in Counted /\ Cancelled(s)
  /\ heart' = [heart EXCEPT ![s] = "on"]
  /\ UNCHANGED <<phase, gone, reader, closing, closer, pipe, shown, met>>

HeartEnds(s) ==
  /\ heart[s] = "on" /\ Cancelled(s)
  /\ heart' = [heart EXCEPT ![s] = "off"]
  /\ UNCHANGED <<phase, gone, reader, closing, closer, pipe, shown, met>>

\* It panics on a nameless session: with Sentry it ends (without, see Crash).
HeartPanics(s) ==
  /\ heart[s] = "on" /\ ~CanCount
  /\ heart' = [heart EXCEPT ![s] = "off"]
  /\ UNCHANGED <<phase, gone, reader, closing, closer, pipe, shown, met>>

-----------------------------------------------------------------------------
(* The loops *)

\* A fault: a session that closes counts itself.
CloseCountsItself(s, g) ==
  /\ closing' = [closing EXCEPT ![s] = Verdict(Count)]
  /\ closer' = [closer EXCEPT ![s] = g]
  /\ met' = (met \/ Closes # {} \/ Beats # {})

\* Close, by the first that calls it: disconnected counts the sessions, of which
\* this one still is one, ...
CloseCounts(s, g) ==
  /\ closing' = [closing EXCEPT ![s] = Verdict(Count - 1)]
  /\ closer' = [closer EXCEPT ![s] = g]
  /\ met' = (met \/ Closes # {} \/ Beats # {})

Open(s) == phase[s] = "live" /\ closing[s] = "no"

\* A fault: no deadline for reading.
ReadWithoutDeadline(s) ==
  /\ reader[s] = "reading" /\ s \notin gone
  /\ Open(s) /\ CanCount
  /\ CloseCounts(s, "reader")
  /\ UNCHANGED <<phase, gone, reader, heart, pipe, shown>>

\* A read fails, at the latest at its deadline when there is no pong.
ReadFails(s) ==
  /\ reader[s] = "reading"
  /\ Open(s) /\ CanCount
  /\ CloseCounts(s, "reader")
  /\ UNCHANGED <<phase, gone, reader, heart, pipe, shown>>

\* A write or a ping fails, which ends the handler.
WriteFails(s) ==
  /\ Open(s) /\ CanCount
  /\ CloseCounts(s, "writer")
  /\ UNCHANGED <<phase, gone, reader, heart, pipe, shown>>

\* The writer's Close panics while it counts.  It will not be called again, and
\* the session stays in the store.
WriterPanics(s) ==
  /\ Open(s) /\ ~CanCount
  /\ phase' = [phase EXCEPT ![s] = "zombie"]
  /\ heart' = [heart EXCEPT ![s] = "off"]
  /\ UNCHANGED <<gone, reader, closing, closer, pipe, shown, met>>

\* ... announces what it has counted, ...
Announce(s) ==
  /\ closing[s] \in Counted
  /\ Push(closing[s] = "present")
  /\ closing' = [closing EXCEPT ![s] = "announced"]
  /\ UNCHANGED <<phase, gone, reader, heart, closer, shown, met>>

\* ... cancels the context and closes the connection, ...
CutOff(s) ==
  /\ closing[s] = "announced"
  /\ closing' = [closing EXCEPT ![s] = "cut"]
  /\ UNCHANGED <<phase, gone, reader, heart, closer, pipe, shown, met>>

\* ... and is deleted from the store.  (A writer whose session the reader has
\* closed goes on to ping no connection for ever, and touches nothing.)
Delete(s) ==
  /\ closing[s] = "cut"
  /\ phase' = [phase EXCEPT ![s] = "closed"]
  /\ gone' = gone \ {s}
  /\ closing' = [closing EXCEPT ![s] = "no"]
  /\ reader' = IF closer[s] = "reader" THEN [reader EXCEPT ![s] = "off"] ELSE reader
  /\ closer' = [closer EXCEPT ![s] = "none"]
  /\ UNCHANGED <<heart, pipe, shown, met>>

\* The reader of a session that somebody else closes, or whose Close has
\* panicked, fails as well, and has nothing left to close.
ReaderEnds(s) ==
  /\ reader[s] = "reading" /\ closer[s] # "reader" /\ ~Open(s)
  /\ reader' = [reader EXCEPT ![s] = "off"]
  /\ UNCHANGED <<phase, gone, heart, closing, closer, pipe, shown, met>>

Receive(s) ==
  /\ reader[s] = "reading" /\ closer[s] # "reader" /\ ~Cancelled(s) /\ s \notin gone
  /\ reader' = [reader EXCEPT ![s] = "dispatching"]
  /\ UNCHANGED <<phase, gone, heart, closing, closer, pipe, shown, met>>

\* dispatch returns and the next message is read (from a nil connection when
\* the session was closed meanwhile: Crash).
Dispatched(s) ==
  /\ reader[s] = "dispatching" /\ ~Cancelled(s)
  /\ reader' = [reader EXCEPT ![s] = "reading"]
  /\ UNCHANGED <<phase, gone, heart, closing, closer, pipe, shown, met>>

-----------------------------------------------------------------------------
ClientGone(s) ==
  /\ phase[s] # "closed" /\ s \notin gone
  /\ gone' = gone \cup {s}
  /\ UNCHANGED <<phase, reader, heart, closing, closer, pipe, shown, met>>

\* feedSessions sends the next announcement to every session.
Feed ==
  /\ pipe # <<>>
  /\ shown' = Head(pipe)
  /\ pipe' = Tail(pipe)
  /\ UNCHANGED <<phase, gone, reader, heart, closing, closer, met>>

\* A panic that nobody recovers: of a reader that reads from no connection or
\* counts a nameless session, or of a heartbeat without Sentry.  The process is
\* started anew, and the clients ask it who is connected.
Panics(s) ==
  \/ reader[s] = "dispatching" /\ Cancelled(s)
  \/ reader[s] = "reading" /\ Open(s) /\ ~CanCount
  \/ heart[s] = "on" /\ ~CanCount

Crash(s) ==
  /\ Panics(s)
  /\ phase' = [r \in Sessions |-> "closed"] /\ gone' = {}
  /\ reader' = [r \in Sessions |-> "off"] /\ heart' = [r \in Sessions |-> "off"]
  /\ closing' = [r \in Sessions |-> "no"] /\ closer' = [r \in Sessions |-> "none"]
  /\ pipe' = <<>> /\ shown' = FALSE /\ met' = FALSE

Step(s) ==
  \/ Save(s) \/ SetUser(s) \/ CountConnected(s) \/ ConnectedPanics(s) \/ PushConnected(s)
  \/ Tick(s) \/ PushBeat(s) \/ DropBeat(s) \/ HeartEnds(s) \/ HeartPanics(s)
  \/ ReadFails(s) \/ WriteFails(s) \/ WriterPanics(s)
  \/ Announce(s) \/ CutOff(s) \/ Delete(s)
  \/ ReaderEnds(s) \/ Receive(s) \/ Dispatched(s)
  \/ ClientGone(s)
  \/ Crash(s)

PresenceNext == Feed \/ \E s \in Sessions : Step(s)

PresenceSpec == PresenceInit /\ [][PresenceNext]_presenceVars

\* Goroutines run; who waits for room in the pipe gets its turn (a Go channel
\* serves its senders in order); tickers tick; a read from a client that is gone
\* fails, and a message is dispatched in the end.
Fairness ==
  /\ WF_presenceVars(Feed)
  /\ \A s \in Sessions :
       /\ WF_presenceVars(SetUser(s) \/ CountConnected(s) \/ ConnectedPanics(s))
       /\ SF_presenceVars(PushConnected(s)) /\ SF_presenceVars(PushBeat(s)) /\ SF_presenceVars(Announce(s))
       /\ WF_presenceVars(Tick(s) \/ HeartPanics(s))
       /\ WF_presenceVars(CutOff(s) \/ Delete(s))
       /\ WF_presenceVars((s \in gone /\ ReadFails(s)) \/ Dispatched(s) \/ Crash(s))

FairSpec == PresenceSpec /\ Fairness

-----------------------------------------------------------------------------
\* When the last session has gone, and nothing is under way, the others are told
\* that the user is absent.  But not when two counts have met: a session that
\* closes and a heartbeat, or another that closes, each counted before the other
\* had left the store, and "present" was pushed last.
GoneIsShown ==
  Stored = {} /\ Beats = {} /\ pipe = <<>> => ~shown \/ met

\* A session that stays makes the others see its user in the end, whatever its
\* other sessions had counted before or go on to announce.
ShownWhileConnected ==
  \A s \in Sessions : <>[](Open(s) /\ heart[s] # "off") => <>[]shown

\* A session whose client is gone leaves the store, unless a panic has kept it.
GoneClientsAreForgotten ==
  \A s \in Sessions : s \in gone ~> phase[s] \in {"closed", "zombie"}
=============================================================================
