----------------------------- MODULE ChannelFeed -----------------------------
(***************************************************************************)
(* The live feed of one private channel (messaging): requests that invite, *)
(* add and remove members (service/channel.go), the bounded pipe of events *)
(* inside the process (repository/events.go), the goroutine that feeds     *)
(* them to the websocket sessions, and the sessions, which subscribe to    *)
(* the channels their user can read when they connect (websocket/).        *)
(*                                                                         *)
(* A request pushes its join or part event INSIDE its transaction, after   *)
(* it has written the row: the event may be fed before the transaction     *)
(* commits, and is not taken back when it does not.  A session reads the   *)
(* channels and subscribes to them in two steps.                           *)
(*                                                                         *)
(* The channel may be deleted, undeleted, archived and unarchived: a       *)
(* session does not find it among the channels it reads then, and no event *)
(* has it look again when the channel is back.                             *)
(*                                                                         *)
(* The pipe also carries messages, presence and the like; only the events  *)
(* that force a user's sessions to join or part change a subscription, and *)
(* the others are left out.  No permission rule overrides membership.      *)
(***************************************************************************)
EXTENDS Naturals, Sequences

CONSTANTS
  Users,
  Sessions,    \* websocket sessions; a closed one may be opened anew
  UserOf,      \* of each session
  Requests,    \* requests to channel membership, one at a time each
  Backlog,     \* capacity of the pipe
  Nobody

ASSUME FeedAssumption ==
  /\ UserOf \in [Sessions -> Users]
  /\ Backlog \in Nat \ {0}
  /\ Nobody \notin Users

VARIABLES
  row,       \* messaging_channel_member, committed
  off,       \* which of messaging_channel's deleted_at, archived_at are set
  pipe,      \* eventsPipe
  feeding,   \* the goroutine of feedSessions is there
  step,      \* of each request
  target,    \* the user whose membership it changes
  action,    \* what it does: "add", "invite" or "delete"
  seen,      \* the row it has read
  draft,     \* the row it has written and not committed
  session,   \* of each session, how far it has come
  readable,  \* the channel was among those the session has read
  subs,      \* sessions subscribed to the channel
  excused    \* history: sessions that may be subscribed wrongly, see below

requestVars == <<step, target, action, seen, draft>>
sessionVars == <<session, readable, subs>>
vars == <<row, off, pipe, feeding, requestVars, sessionVars, excused>>

\* An event that makes the sessions of a user join or part.  (void: history,
\* its transaction has not done what the event says.)
Event == [kind : {"join", "part"}, user : Users, void : BOOLEAN]
Row   == {"none", "invitee", "member"}   \* an owner is a member here

TypeOK ==
  /\ row \in [Users -> Row]
  /\ off \subseteq {"deleted", "archived"}
  /\ pipe \in Seq(Event) /\ Len(pipe) <= Backlog
  /\ feeding \in BOOLEAN
  /\ step \in [Requests -> {"idle", "read", "written", "pushed"}]
  /\ target \in [Requests -> Users \cup {Nobody}]
  /\ action \in [Requests -> {"add", "invite", "delete"}]
  /\ seen \in [Requests -> Row] /\ draft \in [Requests -> Row]
  /\ session \in [Sessions -> {"closed", "saved", "named", "read", "live"}]
  /\ readable \in [Sessions -> BOOLEAN]
  /\ subs \subseteq Sessions /\ excused \subseteq Sessions
  /\ \A s \in subs \cup excused : session[s] # "closed"

Init ==
  /\ row \in [Users -> Row] /\ off = {}
  /\ pipe = <<>> /\ feeding = TRUE
  /\ step = [q \in Requests |-> "idle"]
  /\ target = [q \in Requests |-> Nobody]
  /\ action = [q \in Requests |-> "add"]
  /\ seen = [q \in Requests |-> "none"] /\ draft = [q \in Requests |-> "none"]
  /\ session = [s \in Sessions |-> "closed"]
  /\ readable = [s \in Sessions |-> FALSE]
  /\ subs = {} /\ excused = {}

\* The sessions in the store, and those of a user the feed finds there
Stored     == {s \in Sessions : session[s] # "closed"}
StoredOf(u) == {s \in Stored : UserOf[s] = u}

\* Requests that hold the lock of u's row
Writing(u) == {q \in Requests : target[q] = u /\ step[q] \in {"written", "pushed"}}

\* Events for u that are not fed yet
Pending(u) == {i \in DOMAIN pipe : pipe[i].user = u}

-----------------------------------------------------------------------------
(* AddMember, InviteUser and DeleteMember, for one user *)

\* FindByID: nobody may read a channel that is deleted or archived.  The members
\* are read; what is there already, or gone already, is skipped.
ReadMembers(q, u, a) ==
  /\ step[q] = "idle" /\ off = {}
  /\ CASE a = "add"    -> row[u] # "member"
       [] a = "invite" -> row[u] = "none"
       [] a = "delete" -> row[u] # "none"
  /\ step' = [step EXCEPT ![q] = "read"]
  /\ target' = [target EXCEPT ![q] = u]
  /\ action' = [action EXCEPT ![q] = a]
  /\ seen' = [seen EXCEPT ![q] = row[u]]
  /\ UNCHANGED <<row, off, pipe, feeding, draft, sessionVars, excused>>

\* The row is inserted, updated or deleted as decided then, and locked.  An
\* insert fails when there is a row now; an update or a delete of a row that is
\* gone does nothing.
WriteMember(q) ==
  LET u == target[q]
      inserts == action[q] # "delete" /\ seen[q] = "none"
  IN  /\ step[q] = "read"
      /\ Writing(u) = {}
      /\ inserts => row[u] = "none"
      /\ draft' = [draft EXCEPT ![q] =
                     CASE action[q] = "invite" -> "invitee"
                       [] action[q] = "delete" -> "none"
                       [] action[q] = "add" /\ inserts -> "member"
                       [] OTHER -> IF row[u] = "none" THEN "none" ELSE "member"]
      /\ step' = [step EXCEPT ![q] = IF action[q] = "invite" THEN "pushed"
                                     ELSE "written"]
      /\ UNCHANGED <<row, off, pipe, feeding, target, action, seen, sessionVars, excused>>

\* event.Join or event.Part; Push waits for room in the pipe.
PushEvent(q) ==
  /\ step[q] = "written"
  /\ Len(pipe) < Backlog
  /\ pipe' = Append(pipe, [kind |-> IF action[q] = "add" THEN "join" ELSE "part",
                           user |-> target[q], void |-> FALSE])
  /\ step' = [step EXCEPT ![q] = "pushed"]
  /\ UNCHANGED <<row, off, feeding, target, action, seen, draft, sessionVars, excused>>

Ends(q) ==
  /\ step' = [step EXCEPT ![q] = "idle"]
  /\ target' = [target EXCEPT ![q] = Nobody]
  /\ action' = [action EXCEPT ![q] = "add"]
  /\ seen' = [seen EXCEPT ![q] = "none"]
  /\ draft' = [draft EXCEPT ![q] = "none"]

\* The event of q misleads: it is void if it is still in the pipe, where it is
\* the last one of its user; else it has misled the sessions it was fed to.
Misleads(q) ==
  IF Pending(target[q]) = {}
  THEN /\ excused' = excused \cup StoredOf(target[q])
       /\ UNCHANGED pipe
  ELSE /\ LET last == CHOOSE i \in Pending(target[q]) :
                        \A j \in Pending(target[q]) : j <= i
          IN  pipe' = [pipe EXCEPT ![last].void = TRUE]
       /\ UNCHANGED excused

\* An add that has updated no row has pushed a join for nobody.
Commit(q) ==
  /\ step[q] = "pushed"
  /\ row' = [row EXCEPT ![target[q]] = draft[q]]
  /\ IF action[q] = "add" /\ draft[q] = "none" THEN Misleads(q)
     ELSE UNCHANGED <<pipe, excused>>
  /\ Ends(q)
  /\ UNCHANGED <<off, feeding, sessionVars>>

\* A statement fails, here or for another member of the list, or the commit
\* does: the row is as before.  (A deadlock has the request tried again.)
Rollback(q) ==
  /\ step[q] # "idle"
  /\ IF step[q] = "pushed" /\ action[q] # "invite" THEN Misleads(q)
     ELSE UNCHANGED <<pipe, excused>>
  /\ Ends(q)
  /\ UNCHANGED <<row, off, feeding, sessionVars>>

-----------------------------------------------------------------------------
(* Delete, Archive, and back.  Members and subscriptions stay, and so do the *)
(* requests under way; the clients are told, to show the channel or not.     *)

Withdraw(mark) ==
  /\ mark \notin off
  /\ off' = off \cup {mark}
  /\ UNCHANGED <<row, pipe, feeding, requestVars, sessionVars, excused>>

Restore(mark) ==
  /\ mark \in off
  /\ off' = off \ {mark}
  /\ UNCHANGED <<row, pipe, feeding, requestVars, sessionVars, excused>>

Delete    == Withdraw("deleted")
Undelete  == Restore("deleted")
Archive   == Withdraw("archived")
Unarchive == Restore("archived")

-----------------------------------------------------------------------------
(* Sessions *)

\* The session is in the store before it has its user ...
Open(s) ==
  /\ session[s] = "closed"
  /\ session' = [session EXCEPT ![s] = "saved"]
  /\ UNCHANGED <<row, off, pipe, feeding, requestVars, readable, subs, excused>>

\* ... here.
SetUser(s) ==
  /\ session[s] = "saved"
  /\ session' = [session EXCEPT ![s] = "named"]
  /\ UNCHANGED <<row, off, pipe, feeding, requestVars, readable, subs, excused>>

\* Find: the channel is neither deleted nor archived, and u can read it.
Finds(u) == off = {} /\ row[u] # "none"

\* connected: the channels its user finds.  What a request has written and not
\* committed is not among them, although its event may be fed already.
ReadChannels(s) ==
  LET u == UserOf[s]
      missed == row[u] = "member" /\ ~Finds(u) /\ s \notin subs
      wrong == \E q \in Writing(u) :
                 /\ step[q] = "pushed" /\ action[q] # "invite" /\ Pending(u) = {}
                 /\ (s \in subs \/ Finds(u)) # (draft[q] # "none")
  IN  /\ session[s] = "named"
      /\ readable' = [readable EXCEPT ![s] = Finds(u)]
      /\ session' = [session EXCEPT ![s] = "read"]
      /\ excused' = IF wrong \/ missed THEN excused \cup {s} ELSE excused
      /\ UNCHANGED <<row, off, pipe, feeding, requestVars, subs>>

\* The channels cannot be read: it is logged, and the session goes on.
ReadChannelsFails(s) ==
  /\ session[s] = "named"
  /\ session' = [session EXCEPT ![s] = "read"]
  /\ excused' = excused \cup {s}
  /\ UNCHANGED <<row, off, pipe, feeding, requestVars, readable, subs>>

\* It is subscribed to what it has read, and Handle starts its loops.
Subscribe(s) ==
  /\ session[s] = "read"
  /\ subs' = IF readable[s] THEN subs \cup {s} ELSE subs
  /\ readable' = [readable EXCEPT ![s] = FALSE]
  /\ session' = [session EXCEPT ![s] = "live"]
  /\ UNCHANGED <<row, off, pipe, feeding, requestVars, excused>>

\* A client asks to join or to part: nobody looks at the members.
ClientJoins(s) ==
  /\ session[s] = "live"
  /\ subs' = subs \cup {s}
  /\ excused' = excused \cup {s}
  /\ UNCHANGED <<row, off, pipe, feeding, requestVars, session, readable>>

ClientParts(s) ==
  /\ session[s] = "live"
  /\ subs' = subs \ {s}
  /\ excused' = excused \cup {s}
  /\ UNCHANGED <<row, off, pipe, feeding, requestVars, session, readable>>

\* Close, which deletes it from the store.
Close(s) ==
  /\ session[s] \in {"read", "live"}
  /\ session' = [session EXCEPT ![s] = "closed"]
  /\ readable' = [readable EXCEPT ![s] = FALSE]
  /\ subs' = subs \ {s}
  /\ excused' = excused \ {s}
  /\ UNCHANGED <<row, off, pipe, feeding, requestVars>>

-----------------------------------------------------------------------------
(* The feed *)

\* The sessions that are misled by an event, and those it sets right
Misled(e) ==
  {s \in StoredOf(e.user) :
     e.void \/ (e.kind = "part" /\ session[s] = "read" /\ readable[s])}

\* A fault: only the first session of the user is found.
FeedOne ==
  /\ feeding /\ pipe # <<>>
  /\ \A s \in Stored : session[s] # "saved"
  /\ LET e == Head(pipe)
     IN  /\ \E s \in StoredOf(e.user) :
              subs' = IF e.kind = "join" THEN subs \cup {s} ELSE subs \ {s}
         /\ excused' = (excused \ StoredOf(e.user)) \cup Misled(e)
  /\ pipe' = Tail(pipe)
  /\ UNCHANGED <<row, off, feeding, requestVars, session, readable>>

\* feedSessions takes an event from the pipe and walks over all sessions.
Feed ==
  /\ feeding /\ pipe # <<>>
  /\ \A s \in Stored : session[s] # "saved"
  /\ LET e == Head(pipe)
     IN  /\ subs' = IF e.kind = "join" THEN subs \cup StoredOf(e.user)
                    ELSE subs \ StoredOf(e.user)
         /\ excused' = (excused \ StoredOf(e.user)) \cup Misled(e)
  /\ pipe' = Tail(pipe)
  /\ UNCHANGED <<row, off, feeding, requestVars, session, readable>>

\* It meets a session without its user and panics.  When Sentry is configured
\* its goroutine ends, with the event taken and fed to those sessions it has
\* come to before, and nothing feeds the ones that follow.  When not, Crash.
FeedPanics ==
  /\ feeding /\ pipe # <<>>
  /\ \E s \in Stored : session[s] = "saved"
  /\ LET e == Head(pipe)
         ready == {s \in StoredOf(e.user) : session[s] # "saved"}
     IN  /\ \E S \in SUBSET ready :
              subs' = IF e.kind = "join" THEN subs \cup S ELSE subs \ S
         /\ excused' = excused \cup ready
  /\ pipe' = Tail(pipe)
  /\ feeding' = FALSE
  /\ UNCHANGED <<row, off, requestVars, session, readable>>

\* The process ends and is started anew.  Sessions and events are gone,
\* transactions are rolled back.
Crash ==
  /\ pipe' = <<>> /\ feeding' = TRUE
  /\ step' = [q \in Requests |-> "idle"]
  /\ target' = [q \in Requests |-> Nobody]
  /\ action' = [q \in Requests |-> "add"]
  /\ seen' = [q \in Requests |-> "none"] /\ draft' = [q \in Requests |-> "none"]
  /\ session' = [s \in Sessions |-> "closed"]
  /\ readable' = [s \in Sessions |-> FALSE]
  /\ subs' = {} /\ excused' = {}
  /\ UNCHANGED <<row, off>>

RequestStep(q) ==
  \/ \E u \in Users, a \in {"add", "invite", "delete"} : ReadMembers(q, u, a)
  \/ WriteMember(q)
  \/ PushEvent(q)
  \/ Commit(q)
  \/ Rollback(q)

SessionStep(s) ==
  \/ Open(s) \/ SetUser(s)
  \/ ReadChannels(s) \/ ReadChannelsFails(s) \/ Subscribe(s)
  \/ ClientJoins(s) \/ ClientParts(s)
  \/ Close(s)

Next ==
  \/ \E q \in Requests : RequestStep(q)
  \/ \E s \in Sessions : SessionStep(s)
  \/ Delete \/ Undelete \/ Archive \/ Unarchive
  \/ Feed
  \/ FeedPanics
  \/ Crash

Spec == Init /\ [][Next]_vars

-----------------------------------------------------------------------------
\* A subscription "holds a channel that the user is joined to": with no request
\* for the user under way and no event of it in the pipe, a live session is
\* subscribed if its user is a member, and only if its user is at least invited.
\* It may be wrong only after one of these, and until the next join or part of
\* its user is fed: the client has asked for it itself, its channels could not
\* be read, it has connected while the membership was changing or the channel was
\* deleted or archived, a request has pushed an event for a change that did not
\* happen, or the feed has died on one.
SubscribedAsMember ==
  \A s \in Sessions :
    LET u == UserOf[s]
    IN  session[s] = "live" /\ s \notin excused /\ Writing(u) = {} /\ Pending(u) = {}
          => /\ row[u] = "member" => s \in subs
             /\ s \in subs => row[u] # "none"

=============================================================================
