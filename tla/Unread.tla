-------------------------------- MODULE Unread --------------------------------
(***************************************************************************)
(* Messages of one channel, the replies to one of them, and the counters   *)
(* of unread messages of every member (messaging/service/message.go and    *)
(* its repositories).                                                      *)
(*                                                                         *)
(* Every request is one transaction: what it reads is a snapshot of the    *)
(* moment it begins (Begin...), what it writes takes effect when it        *)
(* commits (Commit...), on the rows as they are then: it has locked them,  *)
(* or waited for who had.  Between the two, others commit.                 *)
(*                                                                         *)
(* Message Root exists from the start; the others have numbers in the      *)
(* order in which they were asked for.  Members do not change.  Mentions,  *)
(* flags, attachments and the events that report all this are left out.    *)
(***************************************************************************)
EXTENDS Naturals, FiniteSets

CONSTANTS
  Users,        \* members of the channel
  Requests,
  MaxMessages,  \* bound on the messages ever created, Root included
  Nobody

ASSUME UnreadAssumption == /\ MaxMessages \in Nat \ {0}
                           /\ Nobody \notin Users

Root     == 1
Messages == 1..MaxMessages
Lists    == {"channel", "thread"}   \* rel_reply_to is 0 or Root

VARIABLES
  state,    \* of each message
  author, list,  \* who has written it, and where
  replies,  \* the counter in the row of Root
  rows,     \* users with an unread row for the thread
  count,    \* in the unread row of each user and list
  lastID,   \* the last number given to a message
  op,       \* of each request: what it does
  by, msg, where,  \* for whom, with which message, in which list
  known,    \* the live messages of that list in its snapshot
  read,     \* what it has read or counted: replies, or unread messages
  unread,   \* history: what each user has not seen, had the counters been sets
  blurred,  \* history: counters that are known to be wrong, see below
  miscounted  \* history: so is that of the replies

rowVars == <<state, author, list, replies, rows, count>>
reqVars == <<op, by, msg, where, known, read>>
history == <<unread, blurred, miscounted>>
vars    == <<rowVars, lastID, reqVars, history>>

Ops == {"idle", "create", "looping", "update", "delete", "mark"}
Counters == Users \X Lists

TypeOK ==
  /\ state \in [Messages -> {"absent", "live", "deleted"}]
  /\ author \in [Messages -> Users \cup {Nobody}] /\ list \in [Messages -> Lists]
  /\ \A m \in Messages : state[m] # "absent" => m <= lastID /\ author[m] \in Users
  /\ replies \in 0..MaxMessages
  /\ rows \subseteq Users
  /\ count \in [Counters -> 0..MaxMessages]
  /\ \A u \in Users \ rows : count[<<u, "thread">>] = 0
  /\ lastID \in Messages
  /\ op \in [Requests -> Ops] /\ by \in [Requests -> Users \cup {Nobody}]
  /\ msg \in [Requests -> 0..MaxMessages] /\ where \in [Requests -> Lists]
  /\ known \in [Requests -> SUBSET Messages] /\ read \in [Requests -> 0..MaxMessages]
  /\ unread \in [Counters -> SUBSET Messages]
  /\ blurred \subseteq Counters /\ miscounted \in BOOLEAN

Init ==
  /\ state = [m \in Messages |-> IF m = Root THEN "live" ELSE "absent"]
  /\ \E u \in Users : author = [m \in Messages |-> IF m = Root THEN u ELSE Nobody]
  /\ list = [m \in Messages |-> "channel"]
  /\ replies = 0 /\ rows = {}
  /\ count = [c \in Counters |-> 0]
  /\ lastID = Root
  /\ op = [q \in Requests |-> "idle"] /\ by = [q \in Requests |-> Nobody]
  /\ msg = [q \in Requests |-> 0] /\ where = [q \in Requests |-> "channel"]
  /\ known = [q \in Requests |-> {}] /\ read = [q \in Requests |-> 0]
  /\ unread = [c \in Counters |-> {}] /\ blurred = {} /\ miscounted = FALSE

Live(l)    == {m \in Messages : state[m] = "live" /\ list[m] = l}
HasRow(u, l) == l = "channel" \/ u \in rows

-----------------------------------------------------------------------------
Begins(q, o, u, m, s, l, r) ==
  /\ op[q] = "idle"
  /\ op' = [op EXCEPT ![q] = o] /\ by' = [by EXCEPT ![q] = u]
  /\ msg' = [msg EXCEPT ![q] = m] /\ where' = [where EXCEPT ![q] = l]
  /\ known' = [known EXCEPT ![q] = s]
  /\ read' = [read EXCEPT ![q] = r]

Ends(q) ==
  /\ op' = [op EXCEPT ![q] = "idle"] /\ by' = [by EXCEPT ![q] = Nobody]
  /\ msg' = [msg EXCEPT ![q] = 0] /\ where' = [where EXCEPT ![q] = "channel"]
  /\ known' = [known EXCEPT ![q] = {}] /\ read' = [read EXCEPT ![q] = 0]

\* The transaction fails: a check refuses it, or a statement fails.
Rollback(q) ==
  /\ op[q] # "idle"
  /\ Ends(q)
  /\ UNCHANGED <<rowVars, lastID, history>>

\* Messages of the list were committed, or deleted, since the snapshot.
Raced(q)  == Live(where[q]) # known[q]

\* s is what the counters should count.  Those of cs are wrong from here on; of
\* a wrong one it is not kept what it should count.
Blur(cs, s) ==
  /\ blurred' = blurred \cup cs
  /\ unread' = [c \in Counters |-> IF c \in blurred' THEN {} ELSE s[c]]

\* The counters of cs were written; they are right unless it raced.
Sharpen(cs, wrong, s) ==
  /\ blurred' = (blurred \ cs) \cup wrong
  /\ unread' = [c \in Counters |-> IF c \in blurred' THEN {} ELSE s[c]]

-----------------------------------------------------------------------------
(* Create *)

\* A reply needs its original, of which it reads the counter.
BeginCreate(q, u, l) ==
  /\ lastID < MaxMessages
  /\ l = "thread" => state[Root] = "live"
  /\ lastID' = lastID + 1
  /\ Begins(q, "create", u, lastID + 1, Live(l), l, IF l = "thread" THEN replies ELSE 0)
  /\ UNCHANGED <<rowVars, history>>

\* A fault: the first reply presets nothing.
NoPreset(q) == {}

\* The first reply gives every member an unread row.
Preset(q) == IF where[q] = "thread" /\ read[q] = 0 THEN Users ELSE {}

\* The author's counter is reset, those of all others who have one incremented.
CommitCreate(q) ==
  LET u == by[q]  l == where[q]  m == msg[q]
      others == {v \in Users \ {u} : HasRow(v, l) \/ v \in Preset(q)}
  IN  /\ op[q] = "create"
      /\ state' = [state EXCEPT ![m] = "live"]
      /\ author' = [author EXCEPT ![m] = u]
      /\ list' = [list EXCEPT ![m] = l]
      /\ IF l = "thread" THEN /\ replies' = replies + 1
                              /\ rows' = rows \cup Preset(q) \cup {u}
         ELSE UNCHANGED <<replies, rows>>
      /\ count' = [c \in Counters |->
                     IF c = <<u, l>> THEN 0
                     ELSE IF c[2] = l /\ c[1] \in others THEN count[c] + 1 ELSE count[c]]
      /\ Sharpen({<<u, l>>}, IF Raced(q) THEN {<<u, l>>} ELSE {},
                 [c \in Counters |-> IF c = <<u, l>> THEN {}
                                     ELSE IF c[2] = l THEN unread[c] \cup {m} ELSE unread[c]])
      /\ Ends(q)
      /\ UNCHANGED <<lastID, miscounted>>

\* A reply to a reply looks for the original of the thread: the loop finds the
\* same message again and again.  (Rollback when the client gives up.)
BeginReplyToReply(q, m) ==
  /\ state[m] = "live" /\ list[m] = "thread"
  /\ Begins(q, "looping", Nobody, 0, {}, "channel", 0)
  /\ UNCHANGED <<rowVars, lastID, history>>

-----------------------------------------------------------------------------
(* Update *)

BeginUpdate(q, m) ==
  /\ state[m] = "live"
  /\ Begins(q, "update", Nobody, m, {}, "channel", IF m = Root THEN replies ELSE 0)
  /\ UNCHANGED <<rowVars, lastID, history>>

\* A fault: the row is written without the counter that was read.
UncountedReplies(q) == IF msg[q] = Root THEN 0 ELSE replies

\* The counter in the row as it was read
WrittenReplies(q) == IF msg[q] = Root THEN read[q] ELSE replies

\* The whole row is replaced by the one that was read: neither deleted, nor with
\* any reply that was counted since.
CommitUpdate(q) ==
  LET m == msg[q]
  IN  /\ op[q] = "update"
      /\ state' = [state EXCEPT ![m] = "live"]
      /\ replies' = WrittenReplies(q)
      /\ Blur(IF state[m] = "live" THEN {} ELSE Users \X {list[m]}, unread)
      /\ miscounted' = \/ miscounted
                       \/ m = Root /\ read[q] # replies
                       \/ list[m] = "thread" /\ state[m] # "live"
      /\ Ends(q)
      /\ UNCHANGED <<author, list, rows, count, lastID>>

-----------------------------------------------------------------------------
(* Delete *)

\* Deleting a reply needs its original.
BeginDelete(q, m) ==
  /\ state[m] = "live"
  /\ list[m] = "thread" => state[Root] = "live"
  /\ Begins(q, "delete", Nobody, m, {}, "channel", 0)
  /\ UNCHANGED <<rowVars, lastID, history>>

\* A fault: only counters above 1 are decremented.
DecrementedAboveOne(l, u) ==
  [c \in Counters |-> IF c = <<u, l>> THEN 0
                      ELSE IF c[2] = l /\ count[c] > 1 THEN count[c] - 1 ELSE count[c]]

\* Dec: every counter of the list that is not 0, whether or not its user had
\* seen the message; then the author's counter is set to 0.
Decremented(l, u) ==
  [c \in Counters |-> IF c = <<u, l>> THEN 0
                      ELSE IF c[2] = l /\ count[c] > 0 THEN count[c] - 1 ELSE count[c]]

\* Counters that do not tell how many messages their users have not seen after a
\* delete of m: those of users who had seen it but not all others, and of its
\* author.  Deleted twice, it is subtracted twice.
Wronged(m) ==
  {c \in Counters : /\ c[2] = list[m] /\ count[c] > 0
                    /\ c[1] = author[m] \/ m \notin unread[c] \/ state[m] # "live"}

\* The counter of replies is unsigned: when it is 0 the statement fails.
CommitDelete(q) ==
  LET m == msg[q]  l == list[m]
  IN  /\ op[q] = "delete"
      /\ l = "thread" => replies > 0
      /\ replies' = IF l = "thread" THEN replies - 1 ELSE replies
      /\ state' = [state EXCEPT ![m] = "deleted"]
      /\ count' = Decremented(l, author[m])
      /\ rows' = IF l = "thread" THEN rows \cup {author[m]} ELSE rows
      /\ Blur(Wronged(m), [c \in Counters |-> unread[c] \ {m}])
      /\ miscounted' = (miscounted \/ (l = "thread" /\ state[m] # "live"))
      /\ Ends(q)
      /\ UNCHANGED <<author, list, lastID>>

-----------------------------------------------------------------------------
(* MarkAsRead *)

Newer(l, m) == {n \in Live(l) : n > m}

\* Up to message m, or all of the list: then nothing is counted.
BeginMark(q, u, l, m) ==
  /\ l = "thread" => state[Root] = "live"
  /\ m = 0 \/ m \in Live(l)
  /\ Begins(q, "mark", u, m, Live(l), l, IF m = 0 THEN 0 ELSE Cardinality(Newer(l, m)))
  /\ UNCHANGED <<rowVars, lastID, history>>

\* Of what it knew, what the user has not seen
Left(q) == IF msg[q] = 0 THEN {} ELSE {m \in known[q] : m > msg[q]}

CommitMarkThread(q) ==
  /\ op[q] = "mark" /\ where[q] = "thread"
  /\ count' = [count EXCEPT ![<<by[q], "thread">>] = read[q]]
  /\ Sharpen({<<by[q], "thread">>}, IF Raced(q) THEN {<<by[q], "thread">>} ELSE {},
             [unread EXCEPT ![<<by[q], "thread">>] = Left(q)])
  /\ rows' = rows \cup {by[q]}
  /\ Ends(q)
  /\ UNCHANGED <<state, author, list, replies, lastID, miscounted>>

\* A channel is marked with all its threads.
CommitMarkChannel(q) ==
  LET u == by[q]
  IN  /\ op[q] = "mark" /\ where[q] = "channel"
      /\ count' = [count EXCEPT ![<<u, "channel">>] = read[q], ![<<u, "thread">>] = 0]
      /\ Sharpen({u} \X Lists, IF Raced(q) THEN {<<u, "channel">>} ELSE {},
                 [unread EXCEPT ![<<u, "channel">>] = Left(q), ![<<u, "thread">>] = {}])
      /\ Ends(q)
      /\ UNCHANGED <<state, author, list, replies, rows, lastID, miscounted>>

-----------------------------------------------------------------------------
Begin(q) ==
  \/ \E u \in Users, l \in Lists : BeginCreate(q, u, l)
  \/ \E m \in Messages : BeginReplyToReply(q, m) \/ BeginUpdate(q, m) \/ BeginDelete(q, m)
  \/ \E u \in Users, l \in Lists, m \in 0..MaxMessages : BeginMark(q, u, l, m)

Commit(q) ==
  CommitCreate(q) \/ CommitUpdate(q) \/ CommitDelete(q)
    \/ CommitMarkThread(q) \/ CommitMarkChannel(q)

Next == \E q \in Requests : Begin(q) \/ Commit(q) \/ Rollback(q)

Spec == Init /\ [][Next]_vars

-----------------------------------------------------------------------------
\* A counter tells how many messages its user has not seen.  It may be wrong
\* until it is next written, when the user posted or marked messages as read
\* while somebody else's message came or went, when a message was deleted that
\* the user had seen or written, was deleted twice, or came back.
CountsUnseen ==
  \A c \in Counters \ blurred : count[c] = Cardinality(unread[c])

\* Whatever the races, a member who has no unread row for the thread has missed
\* no reply: the first one presets the rows of all.
NobodyMissesAThread ==
  \A u \in Users \ rows : \A m \in Messages :
    state[m] = "live" /\ list[m] = "thread" => author[m] = u

\* The original counts its live replies, but after it was edited while they
\* changed, and after a reply was deleted twice or came back.
CountsReplies == miscounted \/ replies = Cardinality(Live("thread"))

=============================================================================
