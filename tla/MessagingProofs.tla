---------------------------- MODULE MessagingProofs ----------------------------
(***************************************************************************)
(* What messaging tells its users, for any members, requests, sessions and *)
(* number of messages: the counters of unread messages and of replies      *)
(* count what they should but where a race or a second delete is known to  *)
(* have made them wrong, and no member misses a thread; and when all       *)
(* sessions of a user have gone the others are told so, unless two counts  *)
(* of them have met.                                                       *)
(***************************************************************************)
EXTENDS Unread, Presence, FiniteSetTheorems, TLAPS

\* the messages that were ever committed, and those of one list
Made      == {m \in Messages : state[m] # "absent"}
MadeIn(l) == {m \in Made : list[m] = l}

\* Every variable has its type; the bounds on the counters are for Bounded.
Types ==
  /\ state \in [Messages -> {"absent", "live", "deleted"}]
  /\ author \in [Messages -> Users \cup {Nobody}] /\ list \in [Messages -> Lists]
  /\ \A m \in Made : m <= lastID /\ author[m] \in Users
  /\ replies \in Nat
  /\ rows \subseteq Users
  /\ count \in [Counters -> Nat]
  /\ \A u \in Users \ rows : count[<<u, "thread">>] = 0
  /\ lastID \in Messages
  /\ op \in [Requests -> Ops] /\ by \in [Requests -> Users \cup {Nobody}]
  /\ msg \in [Requests -> 0..MaxMessages] /\ where \in [Requests -> Lists]
  /\ known \in [Requests -> SUBSET Messages] /\ read \in [Requests -> Nat]
  /\ unread \in [Counters -> SUBSET Messages]
  /\ blurred \subseteq Counters /\ miscounted \in BOOLEAN

\* No counter grows but for a message.
Bounded ==
  /\ replies <= Cardinality(Made)
  /\ \A c \in Counters : count[c] <= Cardinality(Made)

\* What a request has read holds of messages that will not go away; the message
\* it creates is nobody else's.
Asked ==
  \A q \in Requests :
    /\ op[q] \in {"create", "mark"} => by[q] \in Users
    /\ op[q] = "create" =>
         /\ msg[q] \in 1..lastID /\ state[msg[q]] = "absent"
         /\ \A p \in Requests \ {q} : op[p] = "create" => msg[p] # msg[q]
    /\ op[q] \in {"update", "delete"} => msg[q] \in Made
    /\ op[q] = "mark" => read[q] = Cardinality(Left(q))
    /\ known[q] \subseteq MadeIn(where[q])
    /\ read[q] <= Cardinality(Made)

\* Nobody has messages of one list to read in the other.
Sorted ==
  /\ Root \in MadeIn("channel")
  /\ \A c \in Counters : unread[c] \subseteq MadeIn(c[2])

\* Before the first reply there is nothing that a member without an unread row
\* could miss, and whoever posts a reply or writes Root knows that.
Threaded ==
  \/ rows = Users
  \/ /\ replies = 0
     /\ MadeIn("thread") = {}
     /\ \A q \in Requests : op[q] \in {"create", "update"} => read[q] = 0

IInv == Types /\ Bounded /\ Asked /\ Sorted /\ Threaded

-----------------------------------------------------------------------------
(* Sets of messages, and counters *)

\* There are finitely many messages, so they can be counted.
LEMMA Countable ==
  ASSUME NEW S \in SUBSET Messages
  PROVE  /\ IsFiniteSet(S)
         /\ Cardinality(S) \in 0..MaxMessages
<1>1. MaxMessages \in Int /\ 1 \in Int /\ MaxMessages >= 1
  BY UnreadAssumption
<1>2. IsFiniteSet(Messages) /\ Cardinality(Messages) = MaxMessages
  BY <1>1, FS_Interval DEF Messages
<1>3. IsFiniteSet(S) /\ Cardinality(S) <= MaxMessages
  BY <1>2, FS_Subset
<1>4. Cardinality(S) \in Nat
  BY <1>3, FS_CardinalityType
<1> QED
  BY <1>1, <1>3, <1>4

\* The counter of a user and a list, and how it is read as a pair
LEMMA CounterOf ==
  /\ \A u \in Users, l \in Lists :
       <<u, l>> \in Counters /\ <<u, l>>[1] = u /\ <<u, l>>[2] = l
  /\ \A c \in Counters : c[1] \in Users /\ c[2] \in Lists /\ c = <<c[1], c[2]>>
BY DEF Counters

LEMMA RootIsAMessage == Root \in Messages
BY UnreadAssumption DEF Root, Messages

-----------------------------------------------------------------------------
(* Requests *)

\* A request that begins with what it may read keeps the invariant.
LEMMA BeginsKeeps ==
  ASSUME IInv,
         NEW q \in Requests, NEW o \in Ops, NEW u \in Users \cup {Nobody},
         NEW m \in 0..MaxMessages, NEW l \in Lists, NEW s \in SUBSET MadeIn(l),
         NEW r \in Nat,
         Begins(q, o, u, m, s, l, r),
         UNCHANGED <<rowVars, history>>,
         lastID' \in Messages, lastID' >= lastID,
         o \in {"create", "mark"} => u \in Users,
         o = "create" => lastID' = lastID + 1 /\ m = lastID',
         o \in {"update", "delete"} => m \in Made,
         o = "mark" => r = Cardinality(IF m = 0 THEN {} ELSE {n \in s : n > m}),
         r <= Cardinality(Made),
         o \in {"create", "update"} => rows = Users \/ r = 0
  PROVE  IInv'
<1> USE DEF IInv
<1>1. state' = state /\ list' = list /\ author' = author /\ replies' = replies
      /\ rows' = rows /\ count' = count /\ unread' = unread /\ blurred' = blurred
      /\ miscounted' = miscounted
  BY DEF rowVars, history
<1>2. Made' = Made /\ \A k : MadeIn(k)' = MadeIn(k)
  BY <1>1 DEF Made, MadeIn
<1>3. s \in SUBSET Messages
  BY DEF MadeIn, Made
<1>4. Types'
  <2>1. op' \in [Requests -> Ops] /\ by' \in [Requests -> Users \cup {Nobody}]
        /\ msg' \in [Requests -> 0..MaxMessages] /\ where' \in [Requests -> Lists]
    BY DEF Begins, Types
  <2>2. known' \in [Requests -> SUBSET Messages] /\ read' \in [Requests -> Nat]
    BY <1>3 DEF Begins, Types
  <2>3. \A n \in Made : n <= lastID'
    BY DEF Types, Made, Messages
  <2> QED
    BY <1>1, <1>2, <2>1, <2>2, <2>3 DEF Types
<1>5. Bounded' /\ Sorted'
  BY <1>1, <1>2 DEF Bounded, Sorted, Root
<1>6. Threaded'
  <2>1. CASE rows = Users
    BY <1>1, <2>1 DEF Threaded
  <2>2. CASE rows # Users
    <3>1. \A p \in Requests : op'[p] \in {"create", "update"} => read'[p] = 0
      BY <2>2 DEF Threaded, Begins, Types
    <3> QED
      BY <1>1, <1>2, <2>2, <3>1 DEF Threaded
  <2> QED
    BY <2>1, <2>2
<1>7. Asked'
  <2>1. ASSUME NEW p \in Requests \ {q}
        PROVE  /\ op'[p] = op[p] /\ by'[p] = by[p] /\ msg'[p] = msg[p]
               /\ where'[p] = where[p] /\ known'[p] = known[p] /\ read'[p] = read[p]
               /\ Left(p)' = Left(p)
    BY DEF Begins, Types, Left
  <2>2. /\ op'[q] = o /\ by'[q] = u /\ msg'[q] = m /\ where'[q] = l
        /\ known'[q] = s /\ read'[q] = r
    BY DEF Begins, Types
  <2>3. Left(q)' = IF m = 0 THEN {} ELSE {n \in s : n > m}
    BY <2>2 DEF Left
  <2>4. \A p \in Requests : op[p] = "create" => msg[p] <= lastID /\ msg[p] >= 1
    BY DEF Asked, Types, Messages
  <2>5. o = "create" => /\ m \in 1..lastID' /\ state[m] = "absent"
                        /\ \A p \in Requests \ {q} : op[p] = "create" => msg[p] # m
    <3>1. lastID \in Nat /\ lastID \in Messages /\ lastID + 1 > lastID
      BY DEF Types, Messages
    <3>2. lastID + 1 \notin Made
      BY <3>1 DEF Types
    <3> QED
      BY <3>1, <3>2, <2>4 DEF Made, Messages
  <2>6. \A p \in Requests \ {q} : op[p] = "create" => msg[p] \in 1..lastID'
    BY <2>4 DEF Types, Messages
  <2>7. ASSUME NEW p \in Requests \ {q}
        PROVE  /\ op'[p] \in {"create", "mark"} => by'[p] \in Users
               /\ op'[p] = "create" =>
                    /\ msg'[p] \in 1..lastID' /\ state'[msg'[p]] = "absent"
                    /\ \A n \in Requests \ {p} : op'[n] = "create" => msg'[n] # msg'[p]
               /\ op'[p] \in {"update", "delete"} => msg'[p] \in Made'
               /\ op'[p] = "mark" => read'[p] = Cardinality(Left(p)')
               /\ known'[p] \subseteq MadeIn(where[p])
               /\ read'[p] <= Cardinality(Made')
    <3>1. \A n \in Requests \ {p, q} : op'[n] = op[n] /\ msg'[n] = msg[n]
      BY <2>1
    <3>2. \A n \in Requests \ {p, q} :
            op[p] = "create" /\ op[n] = "create" => msg[n] # msg[p]
      BY DEF Asked
    <3>3. op'[p] = "create" =>
            \A n \in Requests \ {p} : op'[n] = "create" => msg'[n] # msg'[p]
      BY <2>1, <2>2, <2>5, <3>1, <3>2
    <3> QED
      BY <1>1, <1>2, <2>1, <2>6, <3>3 DEF Asked
  <2>8. /\ op'[q] \in {"create", "mark"} => by'[q] \in Users
        /\ op'[q] = "create" =>
             /\ msg'[q] \in 1..lastID' /\ state'[msg'[q]] = "absent"
             /\ \A n \in Requests \ {q} : op'[n] = "create" => msg'[n] # msg'[q]
        /\ op'[q] \in {"update", "delete"} => msg'[q] \in Made'
        /\ op'[q] = "mark" => read'[q] = Cardinality(Left(q)')
        /\ known'[q] \subseteq MadeIn(l)
        /\ read'[q] <= Cardinality(Made')
    BY <1>1, <1>2, <2>1, <2>2, <2>3, <2>5
  <2>9. \A p \in Requests : MadeIn(where[p])' = MadeIn(where'[p])
    BY <1>1 DEF MadeIn, Made
  <2> QED
    BY <1>2, <2>1, <2>2, <2>7, <2>8, <2>9 DEF Asked, MadeIn
<1> QED
  BY <1>4, <1>5, <1>6, <1>7

\* Every request begins with what it may read.
LEMMA BeginKeeps ==
  ASSUME IInv, NEW q \in Requests, Begin(q)
  PROVE  IInv'
<1> USE DEF IInv
<1>1. /\ lastID \in Messages /\ lastID \in Nat /\ MaxMessages \in Nat
      /\ \A m \in Messages : m \in 0..MaxMessages
  BY UnreadAssumption DEF Types, Messages
<1>2. \A l \in Lists : Live(l) \in SUBSET MadeIn(l) /\ {} \in SUBSET MadeIn(l)
  BY DEF Live, MadeIn, Made
<1>3. "channel" \in Lists /\ "thread" \in Lists
  BY DEF Lists
<1>4. replies <= Cardinality(Made) /\ 0 <= Cardinality(Made) /\ replies \in Nat
  BY Countable DEF Bounded, Types, Made
<1>5. rows = Users \/ replies = 0
  BY DEF Threaded
<1>6. ASSUME NEW u \in Users, NEW l \in Lists, BeginCreate(q, u, l)
      PROVE  IInv'
  <2>1. lastID' = lastID + 1 /\ lastID + 1 \in Messages
        /\ lastID + 1 \in 0..MaxMessages
    BY <1>1, <1>6 DEF BeginCreate, Messages
  <2>2. Begins(q, "create", u, lastID + 1, Live(l), l,
               IF l = "thread" THEN replies ELSE 0)
    BY <1>6 DEF BeginCreate
  <2>3. UNCHANGED <<rowVars, history>>
    BY <1>6 DEF BeginCreate
  <2> HIDE DEF IInv
  <2> QED
    BY <1>1, <1>2, <1>4, <1>5, <2>1, <2>2, <2>3, BeginsKeeps DEF Ops
<1>7. ASSUME NEW m \in Messages, BeginReplyToReply(q, m)
      PROVE  IInv'
  <2>1. Begins(q, "looping", Nobody, 0, {}, "channel", 0)
        /\ UNCHANGED <<rowVars, history>> /\ lastID' = lastID
    BY <1>7 DEF BeginReplyToReply
  <2> HIDE DEF IInv
  <2> QED
    BY <1>1, <1>2, <1>3, <1>4, <2>1, BeginsKeeps DEF Ops
<1>8. ASSUME NEW m \in Messages, BeginUpdate(q, m)
      PROVE  IInv'
  <2>1. Begins(q, "update", Nobody, m, {}, "channel", IF m = Root THEN replies ELSE 0)
        /\ UNCHANGED <<rowVars, history>> /\ lastID' = lastID /\ m \in Made
    BY <1>8 DEF BeginUpdate, Made
  <2> HIDE DEF IInv
  <2> QED
    BY <1>1, <1>2, <1>3, <1>4, <1>5, <2>1, BeginsKeeps DEF Ops
<1>9. ASSUME NEW m \in Messages, BeginDelete(q, m)
      PROVE  IInv'
  <2>1. Begins(q, "delete", Nobody, m, {}, "channel", 0)
        /\ UNCHANGED <<rowVars, history>> /\ lastID' = lastID /\ m \in Made
    BY <1>9 DEF BeginDelete, Made
  <2> HIDE DEF IInv
  <2> QED
    BY <1>1, <1>2, <1>3, <1>4, <2>1, BeginsKeeps DEF Ops
<1>10. ASSUME NEW u \in Users, NEW l \in Lists, NEW m \in 0..MaxMessages,
              BeginMark(q, u, l, m)
       PROVE  IInv'
  <2> DEFINE left == IF m = 0 THEN {} ELSE {n \in Live(l) : n > m}
             r    == IF m = 0 THEN 0 ELSE Cardinality(Newer(l, m))
  <2>1. Begins(q, "mark", u, m, Live(l), l, r)
        /\ UNCHANGED <<rowVars, history>> /\ lastID' = lastID
    BY <1>10 DEF BeginMark
  <2>2. r = Cardinality(left)
    BY FS_EmptySet DEF Newer
  <2>3. left \subseteq Made
    BY DEF Live, Made
  <2>4. r \in Nat /\ r <= Cardinality(Made)
    <3>1. IsFiniteSet(Made) /\ IsFiniteSet(left)
      BY <2>3, Countable DEF Made
    <3> QED
      BY <2>2, <2>3, <3>1, FS_Subset, FS_CardinalityType
  <2>5. lastID' \in Messages /\ lastID' >= lastID /\ "mark" \in Ops
    BY <1>1, <2>1 DEF Ops
  <2>6. Live(l) \in SUBSET MadeIn(l) /\ u \in Users \cup {Nobody}
    BY <1>2
  <2> HIDE DEF IInv, r
  <2> QED
    BY <2>1, <2>2, <2>4, <2>5, <2>6, BeginsKeeps, Zenon
<1> QED
  BY <1>6, <1>7, <1>8, <1>9, <1>10 DEF Begin

\* A request that ends keeps what the others have read, if no message went away
\* or was taken from them.
LEMMA EndsKeeps ==
  ASSUME IInv, NEW q \in Requests, Ends(q), lastID' = lastID,
         Made \subseteq Made', \A m \in Made : list'[m] = list[m],
         \A p \in Requests \ {q} : op[p] = "create" => state'[msg[p]] = "absent"
  PROVE  /\ Asked'
         /\ op' \in [Requests -> Ops] /\ by' \in [Requests -> Users \cup {Nobody}]
         /\ msg' \in [Requests -> 0..MaxMessages] /\ where' \in [Requests -> Lists]
         /\ known' \in [Requests -> SUBSET Messages] /\ read' \in [Requests -> Nat]
         /\ \A p \in Requests : op'[p] \in {"create", "update"} =>
              op[p] = op'[p] /\ read'[p] = read[p]
<1> USE DEF IInv
<1>1. /\ op' \in [Requests -> Ops] /\ by' \in [Requests -> Users \cup {Nobody}]
      /\ msg' \in [Requests -> 0..MaxMessages] /\ where' \in [Requests -> Lists]
      /\ known' \in [Requests -> SUBSET Messages] /\ read' \in [Requests -> Nat]
  BY UnreadAssumption DEF Ends, Types, Ops, Lists
<1>2. ASSUME NEW p \in Requests \ {q}
      PROVE  /\ op'[p] = op[p] /\ by'[p] = by[p] /\ msg'[p] = msg[p]
             /\ where'[p] = where[p] /\ known'[p] = known[p] /\ read'[p] = read[p]
             /\ Left(p)' = Left(p)
  BY DEF Ends, Types, Left
<1>3. op'[q] = "idle" /\ known'[q] = {} /\ read'[q] = 0
  BY DEF Ends, Types
<1>4. Cardinality(Made) <= Cardinality(Made') /\ 0 <= Cardinality(Made')
      /\ Cardinality(Made) \in Nat /\ Cardinality(Made') \in Nat
  <2>1. Made' \in SUBSET Messages /\ Made \in SUBSET Messages
    BY DEF Made
  <2> QED
    BY <2>1, Countable, FS_Subset
<1>5. ASSUME NEW p \in Requests \ {q}
      PROVE  (known[p] \subseteq MadeIn(where[p]))'
  <2>1. MadeIn(where[p])' = {m \in Made' : list'[m] = where[p]}
    BY <1>2 DEF MadeIn
  <2>2. known[p] \subseteq {m \in Made : list[m] = where[p]}
    BY DEF Asked, MadeIn
  <2> QED
    BY <1>2, <2>1, <2>2
<1>6. Asked'
  <2>1. ASSUME NEW p \in Requests \ {q}
        PROVE  /\ op'[p] \in {"create", "mark"} => by'[p] \in Users
               /\ op'[p] = "create" =>
                    /\ msg'[p] \in 1..lastID' /\ state'[msg'[p]] = "absent"
                    /\ \A n \in Requests \ {p} : op'[n] = "create" => msg'[n] # msg'[p]
               /\ op'[p] \in {"update", "delete"} => msg'[p] \in Made'
               /\ op'[p] = "mark" => read'[p] = Cardinality(Left(p)')
               /\ read'[p] <= Cardinality(Made')
    <3>1. \A n \in Requests \ {p, q} : op'[n] = op[n] /\ msg'[n] = msg[n]
      BY <1>2
    <3>2. \A n \in Requests \ {p} :
            op[p] = "create" /\ op[n] = "create" => msg[n] # msg[p]
      BY DEF Asked
    <3>3. op'[p] = "create" =>
            \A n \in Requests \ {p} : op'[n] = "create" => msg'[n] # msg'[p]
      BY <1>2, <1>3, <3>1, <3>2
    <3>4. read[p] <= Cardinality(Made) /\ read[p] \in Nat
      BY DEF Asked, Types
    <3>5. op[p] = "create" => state'[msg[p]] = "absent"
      OBVIOUS
    <3> QED
      BY <1>2, <1>4, <3>3, <3>4, <3>5 DEF Asked
  <2>2. \A p \in Requests : p = q \/ p \in Requests \ {q}
    OBVIOUS
  <2>3. (known[q] \subseteq MadeIn(where[q]))'
    BY <1>3
  <2> QED
    BY <1>3, <1>4, <1>5, <2>1, <2>2, <2>3 DEF Asked
<1> QED
  BY <1>1, <1>2, <1>3, <1>6

-----------------------------------------------------------------------------
(* Commits *)

\* A commit that makes no message keeps which messages there are.
LEMMA MadeStays ==
  ASSUME Types, list' = list, NEW m \in Made, NEW s \in {"live", "deleted"},
         state' = state \/ state' = [state EXCEPT ![m] = s]
  PROVE  /\ Made' = Made
         /\ \A l : MadeIn(l)' = MadeIn(l)
<1>1. Made' = Made
  BY DEF Made, Types
<1> QED
  BY <1>1 DEF MadeIn

\* The new message is nobody's yet; everybody gets it but its author.
LEMMA CommitCreateKeeps ==
  ASSUME IInv, NEW q \in Requests, CommitCreate(q)
  PROVE  IInv'
<1> DEFINE u == by[q]
           l == where[q]
           m == msg[q]
<1> USE DEF IInv
<1>1. /\ u \in Users /\ l \in Lists /\ m \in Messages /\ m \notin Made /\ m <= lastID
      /\ lastID' = lastID /\ op[q] = "create"
  <2>1. op[q] = "create" /\ lastID' = lastID
    BY DEF CommitCreate
  <2>2. u \in Users /\ m \in 1..lastID /\ state[m] = "absent"
    BY <2>1 DEF Asked
  <2>3. m \in Messages /\ m <= lastID
    BY <2>2, UnreadAssumption DEF Types, Messages
  <2> QED
    BY <2>1, <2>2, <2>3 DEF Made, Types
<1>2. /\ state' = [state EXCEPT ![m] = "live"] /\ author' = [author EXCEPT ![m] = u]
      /\ list' = [list EXCEPT ![m] = l] /\ Ends(q) /\ miscounted' = miscounted
  BY DEF CommitCreate
<1>3. Made' = Made \cup {m} /\ \A n \in Made : list'[n] = list[n]
  BY <1>1, <1>2 DEF Made, Types
<1>4. /\ Cardinality(Made') = Cardinality(Made) + 1
      /\ Cardinality(Made) \in Nat /\ Cardinality(Made') \in Nat
  <2>1. Made \in SUBSET Messages /\ Made' \in SUBSET Messages
    BY DEF Made
  <2> QED
    BY <1>1, <1>3, <2>1, Countable, FS_AddElement
<1>5. \A k : MadeIn(k)' = IF k = l THEN MadeIn(k) \cup {m} ELSE MadeIn(k)
  BY <1>1, <1>2, <1>3 DEF MadeIn, Types
<1>6. \A p \in Requests \ {q} : op[p] = "create" => state'[msg[p]] = "absent"
  BY <1>1, <1>2 DEF Asked, Types
<1>7. /\ Asked'
      /\ op' \in [Requests -> Ops] /\ by' \in [Requests -> Users \cup {Nobody}]
      /\ msg' \in [Requests -> 0..MaxMessages] /\ where' \in [Requests -> Lists]
      /\ known' \in [Requests -> SUBSET Messages] /\ read' \in [Requests -> Nat]
      /\ \A p \in Requests : op'[p] \in {"create", "update"} =>
           op[p] = op'[p] /\ read'[p] = read[p]
  BY <1>1, <1>2, <1>3, <1>6, EndsKeeps
<1>8. rows \subseteq rows' /\ rows' \subseteq Users /\ (l = "channel" => rows' = rows)
      /\ (l = "thread" => rows' = rows \cup Preset(q) \cup {u})
  BY <1>1 DEF CommitCreate, Types, Preset
<1>9. replies' \in Nat /\ replies' <= Cardinality(Made')
      /\ (l = "channel" => replies' = replies)
  <2>1. CASE l = "thread"
    BY <1>4, <2>1 DEF CommitCreate, Types, Bounded
  <2>2. CASE l # "thread"
    BY <1>4, <2>2 DEF CommitCreate, Types, Bounded
  <2> QED
    BY <2>1, <2>2
<1>10. \A c \in Counters : count'[c] \in {0, count[c], count[c] + 1}
  BY DEF CommitCreate
<1>11. count' \in [Counters -> Nat] /\ \A c \in Counters : count'[c] <= Cardinality(Made')
  <2>1. \A c \in Counters : count'[c] \in Nat /\ count'[c] <= Cardinality(Made')
    BY <1>4, <1>10 DEF Types, Bounded
  <2>2. DOMAIN count' = Counters /\ count' = [c \in Counters |-> count'[c]]
    BY DEF CommitCreate
  <2> QED
    BY <2>1, <2>2
<1>12. ASSUME NEW v \in Users \ rows'
       PROVE  count'[<<v, "thread">>] = 0
  <2>1. <<v, "thread">> \in Counters /\ count[<<v, "thread">>] = 0
    BY <1>8, CounterOf DEF Types, Lists
  <2>2. CASE l = "thread"
    <3>1. v \notin rows /\ v \notin Preset(q) /\ v # u
      BY <1>8, <2>2
    <3> QED
      BY <2>1, <2>2, <3>1 DEF CommitCreate, HasRow
  <2>3. CASE l # "thread"
    BY <2>1, <2>3 DEF CommitCreate
  <2> QED
    BY <2>2, <2>3
<1>13. /\ blurred' \subseteq Counters
       /\ unread' \in [Counters -> SUBSET Messages]
       /\ \A c \in Counters :
            unread'[c] \subseteq IF c[2] = l THEN unread[c] \cup {m} ELSE unread[c]
  <2>1. <<u, l>> \in Counters /\ <<u, l>>[2] = l
    BY <1>1, CounterOf
  <2>2. blurred' \subseteq Counters
    BY <2>1 DEF CommitCreate, Sharpen, Types
  <2>3. unread' = [c \in Counters |->
                     IF c \in blurred' THEN {}
                     ELSE IF c = <<u, l>> THEN {}
                     ELSE IF c[2] = l THEN unread[c] \cup {m} ELSE unread[c]]
    BY DEF CommitCreate, Sharpen
  <2>4. \A c \in Counters :
          unread'[c] \subseteq IF c[2] = l THEN unread[c] \cup {m} ELSE unread[c]
    BY <2>3
  <2>5. \A c \in Counters : unread'[c] \in SUBSET Messages
    BY <1>1, <2>4 DEF Types
  <2> QED
    BY <2>2, <2>3, <2>4, <2>5
<1>14. Types'
  <2>1. \A n \in Made' : n <= lastID' /\ author'[n] \in Users
    BY <1>1, <1>2, <1>3 DEF Types
  <2>2. /\ state' \in [Messages -> {"absent", "live", "deleted"}]
        /\ author' \in [Messages -> Users \cup {Nobody}]
        /\ list' \in [Messages -> Lists]
    BY <1>1, <1>2 DEF Types
  <2> QED
    BY <1>1, <1>2, <1>7, <1>8, <1>9, <1>11, <1>12, <1>13, <2>1, <2>2 DEF Types
<1>15. Bounded'
  BY <1>9, <1>11 DEF Bounded
<1>16. Sorted'
  <2>1. Root \in MadeIn("channel")'
    BY <1>5 DEF Sorted
  <2>2. \A c \in Counters : unread'[c] \subseteq MadeIn(c[2])'
    BY <1>5, <1>13 DEF Sorted
  <2> QED
    BY <2>1, <2>2 DEF Sorted, Root
<1>17. Threaded'
  <2>1. CASE rows = Users \/ (l = "thread" /\ read[q] = 0)
    BY <1>8, <2>1 DEF Threaded, Preset
  <2>2. CASE rows # Users /\ l # "thread"
    <3>1. l = "channel" /\ "thread" # "channel"
      BY <1>1, <2>2 DEF Lists
    <3>2. replies' = 0 /\ MadeIn("thread")' = {}
      BY <1>5, <1>9, <2>2, <3>1 DEF Threaded
    <3>3. \A p \in Requests : op'[p] \in {"create", "update"} => read'[p] = 0
      BY <1>7, <2>2 DEF Threaded
    <3> QED
      BY <3>2, <3>3 DEF Threaded
  <2>3. rows # Users => read[q] = 0
    BY <1>1 DEF Threaded
  <2> QED
    BY <2>1, <2>2, <2>3
<1> QED
  BY <1>7, <1>14, <1>15, <1>16, <1>17

\* Of a commit that makes no message it matters what it does to the counters and
\* the unread rows.
LEMMA OtherCommitKeeps ==
  ASSUME IInv, NEW q \in Requests, Ends(q), lastID' = lastID,
         list' = list, author' = author,
         NEW m \in Made, NEW s \in {"live", "deleted"},
         state' = state \/ state' = [state EXCEPT ![m] = s],
         replies' \in 0..Cardinality(Made), rows = Users \/ replies' = 0,
         rows \subseteq rows', rows' \subseteq Users,
         count' \in [Counters -> Nat],
         \A c \in Counters : count'[c] <= Cardinality(Made),
         \A v \in Users \ rows' : count'[<<v, "thread">>] = 0,
         blurred' \subseteq Counters, miscounted' \in BOOLEAN,
         unread' \in [Counters -> SUBSET Messages],
         \A c \in Counters : unread'[c] \subseteq MadeIn(c[2])
  PROVE  IInv'
<1> USE DEF IInv
<1>1. Made' = Made /\ \A l : MadeIn(l)' = MadeIn(l)
  BY MadeStays
<1>2. ASSUME NEW p \in Requests \ {q}, op[p] = "create"
      PROVE  state'[msg[p]] = "absent"
  <2>1. msg[p] \in 1..lastID /\ state[msg[p]] = "absent"
    BY <1>2 DEF Asked
  <2>2. msg[p] \in Messages /\ msg[p] # m
    BY <2>1, UnreadAssumption DEF Types, Messages, Made
  <2> QED
    BY <2>1, <2>2 DEF Types
<1>3. /\ Asked'
      /\ op' \in [Requests -> Ops] /\ by' \in [Requests -> Users \cup {Nobody}]
      /\ msg' \in [Requests -> 0..MaxMessages] /\ where' \in [Requests -> Lists]
      /\ known' \in [Requests -> SUBSET Messages] /\ read' \in [Requests -> Nat]
      /\ \A p \in Requests : op'[p] \in {"create", "update"} =>
           op[p] = op'[p] /\ read'[p] = read[p]
  BY <1>1, <1>2, EndsKeeps
<1>4. Types'
  <2>1. state' \in [Messages -> {"absent", "live", "deleted"}]
    BY DEF Types, Made
  <2>2. replies' \in Nat
    BY Countable DEF Made
  <2> QED
    BY <1>1, <1>3, <2>1, <2>2 DEF Types
<1>5. Bounded'
  <2>1. replies' <= Cardinality(Made)
    BY Countable DEF Made
  <2> QED
    BY <1>1, <2>1 DEF Bounded
<1>6. Sorted'
  BY <1>1 DEF Sorted, Root
<1>7. Threaded'
  <2>1. CASE rows = Users
    BY <2>1 DEF Threaded
  <2>2. CASE rows # Users
    BY <1>1, <1>3, <2>2 DEF Threaded
  <2> QED
    BY <2>1, <2>2
<1> QED
  BY <1>3, <1>4, <1>5, <1>6, <1>7

\* Update, Delete and MarkAsRead write what they have read, or count down.
LEMMA CommitUpdateKeeps ==
  ASSUME IInv, NEW q \in Requests, CommitUpdate(q)
  PROVE  IInv'
<1> DEFINE m == msg[q]
<1>1. /\ m \in Made /\ list[m] \in Lists
      /\ read[q] <= Cardinality(Made) /\ replies <= Cardinality(Made)
      /\ read[q] \in Nat /\ replies \in Nat /\ Cardinality(Made) \in Nat
      /\ rows = Users \/ (read[q] = 0 /\ replies = 0)
  BY Countable DEF IInv, CommitUpdate, Asked, Types, Made, Bounded, Threaded
<1>2. replies' \in 0..Cardinality(Made) /\ (rows = Users \/ replies' = 0)
  BY <1>1 DEF CommitUpdate, WrittenReplies
<1>3. /\ blurred' \subseteq Counters
      /\ unread' \in [Counters -> SUBSET Messages]
      /\ \A c \in Counters : unread'[c] \subseteq MadeIn(c[2])
  <2>1. Users \X {list[m]} \subseteq Counters
    BY <1>1 DEF Counters
  <2>2. blurred' \subseteq Counters
    BY <2>1 DEF CommitUpdate, Blur, IInv, Types
  <2>3. unread' = [c \in Counters |-> IF c \in blurred' THEN {} ELSE unread[c]]
    BY DEF CommitUpdate, Blur
  <2> QED
    BY <2>2, <2>3 DEF IInv, Types, Sorted
<1>4. /\ Ends(q) /\ lastID' = lastID /\ list' = list /\ author' = author /\ rows' = rows
      /\ count' = count /\ state' = [state EXCEPT ![m] = "live"] /\ miscounted' \in BOOLEAN
  BY DEF CommitUpdate, IInv, Types
<1>5. /\ rows \subseteq Users /\ count \in [Counters -> Nat]
      /\ \A c \in Counters : count[c] <= Cardinality(Made)
      /\ \A v \in Users \ rows : count[<<v, "thread">>] = 0
  BY DEF IInv, Types, Bounded
<1> QED
  BY <1>1, <1>2, <1>3, <1>4, <1>5, OtherCommitKeeps

\* What Decremented leaves in a counter
LEMMA DecrementedBy ==
  ASSUME Types, NEW l \in Lists, NEW u \in Users
  PROVE  /\ Decremented(l, u) \in [Counters -> Nat]
         /\ \A c \in Counters :
              Decremented(l, u)[c] = IF c = <<u, l>> \/ (c[2] = l /\ count[c] = 0) THEN 0
                                     ELSE IF c[2] = l THEN count[c] - 1 ELSE count[c]
         /\ \A c \in Counters : Decremented(l, u)[c] <= count[c]
<1>1. \A c \in Counters : count[c] \in Nat
  BY DEF Types
<1> QED
  BY <1>1 DEF Decremented

LEMMA CommitDeleteKeeps ==
  ASSUME IInv, NEW q \in Requests, CommitDelete(q)
  PROVE  IInv'
<1> DEFINE m == msg[q]
           l == list[m]
<1>1. /\ m \in Made /\ l \in Lists /\ author[m] \in Users
      /\ replies <= Cardinality(Made) /\ replies \in Nat /\ Cardinality(Made) \in Nat
      /\ rows = Users \/ (MadeIn("thread") = {} /\ replies = 0)
  BY Countable DEF IInv, CommitDelete, Asked, Types, Made, Bounded, Threaded
<1>2. replies' \in 0..Cardinality(Made) /\ (rows = Users \/ replies' = 0)
  <2>1. CASE l = "thread"
    <3>1. replies > 0 /\ replies' = replies - 1 /\ m \in MadeIn("thread")
      BY <1>1, <2>1 DEF CommitDelete, MadeIn
    <3> QED
      BY <1>1, <3>1
  <2>2. CASE l # "thread"
    BY <1>1, <2>2 DEF CommitDelete
  <2> QED
    BY <2>1, <2>2
<1>3. rows \subseteq rows' /\ rows' \subseteq Users
  BY <1>1 DEF CommitDelete, IInv, Types
<1>4. count' = Decremented(l, author[m])
  BY DEF CommitDelete
<1>5. count' \in [Counters -> Nat] /\ \A c \in Counters : count'[c] <= Cardinality(Made)
  <2>1. count' \in [Counters -> Nat] /\ \A c \in Counters : count'[c] <= count[c]
    BY <1>1, <1>4, DecrementedBy DEF IInv
  <2>2. \A c \in Counters :
          count[c] <= Cardinality(Made) /\ count[c] \in Nat /\ count'[c] \in Nat
    BY <2>1 DEF IInv, Types, Bounded
  <2> QED
    BY <1>1, <2>1, <2>2
<1>6. ASSUME NEW v \in Users \ rows'
      PROVE  count'[<<v, "thread">>] = 0
  <2>1. <<v, "thread">> \in Counters /\ count[<<v, "thread">>] = 0
    BY <1>3, CounterOf DEF IInv, Types, Lists
  <2> QED
    BY <1>4, <2>1 DEF Decremented
<1>7. /\ blurred' \subseteq Counters
      /\ unread' \in [Counters -> SUBSET Messages]
      /\ \A c \in Counters : unread'[c] \subseteq MadeIn(c[2])
  <2>1. blurred' \subseteq Counters
    BY DEF CommitDelete, Blur, Wronged, IInv, Types
  <2>2. unread' = [c \in Counters |-> IF c \in blurred' THEN {} ELSE unread[c] \ {m}]
    BY DEF CommitDelete, Blur
  <2> QED
    BY <2>1, <2>2 DEF IInv, Types, Sorted
<1>8. /\ Ends(q) /\ lastID' = lastID /\ list' = list /\ author' = author
      /\ state' = [state EXCEPT ![m] = "deleted"] /\ miscounted' \in BOOLEAN
  BY DEF CommitDelete, IInv, Types
<1> QED
  BY <1>1, <1>2, <1>3, <1>5, <1>6, <1>7, <1>8, OtherCommitKeeps

\* What is left of what the request knew was counted, and is of its list.
LEMMA LeftIsCounted ==
  ASSUME IInv, NEW q \in Requests, op[q] = "mark"
  PROVE  /\ by[q] \in Users /\ where[q] \in Lists
         /\ Left(q) \subseteq MadeIn(where[q]) /\ Left(q) \subseteq Messages
         /\ read[q] = Cardinality(Left(q))
         /\ read[q] \in Nat /\ read[q] <= Cardinality(Made)
<1>1. known[q] \subseteq MadeIn(where[q]) /\ known[q] \subseteq Messages
  BY DEF IInv, Asked, Types
<1>2. Left(q) \subseteq known[q]
  BY DEF Left
<1> QED
  BY <1>1, <1>2 DEF IInv, Asked, Types

LEMMA CommitMarkThreadKeeps ==
  ASSUME IInv, NEW q \in Requests, CommitMarkThread(q)
  PROVE  IInv'
<1> DEFINE t == <<by[q], "thread">>
<1>1. /\ by[q] \in Users /\ where[q] = "thread" /\ Left(q) \subseteq MadeIn("thread")
      /\ Left(q) \subseteq Messages /\ read[q] \in Nat /\ read[q] <= Cardinality(Made)
  BY LeftIsCounted DEF CommitMarkThread
<1>2. t \in Counters /\ t[2] = "thread"
  BY <1>1, CounterOf DEF Lists
<1>3. rows \subseteq rows' /\ rows' \subseteq Users /\ by[q] \in rows'
  BY <1>1 DEF CommitMarkThread, IInv, Types
<1>4. count' = [count EXCEPT ![t] = read[q]]
  BY DEF CommitMarkThread
<1>5. count' \in [Counters -> Nat] /\ \A c \in Counters : count'[c] <= Cardinality(Made)
  BY <1>1, <1>2, <1>4 DEF IInv, Types, Bounded
<1>6. ASSUME NEW v \in Users \ rows'
      PROVE  count'[<<v, "thread">>] = 0
  <2>1. <<v, "thread">> \in Counters /\ <<v, "thread">> # t /\ v \in Users \ rows
    BY <1>3, CounterOf DEF Lists
  <2>2. count[<<v, "thread">>] = 0
    BY <2>1 DEF IInv, Types
  <2> QED
    BY <1>2, <1>4, <2>1, <2>2 DEF IInv, Types
<1>7. /\ blurred' \subseteq Counters
      /\ unread' \in [Counters -> SUBSET Messages]
      /\ \A c \in Counters : unread'[c] \subseteq MadeIn(c[2])
  <2>1. blurred' \subseteq Counters
    BY <1>2 DEF CommitMarkThread, Sharpen, IInv, Types
  <2>2. unread' = [c \in Counters |->
                     IF c \in blurred' THEN {} ELSE [unread EXCEPT ![t] = Left(q)][c]]
    BY DEF CommitMarkThread, Sharpen
  <2>3. \A c \in Counters :
          [unread EXCEPT ![t] = Left(q)][c] = IF c = t THEN Left(q) ELSE unread[c]
    BY DEF IInv, Types
  <2>4. \A c \in Counters : unread'[c] \subseteq MadeIn(c[2])
    BY <1>1, <1>2, <2>2, <2>3 DEF IInv, Sorted
  <2> QED
    BY <2>1, <2>2, <2>4 DEF MadeIn, Made
<1>8. /\ Ends(q) /\ lastID' = lastID /\ list' = list /\ author' = author
      /\ state' = state /\ replies' = replies /\ miscounted' \in BOOLEAN
  BY DEF CommitMarkThread, IInv, Types
<1>9. Root \in Made /\ replies \in 0..Cardinality(Made) /\ (rows = Users \/ replies = 0)
  BY Countable DEF IInv, Sorted, MadeIn, Made, Types, Bounded, Threaded
<1> QED
  BY <1>3, <1>5, <1>6, <1>7, <1>8, <1>9, OtherCommitKeeps

LEMMA CommitMarkChannelKeeps ==
  ASSUME IInv, NEW q \in Requests, CommitMarkChannel(q)
  PROVE  IInv'
<1> DEFINE c1 == <<by[q], "channel">>
           c2 == <<by[q], "thread">>
<1>1. /\ by[q] \in Users /\ where[q] = "channel" /\ Left(q) \subseteq MadeIn("channel")
      /\ Left(q) \subseteq Messages /\ read[q] \in Nat /\ read[q] <= Cardinality(Made)
      /\ Cardinality(Made) \in Nat
  BY LeftIsCounted, Countable DEF CommitMarkChannel, Made
<1>2. c1 \in Counters /\ c2 \in Counters /\ c1[2] = "channel" /\ c2[2] = "thread" /\ c1 # c2
  BY <1>1, CounterOf DEF Lists
<1>3. \A c \in Counters : count'[c] = IF c = c1 THEN read[q] ELSE IF c = c2 THEN 0 ELSE count[c]
  BY <1>2 DEF CommitMarkChannel, IInv, Types
<1>4. count' \in [Counters -> Nat] /\ \A c \in Counters : count'[c] <= Cardinality(Made)
  <2>1. DOMAIN count' = Counters /\ count' = [c \in Counters |-> count'[c]]
    BY DEF CommitMarkChannel, IInv, Types
  <2> QED
    BY <1>1, <1>3, <2>1 DEF IInv, Types, Bounded
<1>5. ASSUME NEW v \in Users \ rows
      PROVE  count'[<<v, "thread">>] = 0
  <2>1. <<v, "thread">> \in Counters /\ <<v, "thread">> # c1
    BY <1>2, CounterOf DEF Lists
  <2> QED
    BY <1>3, <2>1 DEF IInv, Types
<1>6. /\ blurred' \subseteq Counters
      /\ unread' \in [Counters -> SUBSET Messages]
      /\ \A c \in Counters : unread'[c] \subseteq MadeIn(c[2])
  <2> DEFINE s == [unread EXCEPT ![c1] = Left(q), ![c2] = {}]
  <2>1. blurred' \subseteq Counters
    BY <1>2 DEF CommitMarkChannel, Sharpen, IInv, Types
  <2>2. unread' = [c \in Counters |-> IF c \in blurred' THEN {} ELSE s[c]]
    BY DEF CommitMarkChannel, Sharpen
  <2>3. \A c \in Counters :
          s[c] = IF c = c2 THEN {} ELSE IF c = c1 THEN Left(q) ELSE unread[c]
    BY <1>2 DEF IInv, Types
  <2> HIDE DEF s
  <2>4. \A c \in Counters : unread'[c] \subseteq MadeIn(c[2])
    <3>1. \A c \in Counters : unread'[c] \subseteq s[c]
      BY <2>2
    <3>2. Left(q) \subseteq MadeIn(c1[2])
      BY <1>1, <1>2
    <3> QED
      BY <2>3, <3>1, <3>2 DEF IInv, Sorted
  <2> QED
    BY <2>1, <2>2, <2>4 DEF MadeIn, Made
<1>7. /\ Ends(q) /\ lastID' = lastID /\ list' = list /\ author' = author /\ rows' = rows
      /\ state' = state /\ replies' = replies /\ miscounted' \in BOOLEAN
  BY DEF CommitMarkChannel, IInv, Types
<1>8. Root \in Made /\ replies \in 0..Cardinality(Made) /\ (rows = Users \/ replies = 0)
      /\ rows \subseteq Users
  BY Countable DEF IInv, Sorted, MadeIn, Made, Types, Bounded, Threaded
<1> QED
  BY <1>4, <1>5, <1>6, <1>7, <1>8, OtherCommitKeeps

\* A request that is rolled back, or nothing at all, leaves the rows alone.
LEMMA RollbackKeeps ==
  ASSUME IInv, NEW q \in Requests, Rollback(q)
  PROVE  IInv'
<1>1. /\ Ends(q) /\ lastID' = lastID /\ list' = list /\ author' = author /\ rows' = rows
      /\ state' = state /\ replies' = replies /\ count' = count
      /\ miscounted' = miscounted /\ unread' = unread /\ blurred' = blurred
  BY DEF Rollback, rowVars, history
<1>2. Root \in Made /\ replies \in 0..Cardinality(Made) /\ (rows = Users \/ replies = 0)
  BY Countable DEF IInv, Sorted, MadeIn, Made, Types, Bounded, Threaded
<1>3. /\ rows \subseteq Users /\ count \in [Counters -> Nat]
      /\ \A c \in Counters : count[c] <= Cardinality(Made)
      /\ \A v \in Users \ rows : count[<<v, "thread">>] = 0
      /\ blurred \subseteq Counters /\ miscounted \in BOOLEAN
      /\ unread \in [Counters -> SUBSET Messages]
      /\ \A c \in Counters : unread[c] \subseteq MadeIn(c[2])
  BY DEF IInv, Types, Bounded, Sorted
<1> QED
  BY <1>1, <1>2, <1>3, OtherCommitKeeps

LEMMA StutterKeeps ==
  ASSUME IInv, UNCHANGED vars
  PROVE  IInv'
<1>1. Made' = Made /\ (\A l : MadeIn(l)' = MadeIn(l)) /\ (\A q : Left(q)' = Left(q))
  BY DEF vars, rowVars, reqVars, Made, MadeIn, Left
<1>2. Types' /\ Bounded' /\ Sorted' /\ Threaded'
  BY <1>1 DEF IInv, vars, rowVars, reqVars, history, Types, Bounded, Sorted, Root, Threaded
<1>3. \A q : MadeIn(where[q])' = MadeIn(where[q])
  BY DEF vars, rowVars, reqVars, Made, MadeIn
<1>4. Asked'
  BY <1>1, <1>3 DEF IInv, vars, rowVars, reqVars, Asked
<1> QED
  BY <1>2, <1>4 DEF IInv

\* Nothing is posted but Root, which no request was there to read.
LEMMA InitHolds == Init => IInv
<1> SUFFICES ASSUME Init PROVE IInv
  OBVIOUS
<1>1. Made = {Root} /\ MadeIn("channel") = {Root} /\ MadeIn("thread") = {}
  BY RootIsAMessage DEF Init, Made, MadeIn
<1>2. Cardinality(Made) = 1
  BY <1>1, FS_Singleton
<1>3. Types
  <2>1. /\ 1 \in Messages /\ MaxMessages \in Nat
        /\ "channel" \in Lists /\ 0 \in 0..MaxMessages
    BY RootIsAMessage, UnreadAssumption DEF Root, Lists
  <2>2. author \in [Messages -> Users \cup {Nobody}] /\ \A m \in Made : author[m] \in Users
    BY <1>1, RootIsAMessage DEF Init
  <2>3. \A u \in Users \ rows : count[<<u, "thread">>] = 0
    BY CounterOf DEF Init, Lists
  <2>4. \A m \in Made : m <= lastID /\ author[m] \in Users
    BY <1>1, <2>2 DEF Init, Root
  <2>5. /\ state \in [Messages -> {"absent", "live", "deleted"}]
        /\ list \in [Messages -> Lists] /\ lastID \in Messages
    BY <2>1 DEF Init, Root
  <2>6. /\ op \in [Requests -> Ops] /\ by \in [Requests -> Users \cup {Nobody}]
        /\ msg \in [Requests -> 0..MaxMessages] /\ where \in [Requests -> Lists]
        /\ known \in [Requests -> SUBSET Messages] /\ read \in [Requests -> Nat]
    BY <2>1 DEF Init, Ops
  <2>7. /\ replies \in Nat /\ rows \subseteq Users /\ count \in [Counters -> Nat]
        /\ unread \in [Counters -> SUBSET Messages]
        /\ blurred \subseteq Counters /\ miscounted \in BOOLEAN
    BY DEF Init
  <2> QED
    BY <2>2, <2>3, <2>4, <2>5, <2>6, <2>7 DEF Types
<1>4. Bounded
  BY <1>2 DEF Init, Bounded
<1>5. Asked
  BY <1>2 DEF Init, Asked
<1>6. Sorted /\ Threaded
  BY <1>1 DEF Init, Sorted, Threaded
<1> QED
  BY <1>3, <1>4, <1>5, <1>6 DEF IInv

LEMMA StepKeeps == IInv /\ [Next]_vars => IInv'
<1> SUFFICES ASSUME IInv, [Next]_vars PROVE IInv'
  OBVIOUS
<1>1. ASSUME NEW q \in Requests, Begin(q) PROVE IInv'
  BY <1>1, BeginKeeps
<1>2. ASSUME NEW q \in Requests, Commit(q) PROVE IInv'
  BY <1>2, CommitCreateKeeps, CommitUpdateKeeps, CommitDeleteKeeps,
     CommitMarkThreadKeeps, CommitMarkChannelKeeps DEF Commit
<1>3. ASSUME NEW q \in Requests, Rollback(q) PROVE IInv'
  BY <1>3, RollbackKeeps
<1>4. CASE UNCHANGED vars
  BY <1>4, StutterKeeps
<1> QED
  BY <1>1, <1>2, <1>3, <1>4 DEF Next

\* The inductive invariant holds of every behaviour.
THEOREM Inductive == Spec => []IInv
BY InitHolds, StepKeeps, PTL DEF Spec

\* No counter, and nothing that a request has read, ever exceeds the number of
\* messages committed: the types hold with their bounds.
THEOREM TypeCorrect == Spec => []TypeOK
<1>1. IInv => TypeOK
  <2> SUFFICES ASSUME IInv PROVE TypeOK
    OBVIOUS
  <2>1. Cardinality(Made) \in Nat /\ Cardinality(Made) <= MaxMessages /\ MaxMessages \in Nat
    BY Countable, UnreadAssumption DEF Made
  <2>2. replies \in 0..MaxMessages
    BY <2>1 DEF IInv, Types, Bounded
  <2>3. count \in [Counters -> 0..MaxMessages]
    BY <2>1 DEF IInv, Types, Bounded
  <2>4. read \in [Requests -> 0..MaxMessages]
    BY <2>1 DEF IInv, Types, Asked
  <2> QED
    BY <2>2, <2>3, <2>4 DEF IInv, Types, TypeOK, Made
<1> QED
  BY <1>1, Inductive, PTL

\* Who has no unread row for the thread has missed nothing: at the first reply all
\* get one, and no request that began before it presets them any later.
THEOREM NobodyIsLeftOut == Spec => []NobodyMissesAThread
<1>1. IInv => NobodyMissesAThread
  BY DEF IInv, Types, Threaded, NobodyMissesAThread, MadeIn, Made
<1> QED
  BY <1>1, Inductive, PTL

-----------------------------------------------------------------------------
(* What the counters count *)

\* A new message is one more for all who did not write it, and has a row for each
\* of them to be counted in.
LEMMA CreateCounts ==
  ASSUME IInv, CountsUnseen, NEW q \in Requests, CommitCreate(q)
  PROVE  CountsUnseen'
<1> DEFINE u == by[q]
           l == where[q]
           m == msg[q]
<1> SUFFICES ASSUME NEW c \in Counters \ blurred'
             PROVE  count'[c] = Cardinality(unread'[c])
  BY DEF CountsUnseen
<1>1. u \in Users /\ l \in Lists /\ m \notin Made
  BY DEF CommitCreate, IInv, Asked, Types, Made
<1>2. c[1] \in Users /\ c[2] \in Lists /\ c = <<c[1], c[2]>>
  BY CounterOf
<1>3. unread'[c] = IF c = <<u, l>> THEN {}
                   ELSE IF c[2] = l THEN unread[c] \cup {m} ELSE unread[c]
  BY DEF CommitCreate, Sharpen
<1>4. c # <<u, l>> => c \notin blurred
  BY DEF CommitCreate, Sharpen
<1>5. IsFiniteSet(unread[c]) /\ unread[c] \subseteq Made
  BY Countable DEF IInv, Types, Sorted, MadeIn
<1>6. CASE c = <<u, l>>
  BY <1>3, <1>6, FS_EmptySet DEF CommitCreate
<1>7. CASE c # <<u, l>> /\ c[2] = l
  <2>1. c[1] # u
    BY <1>2, <1>7
  <2>2. HasRow(c[1], l) \/ c[1] \in Preset(q)
    <3>1. rows = Users \/ read[q] = 0
      BY DEF CommitCreate, IInv, Threaded
    <3> QED
      BY <1>1, <1>2, <3>1 DEF HasRow, Preset, Lists
  <2>3. count'[c] = count[c] + 1
    BY <1>2, <1>7, <2>1, <2>2 DEF CommitCreate
  <2>4. Cardinality(unread'[c]) = Cardinality(unread[c]) + 1
    BY <1>1, <1>3, <1>5, <1>7, FS_AddElement
  <2> QED
    BY <1>4, <1>7, <2>3, <2>4 DEF CountsUnseen
<1>8. CASE c # <<u, l>> /\ c[2] # l
  BY <1>3, <1>4, <1>8 DEF CommitCreate, CountsUnseen
<1> QED
  BY <1>6, <1>7, <1>8

\* A deleted message is one less for who had it to read; a counter that is not
\* wrong then and is not 0 is of somebody who had.
LEMMA DeleteCounts ==
  ASSUME IInv, CountsUnseen, NEW q \in Requests, CommitDelete(q)
  PROVE  CountsUnseen'
<1> DEFINE m == msg[q]
           l == list[m]
<1> SUFFICES ASSUME NEW c \in Counters \ blurred'
             PROVE  count'[c] = Cardinality(unread'[c])
  BY DEF CountsUnseen
<1>1. m \in Made /\ l \in Lists /\ author[m] \in Users
  BY DEF CommitDelete, IInv, Asked, Types, Made
<1>2. unread'[c] = unread[c] \ {m} /\ c \notin blurred /\ c \notin Wronged(m)
  BY DEF CommitDelete, Blur
<1>3. IsFiniteSet(unread[c]) /\ unread[c] \subseteq MadeIn(c[2])
      /\ count[c] = Cardinality(unread[c]) /\ count[c] \in Nat
  BY <1>2, Countable DEF IInv, Types, Sorted, CountsUnseen
<1>4. count'[c] = IF c = <<author[m], l>> \/ (c[2] = l /\ count[c] = 0) THEN 0
                  ELSE IF c[2] = l THEN count[c] - 1 ELSE count[c]
  BY <1>1, DecrementedBy DEF CommitDelete, IInv
<1>5. CASE c[2] # l
  <2>1. m \notin unread[c]
    BY <1>3, <1>5 DEF MadeIn
  <2>2. c # <<author[m], l>>
    BY <1>1, <1>5, CounterOf
  <2> QED
    BY <1>2, <1>3, <1>4, <1>5, <2>1, <2>2
<1>6. CASE c[2] = l /\ count[c] = 0
  BY <1>2, <1>3, <1>4, <1>6, FS_EmptySet
<1>7. CASE c[2] = l /\ count[c] # 0
  <2>1. c[1] # author[m] /\ m \in unread[c]
    BY <1>2, <1>3, <1>7 DEF Wronged
  <2>2. count'[c] = count[c] - 1
    BY <1>1, <1>4, <1>7, <2>1, CounterOf
  <2>3. Cardinality(unread'[c]) = Cardinality(unread[c]) - 1
    BY <1>2, <1>3, <2>1, FS_RemoveElement
  <2> QED
    BY <1>3, <2>2, <2>3
<1> QED
  BY <1>5, <1>6, <1>7

\* Marking counts what it leaves; a channel is marked with its threads.
LEMMA MarkCounts ==
  ASSUME IInv, CountsUnseen, NEW q \in Requests, CommitMarkThread(q) \/ CommitMarkChannel(q)
  PROVE  CountsUnseen'
<1> SUFFICES ASSUME NEW c \in Counters \ blurred'
             PROVE  count'[c] = Cardinality(unread'[c])
  BY DEF CountsUnseen
<1> DEFINE c1 == <<by[q], "channel">>
           c2 == <<by[q], "thread">>
<1>1. /\ by[q] \in Users /\ read[q] = Cardinality(Left(q))
      /\ c1 \in Counters /\ c2 \in Counters /\ c1 # c2
  BY LeftIsCounted, CounterOf DEF CommitMarkThread, CommitMarkChannel, Lists
<1>2. CASE CommitMarkThread(q)
  <2>1. count'[c] = IF c = c2 THEN read[q] ELSE count[c]
    BY <1>1, <1>2 DEF CommitMarkThread, IInv, Types
  <2>2. unread'[c] = IF c = c2 THEN Left(q) ELSE unread[c]
    BY <1>1, <1>2 DEF CommitMarkThread, Sharpen, IInv, Types
  <2>3. c # c2 => c \notin blurred
    BY <1>2 DEF CommitMarkThread, Sharpen
  <2> QED
    BY <1>1, <2>1, <2>2, <2>3 DEF CountsUnseen
<1>3. CASE CommitMarkChannel(q)
  <2>1. count'[c] = IF c = c2 THEN 0 ELSE IF c = c1 THEN read[q] ELSE count[c]
    BY <1>1, <1>3 DEF CommitMarkChannel, IInv, Types
  <2>2. unread'[c] = IF c = c2 THEN {} ELSE IF c = c1 THEN Left(q) ELSE unread[c]
    BY <1>1, <1>3 DEF CommitMarkChannel, Sharpen, IInv, Types
  <2>3. c # c1 /\ c # c2 => c \notin blurred
    <3>1. c \in {by[q]} \X Lists => c = c1 \/ c = c2
      BY DEF Lists
    <3> QED
      BY <1>3, <3>1 DEF CommitMarkChannel, Sharpen
  <2> QED
    BY <1>1, <2>1, <2>2, <2>3, FS_EmptySet DEF CountsUnseen
<1> QED
  BY <1>2, <1>3

\* Each counter of unread messages counts what its user has not seen, in any
\* interleaving of transactions, but where it is known to be wrong.
THEOREM UnreadIsTrue == Spec => []CountsUnseen
<1>1. Init => CountsUnseen
  BY FS_EmptySet DEF Init, CountsUnseen
<1>2. IInv /\ CountsUnseen /\ [Next]_vars => CountsUnseen'
  <2> SUFFICES ASSUME IInv, CountsUnseen, [Next]_vars PROVE CountsUnseen'
    OBVIOUS
  <2>1. CASE UNCHANGED <<rowVars, history>>
    BY <2>1 DEF rowVars, history, CountsUnseen
  <2>2. ASSUME NEW q \in Requests, Begin(q) \/ Rollback(q)
        PROVE  CountsUnseen'
    BY <2>1, <2>2 DEF Begin, BeginCreate, BeginReplyToReply, BeginUpdate, BeginDelete,
                      BeginMark, Rollback
  <2>3. ASSUME NEW q \in Requests, CommitUpdate(q)
        PROVE  CountsUnseen'
    BY <2>3 DEF CommitUpdate, Blur, CountsUnseen
  <2>4. ASSUME NEW q \in Requests, Commit(q)
        PROVE  CountsUnseen'
    BY <2>3, <2>4, CreateCounts, DeleteCounts, MarkCounts DEF Commit
  <2> QED
    BY <2>1, <2>2, <2>4 DEF Next, vars
<1> QED
  BY <1>1, <1>2, Inductive, PTL DEF Spec

\* Live replies change one at a time, with the counter of Root.
LEMMA RepliesCounted ==
  ASSUME IInv, CountsReplies, NEW q \in Requests, Commit(q)
  PROVE  CountsReplies'
<1> USE DEF IInv
<1>1. IsFiniteSet(Live("thread")) /\ Cardinality(Live("thread")) \in Nat /\ replies \in Nat
  BY Countable DEF Live, Types
<1>2. CASE CommitCreate(q)
  <2> DEFINE m == msg[q]
             l == where[q]
  <2>1. m \in Messages /\ state[m] = "absent" /\ l \in Lists
    <3>1. m \in 1..lastID /\ state[m] = "absent"
      BY <1>2 DEF CommitCreate, Asked
    <3> QED
      BY <3>1, UnreadAssumption DEF Types, Messages
  <2>2. Live("thread")' = IF l = "thread" THEN Live("thread") \cup {m} ELSE Live("thread")
    BY <1>2, <2>1 DEF CommitCreate, Live, Types
  <2>3. m \notin Live("thread")
    BY <2>1 DEF Live
  <2>4. replies' = IF l = "thread" THEN replies + 1 ELSE replies
    BY <1>2 DEF CommitCreate
  <2> QED
    BY <1>1, <1>2, <2>2, <2>3, <2>4, FS_AddElement DEF CommitCreate, CountsReplies
<1>3. CASE CommitUpdate(q)
  <2> DEFINE m == msg[q]
  <2>1. m \in Messages /\ list[Root] = "channel"
    BY <1>3 DEF CommitUpdate, Asked, Made, Sorted, MadeIn
  <2>2. ASSUME ~ miscounted'
        PROVE  replies' = Cardinality(Live("thread")')
    <3>1. ~ miscounted /\ (m = Root => read[q] = replies)
          /\ (list[m] = "thread" => state[m] = "live")
      BY <1>3, <2>2 DEF CommitUpdate
    <3>2. replies' = replies
      BY <1>3, <3>1 DEF CommitUpdate, WrittenReplies
    <3>3. Live("thread")' = Live("thread")
      BY <1>3, <2>1, <3>1 DEF CommitUpdate, Live, Types
    <3> QED
      BY <3>1, <3>2, <3>3 DEF CountsReplies
  <2> QED
    BY <2>2 DEF CountsReplies
<1>4. CASE CommitDelete(q)
  <2> DEFINE m == msg[q]
             l == list[m]
  <2>1. m \in Messages
    BY <1>4 DEF CommitDelete, Asked, Made
  <2>2. ASSUME ~ miscounted'
        PROVE  replies' = Cardinality(Live("thread")')
    <3>1. ~ miscounted /\ (l = "thread" => state[m] = "live")
      BY <1>4, <2>2 DEF CommitDelete
    <3>2. Live("thread")' = Live("thread") \ {m}
      BY <1>4, <2>1 DEF CommitDelete, Live, Types
    <3>3. m \in Live("thread") <=> l = "thread"
      BY <2>1, <3>1 DEF Live
    <3>4. replies' = IF l = "thread" THEN replies - 1 ELSE replies
      BY <1>4 DEF CommitDelete
    <3>5. replies = Cardinality(Live("thread"))
      BY <3>1 DEF CountsReplies
    <3> QED
      BY <1>1, <3>2, <3>3, <3>4, <3>5, FS_RemoveElement
  <2> QED
    BY <2>2 DEF CountsReplies
<1>5. CASE CommitMarkThread(q) \/ CommitMarkChannel(q)
  BY <1>5 DEF CommitMarkThread, CommitMarkChannel, CountsReplies, Live
<1> QED
  BY <1>2, <1>3, <1>4, <1>5 DEF Commit

\* Root counts its live replies until an edit of it has raced with one or a reply
\* was deleted that was not there.
THEOREM RepliesAreTrue == Spec => []CountsReplies
<1>1. Init => CountsReplies
  <2> SUFFICES ASSUME Init PROVE replies = Cardinality(Live("thread"))
    BY DEF CountsReplies
  <2>1. Live("thread") = {}
    BY DEF Init, Live
  <2> QED
    BY <2>1, FS_EmptySet DEF Init
<1>2. IInv /\ CountsReplies /\ [Next]_vars => CountsReplies'
  <2> SUFFICES ASSUME IInv, CountsReplies, [Next]_vars PROVE CountsReplies'
    OBVIOUS
  <2>1. CASE UNCHANGED <<rowVars, history>>
    BY <2>1 DEF rowVars, history, CountsReplies, Live
  <2>2. ASSUME NEW q \in Requests, Begin(q) \/ Rollback(q)
        PROVE  CountsReplies'
    BY <2>1, <2>2 DEF Begin, BeginCreate, BeginReplyToReply, BeginUpdate, BeginDelete,
                      BeginMark, Rollback
  <2> QED
    BY <2>1, <2>2, RepliesCounted DEF Next, vars
<1> QED
  BY <1>1, <1>2, Inductive, PTL DEF Spec

-----------------------------------------------------------------------------
(* Requests that do not overlap *)

OneAtATime == \A p, q \in Requests : op[p] # "idle" /\ op[q] # "idle" => p = q

\* Then what a request has read holds until it commits.
SerialInv ==
  /\ miscounted = FALSE
  /\ \A q \in Requests :
       /\ op[q] \in {"create", "mark"} => known[q] = Live(where[q])
       /\ op[q] \in {"update", "delete"} => state[msg[q]] = "live"
       /\ op[q] = "update" /\ msg[q] = Root => read[q] = replies

\* A request that begins reads what there is.
LEMMA BeginsSerial ==
  ASSUME Types, SerialInv, NEW q \in Requests, Begin(q)
  PROVE  SerialInv' /\ blurred' = blurred
<1>1. UNCHANGED <<rowVars, history>>
  BY DEF Begin, BeginCreate, BeginReplyToReply, BeginUpdate, BeginDelete, BeginMark
<1>2. state' = state /\ replies' = replies /\ miscounted' = miscounted /\ blurred' = blurred
      /\ \A l : Live(l)' = Live(l)
  BY <1>1 DEF rowVars, history, Live
<1>3. ASSUME NEW o \in Ops, NEW u, NEW m, NEW l, NEW s, NEW r, Begins(q, o, u, m, s, l, r),
             o \in {"create", "mark"} => s = Live(l),
             o \in {"update", "delete"} => state[m] = "live",
             o = "update" /\ m = Root => r = replies
      PROVE  SerialInv'
  <2>1. \A p \in Requests \ {q} :
          /\ op'[p] = op[p] /\ known'[p] = known[p] /\ where'[p] = where[p]
          /\ msg'[p] = msg[p] /\ read'[p] = read[p]
    BY <1>3 DEF Begins, Types
  <2>2. op'[q] = o /\ known'[q] = s /\ where'[q] = l /\ msg'[q] = m /\ read'[q] = r
    BY <1>3 DEF Begins, Types
  <2> QED
    BY <1>2, <1>3, <2>1, <2>2 DEF SerialInv
<1>4. ASSUME NEW u \in Users, NEW l \in Lists, BeginCreate(q, u, l)
      PROVE  SerialInv'
  <2>1. Begins(q, "create", u, lastID + 1, Live(l), l, IF l = "thread" THEN replies ELSE 0)
    BY <1>4 DEF BeginCreate
  <2> QED
    BY <2>1, <1>3 DEF Ops
<1>5. ASSUME NEW m \in Messages, BeginReplyToReply(q, m)
      PROVE  SerialInv'
  <2>1. Begins(q, "looping", Nobody, 0, {}, "channel", 0)
    BY <1>5 DEF BeginReplyToReply
  <2> QED
    BY <2>1, <1>3 DEF Ops
<1>6. ASSUME NEW m \in Messages, BeginUpdate(q, m)
      PROVE  SerialInv'
  <2>1. Begins(q, "update", Nobody, m, {}, "channel", IF m = Root THEN replies ELSE 0)
        /\ state[m] = "live"
    BY <1>6 DEF BeginUpdate
  <2> QED
    BY <2>1, <1>3 DEF Ops
<1>7. ASSUME NEW m \in Messages, BeginDelete(q, m)
      PROVE  SerialInv'
  <2>1. Begins(q, "delete", Nobody, m, {}, "channel", 0) /\ state[m] = "live"
    BY <1>7 DEF BeginDelete
  <2> QED
    BY <2>1, <1>3 DEF Ops
<1>8. ASSUME NEW u \in Users, NEW l \in Lists, NEW m \in 0..MaxMessages,
             BeginMark(q, u, l, m)
      PROVE  SerialInv'
  <2>1. Begins(q, "mark", u, m, Live(l), l, IF m = 0 THEN 0 ELSE Cardinality(Newer(l, m)))
    BY <1>8 DEF BeginMark
  <2> QED
    BY <2>1, <1>3 DEF Ops
<1> QED
  BY <1>2, <1>4, <1>5, <1>6, <1>7, <1>8 DEF Begin

\* When a request ends there is no other.
LEMMA EndsSerial ==
  ASSUME Types, OneAtATime, NEW q \in Requests, op[q] # "idle", Ends(q), miscounted' = FALSE
  PROVE  SerialInv'
<1>1. \A p \in Requests : op'[p] = "idle"
  BY DEF Types, OneAtATime, Ends
<1> QED
  BY <1>1 DEF SerialInv

\* A request that commits miscounts no reply, and only a delete any unread message.
LEMMA CommitsSerial ==
  ASSUME Types, SerialInv, OneAtATime, NEW q \in Requests, Commit(q)
  PROVE  SerialInv' /\ (blurred' \subseteq blurred \/ CommitDelete(q))
<1>1. op[q] # "idle" /\ Ends(q)
  BY DEF Commit, CommitCreate, CommitUpdate, CommitDelete, CommitMarkThread, CommitMarkChannel
<1>2. SUFFICES miscounted' = FALSE /\ (blurred' \subseteq blurred \/ CommitDelete(q))
  BY <1>1, EndsSerial
<1>3. CASE CommitCreate(q)
  BY <1>3 DEF CommitCreate, Raced, SerialInv, Sharpen
<1>4. CASE CommitUpdate(q)
  BY <1>4 DEF CommitUpdate, SerialInv, Blur
<1>5. CASE CommitDelete(q)
  BY <1>5 DEF CommitDelete, SerialInv
<1>6. CASE CommitMarkThread(q)
  BY <1>6 DEF CommitMarkThread, Raced, SerialInv, Sharpen
<1>7. CASE CommitMarkChannel(q)
  BY <1>7 DEF CommitMarkChannel, Raced, SerialInv, Sharpen
<1> QED
  BY <1>3, <1>4, <1>5, <1>6, <1>7 DEF Commit

LEMMA StepsSerial ==
  ASSUME IInv, SerialInv, OneAtATime, [Next]_vars
  PROVE  /\ SerialInv'
         /\ blurred' \subseteq blurred \/ \E q \in Requests : CommitDelete(q)
<1> Types
  BY DEF IInv
<1>1. CASE UNCHANGED vars
  BY <1>1 DEF vars, rowVars, reqVars, history, SerialInv, Live
<1>2. ASSUME NEW q \in Requests, Rollback(q)
      PROVE  SerialInv' /\ blurred' \subseteq blurred
  <2>1. op[q] # "idle" /\ Ends(q) /\ miscounted' = FALSE /\ blurred' = blurred
    BY <1>2 DEF Rollback, history, SerialInv
  <2> QED
    BY <2>1, EndsSerial
<1>3. CASE Next
  BY <1>2, <1>3, BeginsSerial, CommitsSerial DEF Next
<1> QED
  BY <1>1, <1>3

LEMMA SerialInit == Init => SerialInv
BY DEF Init, SerialInv

\* As long as requests do not overlap, the original always counts its live replies
\* (edits and deletes of message.go write back what they have read).
THEOREM SerialReplies ==
  Spec /\ []OneAtATime => [](replies = Cardinality(Live("thread")))
<1>1. IInv /\ SerialInv /\ OneAtATime /\ [Next]_vars => SerialInv'
  BY StepsSerial
<1>2. CountsReplies /\ SerialInv => replies = Cardinality(Live("thread"))
  BY DEF CountsReplies, SerialInv
<1> QED
  BY <1>1, <1>2, SerialInit, Inductive, RepliesAreTrue, PTL DEF Spec

\* Even then a delete makes counters of unread messages wrong, because Dec does not ask
\* who had seen the message; but nothing else does.
THEOREM SerialUnread ==
  Spec /\ []OneAtATime =>
    [][blurred' \subseteq blurred \/ \E q \in Requests : CommitDelete(q)]_vars
<1>1. IInv /\ SerialInv /\ OneAtATime /\ [Next]_vars => SerialInv'
  BY StepsSerial
<1>2. IInv /\ SerialInv /\ OneAtATime /\ [Next]_vars =>
        [blurred' \subseteq blurred \/ \E q \in Requests : CommitDelete(q)]_vars
  BY StepsSerial
<1> QED
  BY <1>1, <1>2, SerialInit, Inductive, PTL DEF Spec

-----------------------------------------------------------------------------
(* Presence *)

\* What the clients will have been told last when all of the pipe is fed
Told == IF pipe = <<>> THEN shown ELSE pipe[Len(pipe)]

\* Who counts while nobody else does is alone until it has pushed or left.
Apart ==
  ~ met => \/ Closes = {} /\ \A r, s \in Beats : r = s
           \/ Beats = {} /\ \A r, s \in Closes : r = s

\* Then what it has counted is right when it is pushed, although sessions may
\* have come meanwhile; when there are none, that is what was pushed last.
Right ==
  ~ met =>
    /\ \A s \in Sessions : heart[s] = "present" => Stored # {}
    /\ \A s \in Sessions : closing[s] = "present" => Stored \ {s} # {}
    /\ \A s \in Sessions :
         closing[s] \in {"announced", "cut"} /\ Stored \ {s} = {} => ~ Told
    /\ Stored = {} => ~ Told

PresenceInv == PresenceTypeOK /\ IsFiniteSet(Stored) /\ Apart /\ Right

\* An announcement is the last one until the next.
LEMMA PushTells ==
  ASSUME PresenceTypeOK, NEW b \in BOOLEAN, Push(b)
  PROVE  pipe' \in Seq(BOOLEAN) /\ Len(pipe') <= Backlog /\ (Told' <=> b)
<1>1. pipe \in Seq(BOOLEAN) /\ Len(pipe) < Backlog /\ pipe' = Append(pipe, b)
  BY DEF PresenceTypeOK, Push
<1>2. /\ pipe' \in Seq(BOOLEAN) /\ Len(pipe') = Len(pipe) + 1
      /\ pipe'[Len(pipe) + 1] = b /\ Len(pipe) \in Nat
  BY <1>1
<1>3. pipe' # <<>>
  BY <1>2
<1> QED
  BY <1>1, <1>2, <1>3, PresenceAssumption DEF Told

\* Feeding the pipe changes nothing about what will have been told.
LEMMA FeedTells ==
  ASSUME PresenceTypeOK, Feed
  PROVE  pipe' \in Seq(BOOLEAN) /\ Len(pipe') <= Backlog /\ shown' \in BOOLEAN
         /\ Told' = Told
<1>1. pipe \in Seq(BOOLEAN) /\ pipe # <<>> /\ pipe' = Tail(pipe) /\ shown' = Head(pipe)
      /\ Len(pipe) <= Backlog
  BY DEF PresenceTypeOK, Feed
<1>2. /\ pipe' \in Seq(BOOLEAN) /\ Len(pipe') = Len(pipe) - 1
      /\ Len(pipe) \in Nat /\ Len(pipe) > 0 /\ Head(pipe) = pipe[1]
      /\ \A i \in 1..(Len(pipe) - 1) : pipe'[i] = pipe[i + 1]
  BY <1>1
<1>3. pipe[1] \in BOOLEAN
  BY <1>1, <1>2
<1>4. Told' = Told
  <2>1. CASE Len(pipe) = 1
    <3>1. pipe' = <<>>
      BY <1>2, <2>1
    <3>2. Told = pipe[1] /\ Told' = shown'
      BY <1>1, <2>1, <3>1, Zenon DEF Told
    <3> QED
      BY <1>1, <1>2, <3>2, Zenon
  <2>2. CASE Len(pipe) > 1
    <3>1. Len(pipe') \in 1..(Len(pipe) - 1) /\ Len(pipe') + 1 = Len(pipe)
      BY <1>2, <2>2
    <3>2. pipe'[Len(pipe')] = pipe[Len(pipe)]
      BY <1>2, <3>1
    <3>3. pipe' # <<>>
      BY <3>1
    <3>4. Told = pipe[Len(pipe)] /\ Told' = pipe'[Len(pipe')]
      BY <1>1, <3>3, Zenon DEF Told
    <3> QED
      BY <3>2, <3>4, Zenon
  <2> QED
    BY <1>2, <2>1, <2>2
<1> QED
  BY <1>1, <1>2, <1>3, <1>4, PresenceAssumption

\* How many of its sessions a user has, and what is said then
LEMMA CountTells ==
  ASSUME IsFiniteSet(Stored)
  PROVE  /\ Verdict(Count) = IF Stored # {} THEN "present" ELSE "absent"
         /\ \A s \in Stored :
              Verdict(Count - 1) = IF Stored \ {s} # {} THEN "present" ELSE "absent"
<1>1. Count \in Nat /\ (Count = 0 <=> Stored = {})
  BY FS_CardinalityType, FS_EmptySet DEF Count
<1>2. ASSUME NEW s \in Stored
      PROVE  Verdict(Count - 1) = IF Stored \ {s} # {} THEN "present" ELSE "absent"
  <2>1. IsFiniteSet(Stored \ {s}) /\ Cardinality(Stored \ {s}) = Count - 1
    BY FS_RemoveElement DEF Count
  <2>2. Cardinality(Stored \ {s}) \in Nat
        /\ (Cardinality(Stored \ {s}) = 0 <=> Stored \ {s} = {})
    BY <2>1, FS_CardinalityType, FS_EmptySet
  <2> QED
    BY <1>1, <2>1, <2>2 DEF Verdict
<1> QED
  BY <1>1, <1>2 DEF Verdict

\* Every step keeps the types.  A close is of a session that is open.
LEMMA PresenceTypesKept ==
  ASSUME PresenceTypeOK, [PresenceNext]_presenceVars
  PROVE  PresenceTypeOK'
<1> USE DEF PresenceTypeOK, Phases, Counted, Closings
<1>1. CASE Feed
  BY <1>1, FeedTells DEF Feed
<1>2. ASSUME NEW s \in Sessions,
             Save(s) \/ SetUser(s) \/ CountConnected(s) \/ ConnectedPanics(s)
      PROVE  PresenceTypeOK'
  <2>1. \E p \in Phases \ {"closed", "live"} :
          phase' = [phase EXCEPT ![s] = p] /\ phase[s] # "live"
    BY <1>2 DEF Save, SetUser, CountConnected, ConnectedPanics
  <2>2. /\ gone' = gone /\ reader' = reader /\ heart' = heart /\ closing' = closing
        /\ closer' = closer /\ pipe' = pipe /\ shown' = shown /\ met' \in BOOLEAN
    BY <1>2 DEF Save, SetUser, CountConnected, ConnectedPanics
  <2> QED
    BY <2>1, <2>2
<1>3. ASSUME NEW s \in Sessions, PushConnected(s)
      PROVE  PresenceTypeOK'
  BY <1>3, PushTells DEF PushConnected
<1>4. ASSUME NEW s \in Sessions, Tick(s)
      PROVE  PresenceTypeOK'
  BY <1>4 DEF Tick, Verdict
<1>5. ASSUME NEW s \in Sessions, PushBeat(s)
      PROVE  PresenceTypeOK'
  BY <1>5, PushTells DEF PushBeat
<1>6. ASSUME NEW s \in Sessions, DropBeat(s) \/ HeartEnds(s) \/ HeartPanics(s)
      PROVE  PresenceTypeOK'
  BY <1>6 DEF DropBeat, HeartEnds, HeartPanics
<1>7. ASSUME NEW s \in Sessions, NEW g \in {"reader", "writer"},
             Open(s), CloseCounts(s, g),
             UNCHANGED <<phase, gone, reader, heart, pipe, shown>>
      PROVE  PresenceTypeOK'
  BY <1>7 DEF CloseCounts, Open, Verdict
<1>8. ASSUME NEW s \in Sessions, ReadFails(s) \/ WriteFails(s)
      PROVE  PresenceTypeOK'
  BY <1>7, <1>8 DEF ReadFails, WriteFails
<1>9. ASSUME NEW s \in Sessions, WriterPanics(s)
      PROVE  PresenceTypeOK'
  BY <1>9 DEF WriterPanics, Open
<1>10. ASSUME NEW s \in Sessions, Announce(s)
       PROVE  PresenceTypeOK'
  BY <1>10, PushTells DEF Announce
<1>11. ASSUME NEW s \in Sessions, CutOff(s)
       PROVE  PresenceTypeOK'
  BY <1>11 DEF CutOff
<1>12. ASSUME NEW s \in Sessions, Delete(s)
       PROVE  PresenceTypeOK'
  BY <1>12 DEF Delete
<1>13. ASSUME NEW s \in Sessions,
              ReaderEnds(s) \/ Receive(s) \/ Dispatched(s) \/ ClientGone(s)
       PROVE  PresenceTypeOK'
  BY <1>13 DEF ReaderEnds, Receive, Dispatched, ClientGone
<1>14. ASSUME NEW s \in Sessions, Crash(s)
       PROVE  PresenceTypeOK'
  <2>1. pipe' = <<>> /\ <<>> \in Seq(BOOLEAN) /\ Len(<<>>) <= Backlog
    BY <1>14, PresenceAssumption DEF Crash
  <2> QED
    BY <1>14, <2>1 DEF Crash
<1>15. CASE UNCHANGED presenceVars
  BY <1>15 DEF presenceVars
<1> QED
  BY <1>1, <1>2, <1>3, <1>4, <1>5, <1>6, <1>8, <1>9, <1>10, <1>11, <1>12, <1>13, <1>14,
     <1>15 DEF PresenceNext, Step

\* Where nothing but what a session is doing changes, nothing is counted, told or
\* forgotten.
LEMMA StoreStays ==
  ASSUME PresenceInv, PresenceTypeOK', met' = met, Told' = Told,
         closing' = closing, Stored' = Stored,
         \A s \in Sessions : heart'[s] \in {heart[s], "on", "off"}
  PROVE  PresenceInv'
<1>1. Beats' \subseteq Beats /\ Closes' = Closes
  BY DEF Beats, Closes, Counted
<1>2. Apart'
  BY <1>1 DEF PresenceInv, Apart
<1>3. ASSUME ~ met
      PROVE  /\ \A s \in Sessions : heart'[s] = "present" => Stored # {}
             /\ \A s \in Sessions : closing[s] = "present" => Stored \ {s} # {}
             /\ \A s \in Sessions :
                  closing[s] \in {"announced", "cut"} /\ Stored \ {s} = {} => ~ Told
             /\ Stored = {} => ~ Told
  <2>1. \A s \in Sessions : heart'[s] = "present" => heart[s] = "present"
    OBVIOUS
  <2> QED
    BY <1>3, <2>1 DEF PresenceInv, Right
<1>4. Right'
  BY <1>3, Zenon DEF Right
<1> QED
  BY <1>2, <1>4 DEF PresenceInv

\* A session comes: somebody is there, who has counted nothing yet.
LEMMA SaveKeeps ==
  ASSUME PresenceInv, PresenceTypeOK', NEW s \in Sessions, Save(s)
  PROVE  PresenceInv'
<1>1. Stored' = Stored \cup {s} /\ Closes' = Closes /\ Beats' = Beats
  BY DEF PresenceInv, PresenceTypeOK, Save, Stored, Closes, Beats
<1>2. IsFiniteSet(Stored')
  BY <1>1, FS_AddElement DEF PresenceInv
<1>3. /\ heart' = heart /\ closing' = closing
      /\ met' = (met /\ (Stored # {} \/ Beats # {}))
      /\ s \notin Stored
  BY DEF Save, Stored
<1>4. Closes \subseteq Stored
  BY DEF PresenceInv, PresenceTypeOK, Closes, Stored
<1>5. ASSUME NEW r \in Sessions, closing[r] # "no"
      PROVE  Stored' \ {r} # {} /\ r \in Stored
  <2>1. r \in Stored
    BY <1>4, <1>5 DEF Closes
  <2> QED
    BY <1>1, <1>3, <2>1
<1>6. Apart'
  <2>1. CASE Stored = {} /\ Beats = {}
    BY <1>1, <1>4, <2>1 DEF Apart
  <2>2. CASE Stored # {} \/ Beats # {}
    BY <1>1, <1>3, <2>2 DEF PresenceInv, Apart
  <2> QED
    BY <2>1, <2>2
<1>7. Right'
  BY <1>1, <1>3, <1>5 DEF Right
<1> QED
  BY <1>2, <1>6, <1>7 DEF PresenceInv

\* A session that is stored announces itself.
LEMMA PushConnectedKeeps ==
  ASSUME PresenceInv, PresenceTypeOK', NEW s \in Sessions, PushConnected(s)
  PROVE  PresenceInv'
<1>1. s \in Stored /\ Stored' = Stored
  BY DEF PresenceInv, PresenceTypeOK, PushConnected, Stored
<1>2. Closes' = Closes /\ closing' = closing /\ closing[s] = "no"
  BY DEF PresenceInv, PresenceTypeOK, PushConnected, Closes
<1>3. /\ \A r \in Sessions : heart'[r] = "present" => heart[r] = "present"
      /\ Beats' \subseteq Beats
  BY DEF PresenceInv, PresenceTypeOK, PushConnected, Beats, Counted
<1>4. met' = met
  BY DEF PushConnected
<1>5. Apart'
  BY <1>2, <1>3, <1>4 DEF PresenceInv, Apart
<1>6. Right'
  <2>1. \A r \in Sessions : closing[r] \in {"announced", "cut"} => Stored \ {r} # {}
    BY <1>1, <1>2
  <2> QED
    BY <1>1, <1>2, <1>3, <1>4, <2>1 DEF PresenceInv, Right
<1> QED
  BY <1>1, <1>5, <1>6 DEF PresenceInv

\* A heartbeat counts what is stored, alone or blurring.
LEMMA TickKeeps ==
  ASSUME PresenceInv, PresenceTypeOK', NEW s \in Sessions, Tick(s)
  PROVE  PresenceInv'
<1>1. /\ Stored' = Stored /\ Closes' = Closes /\ closing' = closing /\ Told' = Told
      /\ met' = (met \/ Closes # {} \/ Beats \ {s} # {})
  BY DEF Tick, Stored, Closes, Told, Meets
<1>2. heart'[s] = (IF Stored # {} THEN "present" ELSE "absent")
      /\ \A r \in Sessions \ {s} : heart'[r] = heart[r]
  BY CountTells DEF PresenceInv, PresenceTypeOK, Tick
<1>3. Beats' \subseteq Beats \cup {s}
  BY <1>2 DEF Beats
<1>4. Apart'
  BY <1>1, <1>3 DEF Apart
<1>5. Right'
  BY <1>1, <1>2 DEF PresenceInv, Right
<1> QED
  BY <1>1, <1>4, <1>5 DEF PresenceInv

\* What a heartbeat pushes is still so: nobody has closed since.
LEMMA PushBeatKeeps ==
  ASSUME PresenceInv, PresenceTypeOK', NEW s \in Sessions, PushBeat(s)
  PROVE  PresenceInv'
<1>1. Stored' = Stored /\ Closes' = Closes /\ closing' = closing /\ met' = met
  BY DEF PushBeat, Stored, Closes
<1>2. /\ \A r \in Sessions : heart'[r] = "present" => heart[r] = "present"
      /\ Beats' \subseteq Beats /\ s \in Beats
  BY DEF PresenceInv, PresenceTypeOK, PushBeat, Beats, Counted
<1>3. Told' <=> heart[s] = "present"
  BY PushTells DEF PresenceInv, PushBeat
<1>4. Apart'
  BY <1>1, <1>2 DEF PresenceInv, Apart
<1>5. ASSUME ~ met
      PROVE  /\ \A r \in Sessions : closing[r] = "no"
             /\ Stored = {} => ~ Told'
  <2>1. Closes = {}
    BY <1>2, <1>5 DEF PresenceInv, Apart
  <2> QED
    BY <1>3, <1>5, <2>1 DEF Closes, PresenceInv, Right
<1>6. Right'
  BY <1>1, <1>2, <1>5 DEF PresenceInv, Right
<1> QED
  BY <1>1, <1>4, <1>6 DEF PresenceInv

\* Close counts the others, alone or blurring.
LEMMA CloseKeeps ==
  ASSUME PresenceInv, PresenceTypeOK', NEW s \in Sessions, ReadFails(s) \/ WriteFails(s)
  PROVE  PresenceInv'
<1>1. /\ Open(s) /\ phase' = phase /\ heart' = heart /\ pipe' = pipe /\ shown' = shown
      /\ closing' = [closing EXCEPT ![s] = Verdict(Count - 1)]
      /\ met' = (met \/ Closes # {} \/ Beats # {})
  BY DEF ReadFails, WriteFails, CloseCounts
<1>2. s \in Stored /\ Stored' = Stored /\ Beats' = Beats /\ Told' = Told
  BY <1>1 DEF Open, Stored, Beats, Told
<1>3. closing'[s] = (IF Stored \ {s} # {} THEN "present" ELSE "absent")
      /\ \A r \in Sessions \ {s} : closing'[r] = closing[r]
  BY <1>1, <1>2, CountTells DEF PresenceInv, PresenceTypeOK
<1>4. Closes' \subseteq Closes \cup {s}
  BY <1>3 DEF Closes
<1>5. Apart'
  BY <1>1, <1>2, <1>4 DEF Apart
<1>6. Right'
  <2>1. \A r \in Sessions : closing'[r] = "present" /\ ~ met => Stored \ {r} # {}
    BY <1>3 DEF PresenceInv, Right
  <2>2. \A r \in Sessions : closing'[r] \in {"announced", "cut"} => closing[r] = closing'[r]
    BY <1>3
  <2> QED
    BY <1>1, <1>2, <2>1, <2>2 DEF PresenceInv, Right
<1> QED
  BY <1>2, <1>5, <1>6 DEF PresenceInv

\* A close that says "present" leaves another session, which can only go by a
\* close of its own.
LEMMA AnnounceKeeps ==
  ASSUME PresenceInv, PresenceTypeOK', NEW s \in Sessions, Announce(s)
  PROVE  PresenceInv'
<1>1. /\ Stored' = Stored /\ Beats' = Beats /\ heart' = heart /\ met' = met
      /\ closing' = [closing EXCEPT ![s] = "announced"] /\ closing[s] \in Counted
  BY DEF Announce, Stored, Beats
<1>2. closing'[s] = "announced" /\ \A r \in Sessions \ {s} : closing'[r] = closing[r]
  BY <1>1 DEF PresenceInv, PresenceTypeOK
<1>3. Closes' = Closes /\ s \in Closes
  BY <1>1, <1>2 DEF Closes, Counted
<1>4. Told' <=> closing[s] = "present"
  BY PushTells DEF PresenceInv, Announce
<1>5. Apart'
  BY <1>1, <1>3 DEF PresenceInv, Apart
<1>6. ASSUME ~ met
      PROVE  /\ \A r \in Sessions \ {s} : closing[r] = "no"
             /\ Stored \ {s} = {} => ~ Told'
  <2>1. \A r \in Closes : r = s
    BY <1>3, <1>6 DEF PresenceInv, Apart
  <2> QED
    BY <1>4, <1>6, <2>1 DEF Closes, PresenceInv, Right
<1>7. Right'
  BY <1>1, <1>2, <1>6 DEF PresenceInv, Right
<1> QED
  BY <1>1, <1>5, <1>7 DEF PresenceInv

LEMMA CutOffKeeps ==
  ASSUME PresenceInv, PresenceTypeOK', NEW s \in Sessions, CutOff(s)
  PROVE  PresenceInv'
<1>1. /\ Stored' = Stored /\ Beats' = Beats /\ heart' = heart /\ met' = met
      /\ Told' = Told
      /\ closing' = [closing EXCEPT ![s] = "cut"] /\ closing[s] = "announced"
  BY DEF CutOff, Stored, Beats, Told
<1>2. closing'[s] = "cut" /\ \A r \in Sessions \ {s} : closing'[r] = closing[r]
  BY <1>1 DEF PresenceInv, PresenceTypeOK
<1>3. Closes' = Closes
  BY <1>1, <1>2 DEF Closes
<1>4. Apart'
  BY <1>1, <1>3 DEF PresenceInv, Apart
<1>5. Right'
  BY <1>1, <1>2 DEF PresenceInv, Right
<1> QED
  BY <1>1, <1>4, <1>5 DEF PresenceInv

\* When the last one is deleted the others have been told: what it has announced
\* is still the last announcement.
LEMMA DeleteKeeps ==
  ASSUME PresenceInv, PresenceTypeOK', NEW s \in Sessions, Delete(s)
  PROVE  PresenceInv'
<1>1. /\ Stored' = Stored \ {s} /\ Beats' = Beats /\ heart' = heart /\ met' = met
      /\ Told' = Told
      /\ closing' = [closing EXCEPT ![s] = "no"] /\ closing[s] = "cut"
  BY DEF PresenceInv, PresenceTypeOK, Delete, Stored, Beats, Told
<1>2. closing'[s] = "no" /\ \A r \in Sessions \ {s} : closing'[r] = closing[r]
  BY <1>1 DEF PresenceInv, PresenceTypeOK
<1>3. Closes' \subseteq Closes /\ s \in Closes
  BY <1>1, <1>2 DEF Closes
<1>4. IsFiniteSet(Stored')
  BY <1>1, FS_RemoveElement DEF PresenceInv
<1>5. Apart'
  BY <1>1, <1>3 DEF PresenceInv, Apart
<1>6. ASSUME ~ met
      PROVE  /\ \A r \in Sessions : closing'[r] = "no" /\ heart[r] # "present"
             /\ Stored \ {s} = {} => ~ Told
  <2>1. Beats = {} /\ \A r \in Closes : r = s
    BY <1>3, <1>6 DEF PresenceInv, Apart
  <2>2. \A r \in Sessions : closing'[r] = "no"
    BY <1>2, <2>1 DEF Closes
  <2>3. \A r \in Sessions : heart[r] # "present"
    BY <2>1 DEF Beats, Counted
  <2> QED
    BY <1>1, <1>6, <2>2, <2>3 DEF PresenceInv, Right
<1>7. Right'
  BY <1>1, <1>6 DEF Right
<1> QED
  BY <1>4, <1>5, <1>7 DEF PresenceInv

\* A process that starts anew has told nobody anything.
LEMMA CrashKeeps ==
  ASSUME PresenceInv, PresenceTypeOK', NEW s \in Sessions, Crash(s)
  PROVE  PresenceInv'
<1>1. Stored' = {} /\ Beats' = {} /\ Closes' = {} /\ ~ Told'
  BY DEF Crash, Stored, Beats, Closes, Counted, Told
<1>2. \A r \in Sessions : heart'[r] = "off" /\ closing'[r] = "no"
  BY DEF Crash
<1>3. IsFiniteSet(Stored')
  BY <1>1, FS_EmptySet
<1>4. Apart' /\ Right'
  BY <1>1, <1>2 DEF Apart, Right
<1> QED
  BY <1>3, <1>4 DEF PresenceInv

\* All other steps leave the store and the announcements alone.
LEMMA OthersKeep ==
  ASSUME PresenceInv, PresenceTypeOK', NEW s \in Sessions,
         \/ SetUser(s) \/ CountConnected(s) \/ ConnectedPanics(s)
         \/ DropBeat(s) \/ HeartEnds(s) \/ HeartPanics(s) \/ WriterPanics(s)
         \/ ReaderEnds(s) \/ Receive(s) \/ Dispatched(s) \/ ClientGone(s)
  PROVE  PresenceInv'
<1> DEFINE Moved(p) == phase[s] # "closed" /\ phase' = [phase EXCEPT ![s] = p]
<1>1. /\ closing' = closing /\ met' = met /\ pipe' = pipe /\ shown' = shown
  BY DEF SetUser, CountConnected, ConnectedPanics, DropBeat, HeartEnds, HeartPanics,
         WriterPanics, ReaderEnds, Receive, Dispatched, ClientGone
<1>2. phase' = phase \/ \E p \in Phases \ {"closed"} : Moved(p)
  BY DEF SetUser, CountConnected, ConnectedPanics, DropBeat, HeartEnds, HeartPanics,
         WriterPanics, ReaderEnds, Receive, Dispatched, ClientGone, Phases, Open
<1>3. heart' = heart \/ \E h \in {"on", "off"} : heart' = [heart EXCEPT ![s] = h]
  BY DEF SetUser, CountConnected, ConnectedPanics, DropBeat, HeartEnds, HeartPanics,
         WriterPanics, ReaderEnds, Receive, Dispatched, ClientGone
<1>4. Stored' = Stored
  BY <1>2 DEF PresenceInv, PresenceTypeOK, Stored
<1>5. \A r \in Sessions : heart'[r] \in {heart[r], "on", "off"}
  BY <1>3 DEF PresenceInv, PresenceTypeOK
<1>6. Told' = Told
  BY <1>1 DEF Told
<1> QED
  BY <1>1, <1>4, <1>5, <1>6, StoreStays

LEMMA PresenceInitHolds == PresenceInit => PresenceInv
<1> SUFFICES ASSUME PresenceInit PROVE PresenceInv
  OBVIOUS
<1>1. Stored = {} /\ Beats = {} /\ Closes = {} /\ ~ Told
  BY DEF PresenceInit, Stored, Beats, Closes, Counted, Told
<1>2. \A r \in Sessions : heart[r] = "off" /\ closing[r] = "no"
  BY DEF PresenceInit
<1>3. IsFiniteSet(Stored)
  BY <1>1, FS_EmptySet
<1>4. Apart /\ Right
  BY <1>1, <1>2 DEF Apart, Right
<1>5. <<>> \in Seq(BOOLEAN) /\ Len(<<>>) <= Backlog
  BY PresenceAssumption
<1>6. PresenceTypeOK
  BY <1>5 DEF PresenceInit, PresenceTypeOK, Phases, Counted, Closings
<1> QED
  BY <1>3, <1>4, <1>6 DEF PresenceInv

LEMMA PresenceStepKeeps == PresenceInv /\ [PresenceNext]_presenceVars => PresenceInv'
<1> SUFFICES ASSUME PresenceInv, [PresenceNext]_presenceVars PROVE PresenceInv'
  OBVIOUS
<1>1. PresenceTypeOK'
  BY PresenceTypesKept DEF PresenceInv
<1>2. CASE Feed
  <2>1. Told' = Told /\ Stored' = Stored /\ closing' = closing /\ met' = met
        /\ heart' = heart
    BY <1>2, FeedTells DEF PresenceInv, Feed, Stored
  <2> QED
    BY <1>1, <2>1, StoreStays
<1>3. ASSUME NEW s \in Sessions, Step(s)
      PROVE  PresenceInv'
  BY <1>1, <1>3, SaveKeeps, PushConnectedKeeps, TickKeeps, PushBeatKeeps, CloseKeeps,
     AnnounceKeeps, CutOffKeeps, DeleteKeeps, CrashKeeps, OthersKeep DEF Step
<1>4. CASE UNCHANGED presenceVars
  <2>1. Told' = Told /\ Stored' = Stored /\ closing' = closing /\ met' = met
        /\ heart' = heart
    BY <1>4 DEF presenceVars, Stored, Told
  <2> QED
    BY <1>1, <2>1, StoreStays
<1> QED
  BY <1>2, <1>3, <1>4 DEF PresenceNext

\* When a user has gone, the last thing the others were told is that, for any
\* sessions and any capacity of the pipe.
THEOREM AbsenceIsShown == PresenceSpec => []GoneIsShown
<1>1. PresenceInv => GoneIsShown
  <2> SUFFICES ASSUME PresenceInv, Stored = {}, pipe = <<>>, ~ met
               PROVE  ~ shown
    BY DEF GoneIsShown, PresenceInv, PresenceTypeOK
  <2> QED
    BY DEF PresenceInv, Right, Told
<1> QED
  BY <1>1, PresenceInitHolds, PresenceStepKeeps, PTL DEF PresenceSpec
=============================================================================
