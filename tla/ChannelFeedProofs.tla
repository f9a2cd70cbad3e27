-------------------------- MODULE ChannelFeedProofs --------------------------
(***************************************************************************)
(* Live subscriptions follow the members, for any number of users,         *)
(* sessions and requests and any capacity of the pipe: with nothing under  *)
(* way for its user a session is subscribed as its user is joined, unless  *)
(* one of the known ways to go wrong has excused it since the last event.  *)
(***************************************************************************)
EXTENDS ChannelFeed, WellFoundedInduction, SequenceTheorems, TLAPS

\* the requests that have announced, and not committed, a change of u
Announcing(u) == {q \in Writing(u) : step[q] = "pushed" /\ action[q] # "invite"}

\* i is the event of u that is fed last
IsLast(i, u) == i \in Pending(u) /\ \A j \in Pending(u) : j <= i

\* what s is subscribed to, or will be in its next step
Follows(s) == s \in subs \/ readable[s]

\* The lock of a row has one owner.
Locked == \A u \in Users : \A p, q \in Writing(u) : p = q

\* What a request has decided; while it holds the lock of a row that is not
\* there, the row is not inserted by another.
Decided ==
  \A q \in Requests : step[q] # "idle" =>
    /\ target[q] \in Users
    /\ action[q] = "invite" => seen[q] = "none" /\ step[q] # "written"
    /\ step[q] \in {"written", "pushed"} =>
         /\ action[q] = "invite" => draft[q] = "invitee" /\ row[target[q]] = "none"
         /\ action[q] = "delete" => draft[q] = "none"
         /\ action[q] = "add"    => draft[q] \in {"none", "member"}

\* The last event of a user that waits in the pipe says what the user's row is,
\* or what the transaction that has pushed it will make it, unless it is void.
AnnouncedAt(i, u) ==
  /\ Announcing(u) = {} /\ ~pipe[i].void =>
       (pipe[i].kind = "join" <=> row[u] = "member")
  /\ \A q \in Announcing(u) :
       ~pipe[i].void /\ (pipe[i].kind = "join" <=> action[q] = "add")

Announced ==
  \A u \in Users : \A i \in Pending(u) : IsLast(i, u) => AnnouncedAt(i, u)

\* A session has something to subscribe to between its two steps only, and no
\* subscription before the feed could find it.
Reading ==
  \A s \in Sessions :
    /\ readable[s] => session[s] = "read"
    /\ s \in subs => session[s] \in {"named", "read", "live"}

\* A session with no event before it follows what its user's row is, or what
\* the transaction under way will make it.
SettledAt(s) ==
  Pending(UserOf[s]) = {} /\ session[s] \in {"named", "read", "live"} =>
    /\ Announcing(UserOf[s]) = {} =>
         /\ Follows(s) => row[UserOf[s]] # "none"
         /\ row[UserOf[s]] = "member" /\ session[s] # "named" => Follows(s)
    /\ \A q \in Announcing(UserOf[s]) :
         /\ Follows(s) => action[q] = "add"
         /\ draft[q] = "member" /\ session[s] # "named" => Follows(s)

Settled == \A s \in Sessions \ excused : SettledAt(s)

IInv == TypeOK /\ Locked /\ Decided /\ Announced /\ Reading /\ Settled

-----------------------------------------------------------------------------
(* Sets of numbers *)

\* A nonempty set of naturals has a least element.
LEMMA Least ==
  ASSUME NEW B \in SUBSET Nat, B # {}
  PROVE  \E m \in B : \A b \in B : m <= b
<1> DEFINE R == {ss \in Nat \X Nat : ss[1] < ss[2]}
<1>1. OpToRel(<, Nat) = R
  BY DEF OpToRel
<1>2. IsWellFoundedOn(R, Nat)
  BY <1>1, NatLessThanWellFounded
<1>3. PICK x \in B : \A y \in B : ~ (<<y, x>> \in R)
  <2> HIDE DEF R
  <2> QED BY <1>2, WFMin
<1>4. ASSUME NEW y \in B PROVE x <= y
  <2>1. x \in Nat /\ y \in Nat /\ <<y, x>> \notin R
    BY <1>3
  <2>2. ~ (y < x)
    BY <2>1
  <2> QED BY <2>1, <2>2
<1> QED BY <1>4

\* A nonempty bounded set of naturals has a greatest element.
LEMMA Greatest ==
  ASSUME NEW n \in Nat, NEW A \in SUBSET (0..n), A # {}
  PROVE  \E m \in A : \A a \in A : a <= m
<1> DEFINE B == {b \in Nat : \A a \in A : a <= b}
<1>1. n \in B
  OBVIOUS
<1>2. PICK m \in B : \A b \in B : m <= b
  <2> HIDE DEF B
  <2>1. B \in SUBSET Nat
    BY DEF B
  <2> QED BY <1>1, <2>1, Least
<1>3. m \in Nat /\ \A a \in A : a <= m
  OBVIOUS
<1>4. m \in A
  <2> SUFFICES ASSUME m \notin A PROVE FALSE
    OBVIOUS
  <2>1. PICK a \in A : TRUE
    OBVIOUS
  <2>2. a \in Nat /\ a < m
    BY <1>3
  <2>3. \A c \in A : c <= m - 1
    BY <1>3
  <2>4. m - 1 \in B
    BY <1>3, <2>2, <2>3
  <2> QED BY <1>2, <1>3, <2>4
<1> QED BY <1>3, <1>4

-----------------------------------------------------------------------------
(* The pipe *)

\* The events of a user that wait have a last one.
LEMMA LastExists ==
  ASSUME TypeOK, NEW u \in Users, Pending(u) # {}
  PROVE  \E i \in Pending(u) : IsLast(i, u)
<1>1. Len(pipe) \in Nat /\ Pending(u) \subseteq 0..Len(pipe)
  BY DEF TypeOK, Pending
<1>2. Pending(u) \in SUBSET (0..Len(pipe))
  BY <1>1
<1>3. \E i \in Pending(u) : \A j \in Pending(u) : j <= i
  BY <1>1, <1>2, Greatest
<1> QED BY <1>3 DEF IsLast

\* and only one.
LEMMA LastIsOne ==
  ASSUME TypeOK, NEW u \in Users, NEW i, NEW j, IsLast(i, u), IsLast(j, u)
  PROVE  i = j
BY DEF TypeOK, IsLast, Pending

\* An event that is pushed is the last one of its user; those of others are
\* where they were.
LEMMA Pushed ==
  ASSUME TypeOK, NEW e \in Event, pipe' = Append(pipe, e)
  PROVE  /\ IsLast(Len(pipe), e.user)'
         /\ (pipe[Len(pipe)])' = e
         /\ \A u \in Users \ {e.user} :
              /\ Pending(u)' = Pending(u)
              /\ \A i \in Pending(u) : pipe'[i] = pipe[i]
<1>1. /\ pipe \in Seq(Event) /\ pipe' \in Seq(Event) /\ Len(pipe) \in Nat
      /\ Len(pipe') = Len(pipe) + 1
      /\ \A i \in 1..Len(pipe) : pipe'[i] = pipe[i]
      /\ pipe'[Len(pipe) + 1] = e
  BY AppendProperties DEF TypeOK
<1>2. DOMAIN pipe = 1..Len(pipe) /\ DOMAIN pipe' = 1..(Len(pipe) + 1)
  BY <1>1
<1>3. IsLast(Len(pipe), e.user)'
  BY <1>1, <1>2 DEF IsLast, Pending
<1>4. ASSUME NEW u \in Users \ {e.user}
      PROVE  /\ Pending(u)' = Pending(u)
             /\ \A i \in Pending(u) : pipe'[i] = pipe[i]
  BY <1>1, <1>2 DEF Pending
<1> QED BY <1>1, <1>3, <1>4

\* When an event is taken those of other users are the same, one place ahead ...
LEMMA Taken ==
  ASSUME TypeOK, pipe # <<>>, pipe' = Tail(pipe)
  PROVE  /\ \A u \in Users : \A i \in Pending(u)' :
              /\ i + 1 \in Pending(u) /\ pipe'[i] = pipe[i + 1]
              /\ IsLast(i, u)' => IsLast(i + 1, u)
         /\ \A u \in Users : u # Head(pipe).user /\ Pending(u)' = {} => Pending(u) = {}
         /\ \A u \in Users : u = Head(pipe).user /\ Pending(u)' = {} => IsLast(1, u)
         /\ Head(pipe) = pipe[1] /\ Head(pipe) \in Event
<1>1. /\ pipe \in Seq(Event) /\ Len(pipe) \in Nat \ {0}
      /\ Len(pipe') = Len(pipe) - 1 /\ pipe' \in Seq(Event)
      /\ \A i \in 1..Len(pipe') : pipe'[i] = pipe[i + 1]
      /\ Head(pipe) = pipe[1] /\ Head(pipe) \in Event
  BY HeadTailProperties DEF TypeOK
<1>2. DOMAIN pipe = 1..Len(pipe) /\ DOMAIN pipe' = 1..(Len(pipe) - 1)
  BY <1>1
<1>3. ASSUME NEW u \in Users, NEW i \in 1..(Len(pipe) - 1)
      PROVE  i \in Pending(u)' <=> i + 1 \in Pending(u)
  <2>1. i \in DOMAIN pipe' /\ i + 1 \in DOMAIN pipe /\ pipe'[i] = pipe[i + 1]
    BY <1>1, <1>2
  <2> QED BY <2>1 DEF Pending
<1>4. \A u \in Users : Pending(u)' \subseteq 1..(Len(pipe) - 1) /\ Pending(u) \subseteq 1..Len(pipe)
  BY <1>2 DEF Pending
<1>5. \A u \in Users : \A j \in Pending(u) : j # 1 => j - 1 \in Pending(u)'
  BY <1>1, <1>3, <1>4
<1>6. \A u \in Users : 1 \in Pending(u) <=> u = Head(pipe).user
  BY <1>1, <1>2 DEF Pending
<1>7. ASSUME NEW u \in Users, NEW i \in Pending(u)'
      PROVE  /\ i + 1 \in Pending(u) /\ pipe'[i] = pipe[i + 1]
             /\ IsLast(i, u)' => IsLast(i + 1, u)
  <2>1. i \in 1..(Len(pipe) - 1) /\ i + 1 \in Pending(u) /\ pipe'[i] = pipe[i + 1]
    BY <1>1, <1>3, <1>4
  <2>2. ASSUME IsLast(i, u)', NEW j \in Pending(u) PROVE j <= i + 1
    <3>1. CASE j = 1
      BY <2>1, <3>1
    <3>2. CASE j # 1
      <4>1. j - 1 \in Pending(u)' /\ j \in Nat
        BY <1>4, <1>5, <3>2
      <4>2. j - 1 <= i
        BY <2>2, <4>1 DEF IsLast
      <4> QED BY <2>1, <4>1, <4>2
    <3> QED BY <3>1, <3>2
  <2> QED BY <2>1, <2>2 DEF IsLast
<1>8. ASSUME NEW u \in Users, Pending(u)' = {} PROVE Pending(u) \subseteq {1}
  BY <1>5, <1>8
<1>9. \A u \in Users : u # Head(pipe).user /\ Pending(u)' = {} => Pending(u) = {}
  BY <1>6, <1>8
<1>10. \A u \in Users : u = Head(pipe).user /\ Pending(u)' = {} => IsLast(1, u)
  BY <1>6, <1>8 DEF IsLast
<1> QED BY <1>1, <1>7, <1>9, <1>10

-----------------------------------------------------------------------------
(* Sessions *)

\* The sessions change neither the requests nor the pipe.
LEMMA RequestsAsBefore ==
  ASSUME UNCHANGED <<row, pipe, requestVars>>, Locked, Decided, Announced
  PROVE  /\ Locked' /\ Decided' /\ Announced'
         /\ \A u : Pending(u)' = Pending(u) /\ Announcing(u)' = Announcing(u)
BY DEF requestVars, Locked, Decided, Announced, AnnouncedAt, Announcing, Writing, Pending, IsLast

\* A session that is as it was is settled as it was.
LEMMA SessionAsBefore ==
  ASSUME UNCHANGED <<row, pipe, requestVars>>,
         NEW s, session'[s] = session[s], Follows(s)' = Follows(s), SettledAt(s)
  PROVE  SettledAt(s)'
BY DEF requestVars, SettledAt, Announcing, Writing, Pending

LEMMA OpenKeeps ==
  ASSUME IInv, NEW s \in Sessions, Open(s)
  PROVE  IInv'
<1> USE DEF IInv
<1>1. TypeOK' /\ Reading'
  BY DEF TypeOK, Reading, Open, requestVars, Pending
<1>2. Locked' /\ Decided' /\ Announced'
  BY RequestsAsBefore DEF Open
<1>3. ASSUME NEW t \in Sessions \ excused' PROVE SettledAt(t)'
  <2>1. CASE t = s
    BY <2>1 DEF Open, SettledAt, TypeOK
  <2>2. CASE t # s
    <3>1. session'[t] = session[t] /\ Follows(t)' = Follows(t) /\ SettledAt(t)
      BY <1>3, <2>2 DEF Open, Follows, TypeOK, Settled
    <3> QED BY <3>1, SessionAsBefore DEF Open
  <2> QED BY <2>1, <2>2
<1> QED BY <1>1, <1>2, <1>3 DEF Settled

LEMMA SetUserKeeps ==
  ASSUME IInv, NEW s \in Sessions, SetUser(s)
  PROVE  IInv'
<1> USE DEF IInv
<1>1. TypeOK' /\ Reading'
  BY DEF TypeOK, Reading, SetUser, requestVars, Pending
<1>2. Locked' /\ Decided' /\ Announced'
  BY RequestsAsBefore DEF SetUser
<1>3. ASSUME NEW t \in Sessions \ excused' PROVE SettledAt(t)'
  <2>1. CASE t = s
    <3>1. ~Follows(s)' /\ session'[s] = "named"
      BY DEF SetUser, Follows, Reading, TypeOK
    <3> QED BY <2>1, <3>1 DEF SettledAt
  <2>2. CASE t # s
    <3>1. session'[t] = session[t] /\ Follows(t)' = Follows(t) /\ SettledAt(t)
      BY <1>3, <2>2 DEF SetUser, Follows, TypeOK, Settled
    <3> QED BY <3>1, SessionAsBefore DEF SetUser
  <2> QED BY <2>1, <2>2
<1> QED BY <1>1, <1>2, <1>3 DEF Settled

LEMMA ReadChannelsKeeps ==
  ASSUME IInv, NEW s \in Sessions, ReadChannels(s)
  PROVE  IInv'
<1> USE DEF IInv
<1>1. TypeOK' /\ Reading'
  BY DEF TypeOK, Reading, ReadChannels, requestVars, Pending, Finds
<1>2. /\ Locked' /\ Decided' /\ Announced'
      /\ \A u : Pending(u)' = Pending(u) /\ Announcing(u)' = Announcing(u)
  BY RequestsAsBefore DEF ReadChannels
<1>3. ASSUME NEW t \in Sessions \ excused' PROVE SettledAt(t)'
  <2>0. t \notin excused /\ SettledAt(t)
    BY <1>3 DEF ReadChannels, Settled
  <2>1. CASE t = s
    <3> DEFINE u == UserOf[s]
    <3>1. Follows(s)' <=> s \in subs \/ Finds(u)
      BY DEF ReadChannels, Follows, TypeOK
    <3>2. ~Follows(s) \/ s \in subs
      BY DEF ReadChannels, Follows, Reading
    <3>3. UNCHANGED <<row, action, draft>> /\ session[s] = "named"
      BY DEF ReadChannels, requestVars
    <3>4. ~(row[u] = "member" /\ ~Finds(u) /\ s \notin subs)
      BY <1>3, <2>1 DEF ReadChannels
    <3>5. ASSUME Pending(u) = {}, NEW q \in Announcing(u)
          PROVE  (s \in subs \/ Finds(u)) <=> draft[q] # "none"
      BY <1>3, <2>1, <3>5 DEF ReadChannels, Announcing
    <3>6. ASSUME NEW q \in Announcing(u)
          PROVE  /\ draft[q] = "member" => draft[q] # "none"
                 /\ draft[q] # "none" => action[q] = "add"
      BY DEF Announcing, Writing, Decided, TypeOK
    <3>7. Finds(u) => row[u] # "none"
      BY DEF Finds
    <3> HIDE DEF u
    <3>8. ASSUME Pending(u) = {}, Announcing(u) = {}
          PROVE  /\ Follows(s)' => row[u] # "none"
                 /\ row[u] = "member" => Follows(s)'
      <4>1. s \in subs => row[u] # "none"
        BY <2>0, <2>1, <3>3, <3>8 DEF SettledAt, Follows, u
      <4> QED BY <3>1, <3>4, <3>7, <4>1
    <3>9. ASSUME Pending(u) = {}, NEW q \in Announcing(u)
          PROVE  /\ Follows(s)' => action[q] = "add"
                 /\ draft[q] = "member" => Follows(s)'
      BY <3>1, <3>5, <3>6, <3>9
    <3> QED BY <1>2, <2>1, <3>3, <3>8, <3>9 DEF SettledAt, u
  <2>2. CASE t # s
    <3>1. session'[t] = session[t] /\ Follows(t)' = Follows(t)
      BY <2>2 DEF ReadChannels, Follows, TypeOK
    <3> QED BY <2>0, <3>1, SessionAsBefore DEF ReadChannels
  <2> QED BY <2>1, <2>2
<1> QED BY <1>1, <1>2, <1>3 DEF Settled

LEMMA ReadChannelsFailsKeeps ==
  ASSUME IInv, NEW s \in Sessions, ReadChannelsFails(s)
  PROVE  IInv'
<1> USE DEF IInv
<1>1. TypeOK' /\ Reading'
  BY DEF TypeOK, Reading, ReadChannelsFails, requestVars, Pending
<1>2. Locked' /\ Decided' /\ Announced'
  BY RequestsAsBefore DEF ReadChannelsFails
<1>3. ASSUME NEW t \in Sessions \ excused' PROVE SettledAt(t)'
  <2>1. t # s /\ session'[t] = session[t] /\ Follows(t)' = Follows(t) /\ SettledAt(t)
    BY <1>3 DEF ReadChannelsFails, Follows, TypeOK, Settled
  <2> QED BY <2>1, SessionAsBefore DEF ReadChannelsFails
<1> QED BY <1>1, <1>2, <1>3 DEF Settled

LEMMA SubscribeKeeps ==
  ASSUME IInv, NEW s \in Sessions, Subscribe(s)
  PROVE  IInv'
<1> USE DEF IInv
<1>1. TypeOK' /\ Reading'
  BY DEF TypeOK, Reading, Subscribe, requestVars, Pending
<1>2. /\ Locked' /\ Decided' /\ Announced'
      /\ \A u : Pending(u)' = Pending(u) /\ Announcing(u)' = Announcing(u)
  BY RequestsAsBefore DEF Subscribe
<1>3. ASSUME NEW t \in Sessions \ excused' PROVE SettledAt(t)'
  <2>0. Follows(t)' = Follows(t) /\ SettledAt(t)
    BY <1>3 DEF Subscribe, Follows, TypeOK, Settled
  <2>1. CASE t = s
    <3>1. UNCHANGED <<row, action, draft>> /\ session[s] = "read"
      BY DEF Subscribe, requestVars
    <3> QED BY <1>2, <2>0, <2>1, <3>1 DEF SettledAt
  <2>2. CASE t # s
    <3>1. session'[t] = session[t]
      BY <2>2 DEF Subscribe, TypeOK
    <3> QED BY <2>0, <3>1, SessionAsBefore DEF Subscribe
  <2> QED BY <2>1, <2>2
<1> QED BY <1>1, <1>2, <1>3 DEF Settled

LEMMA ClientKeeps ==
  ASSUME IInv, NEW s \in Sessions, ClientJoins(s) \/ ClientParts(s)
  PROVE  IInv'
<1> USE DEF IInv
<1>1. TypeOK' /\ Reading'
  BY DEF TypeOK, Reading, ClientJoins, ClientParts, requestVars, Pending
<1>2. Locked' /\ Decided' /\ Announced'
  BY RequestsAsBefore DEF ClientJoins, ClientParts
<1>3. ASSUME NEW t \in Sessions \ excused' PROVE SettledAt(t)'
  <2>1. session'[t] = session[t] /\ Follows(t)' = Follows(t) /\ SettledAt(t)
    BY <1>3 DEF ClientJoins, ClientParts, Follows, TypeOK, Settled
  <2> QED BY <2>1, SessionAsBefore DEF ClientJoins, ClientParts
<1> QED BY <1>1, <1>2, <1>3 DEF Settled

LEMMA CloseKeeps ==
  ASSUME IInv, NEW s \in Sessions, Close(s)
  PROVE  IInv'
<1> USE DEF IInv
<1>1. TypeOK' /\ Reading'
  BY DEF TypeOK, Reading, Close, requestVars, Pending
<1>2. Locked' /\ Decided' /\ Announced'
  BY RequestsAsBefore DEF Close
<1>3. ASSUME NEW t \in Sessions \ excused' PROVE SettledAt(t)'
  <2>1. CASE t = s
    BY <2>1 DEF Close, SettledAt, TypeOK
  <2>2. CASE t # s
    <3>1. session'[t] = session[t] /\ Follows(t)' = Follows(t) /\ SettledAt(t)
      BY <1>3, <2>2 DEF Close, Follows, TypeOK, Settled
    <3> QED BY <3>1, SessionAsBefore DEF Close
  <2> QED BY <2>1, <2>2
<1> QED BY <1>1, <1>2, <1>3 DEF Settled

-----------------------------------------------------------------------------
(* Requests *)

\* A step that neither announces a change nor makes one, in committed rows, in
\* the pipe or in sessions.
LEMMA NothingAnnounced ==
  ASSUME UNCHANGED <<row, pipe, sessionVars, excused>>, UserOf \in [Sessions -> Users],
         \A u \in Users :
           /\ Announcing(u)' = Announcing(u)
           /\ \A q \in Announcing(u) : action'[q] = action[q] /\ draft'[q] = draft[q],
         Announced, Settled, Reading
  PROVE  Announced' /\ Settled' /\ Reading'
<1>1. \A u : Pending(u)' = Pending(u) /\ \A i : IsLast(i, u)' <=> IsLast(i, u)
  BY DEF Pending, IsLast
<1>2. Announced'
  BY <1>1 DEF Announced, AnnouncedAt
<1>3. ASSUME NEW s \in Sessions \ excused PROVE SettledAt(s)'
  <2>1. /\ UserOf[s] \in Users /\ SettledAt(s) /\ (Follows(s)' <=> Follows(s))
        /\ UNCHANGED <<row, session>>
    BY <1>3 DEF Settled, Follows, sessionVars
  <2> QED BY <1>1, <2>1 DEF SettledAt
<1>4. Settled' /\ Reading'
  BY <1>3 DEF Settled, Reading, sessionVars
<1> QED BY <1>2, <1>4

LEMMA ReadMembersKeeps ==
  ASSUME IInv, NEW q \in Requests, NEW u \in Users, NEW a \in {"add", "invite", "delete"},
         ReadMembers(q, u, a)
  PROVE  IInv'
<1> USE DEF IInv
<1>1. TypeOK'
  <2>1. a \in {"add", "invite", "delete"} /\ row[u] \in Row
    BY DEF TypeOK
  <2> QED BY <2>1 DEF TypeOK, ReadMembers, sessionVars
<1>2. \A v : Writing(v)' = Writing(v)
  BY DEF TypeOK, ReadMembers, Writing
<1>3. \A v : \A p \in Writing(v) : p # q /\ action'[p] = action[p] /\ step'[p] = step[p]
  BY DEF TypeOK, ReadMembers, Writing
<1>4. \A v : Announcing(v)' = Announcing(v)
  BY <1>2, <1>3 DEF Announcing
<1>5. Announced' /\ Settled' /\ Reading'
  BY <1>3, <1>4, NothingAnnounced, FeedAssumption DEF ReadMembers, Announcing
<1>6. Locked'
  BY <1>2 DEF Locked
<1>7. Decided'
  <2>1. /\ step'[q] = "read" /\ target'[q] = u /\ action'[q] = a /\ seen'[q] = row[u]
        /\ a = "invite" => row[u] = "none"
    BY DEF ReadMembers, TypeOK
  <2>2. /\ UNCHANGED <<row, draft>>
        /\ \A p \in Requests \ {q} : /\ step'[p] = step[p] /\ target'[p] = target[p]
                                     /\ action'[p] = action[p] /\ seen'[p] = seen[p]
    BY DEF ReadMembers, TypeOK
  <2> QED BY <2>1, <2>2 DEF Decided
<1> QED BY <1>1, <1>5, <1>6, <1>7

LEMMA WriteMemberKeeps ==
  ASSUME IInv, NEW q \in Requests, WriteMember(q)
  PROVE  IInv'
<1> USE DEF IInv
<1>1. target[q] \in Users /\ Writing(target[q]) = {} /\ step[q] = "read"
  BY DEF WriteMember, Decided
<1>2. TypeOK'
  BY DEF TypeOK, WriteMember, sessionVars, Row
<1>3. \A v : Writing(v)' = IF v = target[q] THEN {q} ELSE Writing(v)
  <2>1. UNCHANGED target /\ step'[q] \in {"written", "pushed"}
        /\ \A p \in Requests \ {q} : step'[p] = step[p]
    BY DEF TypeOK, WriteMember
  <2> QED BY <1>1, <2>1 DEF Writing
<1>4. \A v : Announcing(v)' = Announcing(v)
  <2>1. UNCHANGED action /\ \A p \in Requests \ {q} : step'[p] = step[p]
    BY DEF TypeOK, WriteMember
  <2>2. step'[q] = "written" \/ action'[q] = "invite"
    BY <1>1 DEF TypeOK, WriteMember
  <2>3. ASSUME NEW v, NEW p \in Requests PROVE p \in Announcing(v)' <=> p \in Announcing(v)
    <3>1. CASE p = q
      BY <1>1, <2>2, <3>1 DEF Announcing, Writing
    <3>2. CASE p # q
      BY <1>1, <1>3, <2>1, <3>2 DEF Announcing
    <3> QED BY <3>1, <3>2
  <2> QED BY <2>3 DEF Announcing, Writing
<1>5. \A v : \A p \in Announcing(v) : action'[p] = action[p] /\ draft'[p] = draft[p]
  <2>1. UNCHANGED action /\ \A p \in Requests \ {q} : draft'[p] = draft[p]
    BY DEF TypeOK, WriteMember
  <2>2. \A v : Announcing(v) \subseteq Requests \ {q}
    BY <1>1 DEF Announcing, Writing
  <2> QED BY <2>1, <2>2
<1>6. Announced' /\ Settled' /\ Reading'
  BY <1>4, <1>5, NothingAnnounced, FeedAssumption DEF WriteMember
<1>7. Locked'
  BY <1>3 DEF Locked
<1>8. Decided'
  <2>1. UNCHANGED <<row, target, action, seen>>
        /\ \A p \in Requests \ {q} : step'[p] = step[p] /\ draft'[p] = draft[p]
    BY DEF WriteMember, TypeOK
  <2>2. \A p \in Requests \ {q} : step[p] # "idle" =>
          /\ target[p] \in Users
          /\ action[p] = "invite" => seen[p] = "none" /\ step[p] # "written"
          /\ step[p] \in {"written", "pushed"} =>
               /\ action[p] = "invite" => draft[p] = "invitee" /\ row[target[p]] = "none"
               /\ action[p] = "delete" => draft[p] = "none"
               /\ action[p] = "add"    => draft[p] \in {"none", "member"}
    BY DEF Decided
  <2>3. /\ action[q] = "invite" => /\ seen[q] = "none" /\ step'[q] = "pushed"
                                   /\ draft'[q] = "invitee" /\ row[target[q]] = "none"
        /\ action[q] = "delete" => draft'[q] = "none"
        /\ action[q] = "add" => draft'[q] \in {"none", "member"}
    BY <1>1 DEF WriteMember, TypeOK, Decided
  <2> QED BY <1>1, <2>1, <2>2, <2>3 DEF Decided
<1> QED BY <1>2, <1>6, <1>7, <1>8

\* The event becomes the last one of its user, and says what the row will be.
LEMMA PushEventKeeps ==
  ASSUME IInv, NEW q \in Requests, PushEvent(q)
  PROVE  IInv'
<1> USE DEF IInv
<1> DEFINE e == [kind |-> IF action[q] = "add" THEN "join" ELSE "part",
                 user |-> target[q], void |-> FALSE]
<1>1. PICK u \in Users : u = target[q] /\ step[q] = "written" /\ e \in Event /\ e.user = u
  BY DEF PushEvent, Decided, Event
<1>2. pipe' = Append(pipe, e) /\ UNCHANGED <<row, target, action, seen, draft, sessionVars, excused>>
      /\ step'[q] = "pushed" /\ \A p \in Requests \ {q} : step'[p] = step[p]
  BY DEF PushEvent, TypeOK
<1>3. TypeOK'
  <2>1. Append(pipe, e) \in Seq(Event) /\ Len(Append(pipe, e)) = Len(pipe) + 1
    <3> HIDE DEF e
    <3> QED BY <1>1, AppendProperties DEF TypeOK
  <2>2. pipe' \in Seq(Event) /\ Len(pipe') <= Backlog
    BY <1>2, <2>1, FeedAssumption DEF PushEvent, TypeOK
  <2> QED BY <1>2, <2>2 DEF TypeOK, PushEvent, sessionVars
<1>4. \A v : Writing(v)' = Writing(v)
  <2>1. \A p \in Requests : step'[p] \in {"written", "pushed"} <=> step[p] \in {"written", "pushed"}
    BY <1>1, <1>2
  <2> QED BY <1>2, <2>1 DEF Writing
<1>5. Locked' /\ Decided' /\ Reading'
  <2>1. Locked' /\ Reading'
    BY <1>2, <1>4 DEF Locked, Reading, sessionVars
  <2>2. Decided'
    BY <1>1, <1>2 DEF Decided
  <2> QED BY <2>1, <2>2
<1>6. Announcing(u)' = {q}
  <2>1. q \in Announcing(u)'
    BY <1>1, <1>2, <1>4 DEF Announcing, Writing, Decided
  <2>2. \A p \in Announcing(u)' : p \in Writing(u) /\ q \in Writing(u)
    BY <1>1, <1>4 DEF Announcing, Writing
  <2> QED BY <1>1, <2>1, <2>2 DEF Locked
<1>7. ASSUME NEW v, v # u PROVE Announcing(v)' = Announcing(v)
  <2>1. Writing(v) \subseteq Requests \ {q}
    BY <1>1, <1>7 DEF Writing
  <2> QED BY <1>2, <1>4, <2>1 DEF Announcing
<1>8. /\ IsLast(Len(pipe), u)' /\ (pipe[Len(pipe)])' = e
      /\ \A v \in Users \ {u} :
           /\ Pending(v)' = Pending(v)
           /\ \A i \in Pending(v) : pipe'[i] = pipe[i]
  <2> HIDE DEF e
  <2> QED BY <1>1, <1>2, Pushed
<1>9. Announced'
  <2> SUFFICES ASSUME NEW v \in Users, NEW i \in Pending(v)', IsLast(i, v)'
               PROVE  AnnouncedAt(i, v)'
    BY DEF Announced
  <2>1. CASE v = u
    <3>1. i = Len(pipe')
      <4>1. Len(pipe') \in Nat /\ Pending(u)' \subseteq Nat
        BY <1>3 DEF TypeOK, Pending
      <4> QED BY <1>8, <2>1, <4>1 DEF IsLast
    <3>2. pipe'[i] = e
      BY <1>8, <3>1
    <3>3. ~pipe'[i].void /\ (pipe'[i].kind = "join" <=> action[q] = "add")
      BY <3>2
    <3> QED BY <1>2, <1>6, <2>1, <3>3 DEF AnnouncedAt
  <2>2. CASE v # u
    <3>1. i \in Pending(v) /\ IsLast(i, v) /\ pipe'[i] = pipe[i]
      BY <1>8, <2>2 DEF IsLast
    <3>2. Announcing(v)' = Announcing(v)
      BY <1>7, <2>2
    <3>3. AnnouncedAt(i, v)
      BY <3>1 DEF Announced
    <3> QED BY <1>2, <3>1, <3>2, <3>3 DEF AnnouncedAt
  <2> QED BY <2>1, <2>2
<1>10. ASSUME NEW s \in Sessions \ excused' PROVE SettledAt(s)'
  <2>1. CASE UserOf[s] = u
    BY <1>8, <2>1 DEF SettledAt, IsLast
  <2>2. CASE UserOf[s] # u
    <3>1. /\ Pending(UserOf[s])' = Pending(UserOf[s])
          /\ Announcing(UserOf[s])' = Announcing(UserOf[s])
      BY <1>7, <1>8, <2>2, FeedAssumption
    <3>2. SettledAt(s) /\ (Follows(s)' <=> Follows(s)) /\ UNCHANGED <<row, action, draft, session>>
      BY <1>2, <1>10 DEF Settled, Follows, sessionVars
    <3> QED BY <3>1, <3>2 DEF SettledAt
  <2> QED BY <2>1, <2>2
<1> QED BY <1>3, <1>5, <1>9, <1>10 DEF Settled

\* The last event of u is void, or the sessions that were fed it are excused.
LEMMA Misleading ==
  ASSUME TypeOK, NEW q, NEW u \in Users, u = target[q], Misleads(q)
  PROVE  /\ pipe' \in Seq(Event) /\ Len(pipe') = Len(pipe)
         /\ \A v : Pending(v)' = Pending(v) /\ \A i : IsLast(i, v)' <=> IsLast(i, v)
         /\ \A v \in Users \ {u} : \A i \in Pending(v) : pipe'[i] = pipe[i]
         /\ \A i \in Pending(u) : IsLast(i, u) => pipe'[i].void
         /\ excused \subseteq excused' /\ excused' \subseteq excused \cup StoredOf(u)
         /\ Pending(u) = {} => StoredOf(u) \subseteq excused'
<1>1. CASE Pending(u) = {}
  BY <1>1 DEF Misleads, TypeOK, Pending, IsLast
<1>2. CASE Pending(u) # {}
  <2> DEFINE last == CHOOSE i \in Pending(u) : \A j \in Pending(u) : j <= i
  <2>1. IsLast(last, u)
    <3>1. \E i \in Pending(u) : \A j \in Pending(u) : j <= i
      BY <1>2, LastExists DEF IsLast
    <3> QED BY <3>1 DEF IsLast
  <2>2. pipe' = [pipe EXCEPT ![last].void = TRUE] /\ UNCHANGED excused
    BY <1>2 DEF Misleads
  <2> HIDE DEF last
  <2>3. pipe \in [1..Len(pipe) -> Event] /\ Len(pipe) \in Nat /\ last \in 1..Len(pipe)
    BY <2>1 DEF TypeOK, IsLast, Pending
  <2>4. pipe' = [i \in 1..Len(pipe) |-> IF i = last THEN [pipe[last] EXCEPT !.void = TRUE]
                                       ELSE pipe[i]]
    BY <2>2, <2>3
  <2>5. pipe[last] \in Event /\ [pipe[last] EXCEPT !.void = TRUE] \in Event
        /\ [pipe[last] EXCEPT !.void = TRUE].user = pipe[last].user
        /\ [pipe[last] EXCEPT !.void = TRUE].void
    BY <2>3 DEF Event
  <2>6. pipe' \in [1..Len(pipe) -> Event] /\ pipe'[last].void
        /\ \A i \in 1..Len(pipe) : pipe'[i].user = pipe[i].user /\ (i # last => pipe'[i] = pipe[i])
    BY <2>3, <2>4, <2>5
  <2>7. pipe' \in Seq(Event) /\ Len(pipe') = Len(pipe)
    BY <2>3, <2>6
  <2>8. \A v : Pending(v)' = Pending(v)
    <3>1. DOMAIN pipe' = DOMAIN pipe /\ DOMAIN pipe = 1..Len(pipe)
      BY <2>3, <2>6
    <3> QED BY <2>6, <3>1 DEF Pending
  <2>9. \A v : \A i : IsLast(i, v)' <=> IsLast(i, v)
    BY <2>8 DEF IsLast
  <2>10. \A v \in Users \ {u} : \A i \in Pending(v) : pipe'[i] = pipe[i]
    <3>1. \A v \in Users \ {u} : last \notin Pending(v)
      BY <2>1 DEF IsLast, Pending
    <3> QED BY <2>3, <2>6, <3>1 DEF Pending
  <2>11. \A i \in Pending(u) : IsLast(i, u) => pipe'[i].void
    BY <2>1, <2>6, LastIsOne
  <2> QED BY <1>2, <2>2, <2>7, <2>8, <2>9, <2>10, <2>11
<1> QED BY <1>1, <1>2

\* A request that ends lets go of its row.
LEMMA Ending ==
  ASSUME TypeOK, Locked, Decided, NEW q \in Requests, Ends(q),
         NEW u \in Users, u = target[q]
  PROVE  /\ step[q] \in {"written", "pushed"} => Writing(u)' = {} /\ Announcing(u)' = {}
         /\ step[q] \notin {"written", "pushed"} \/ action[q] = "invite" =>
              Announcing(u)' = Announcing(u)
         /\ \A v \in Users : Writing(v)' = Writing(v) \ {q}
         /\ \A v \in Users \ {u} : Announcing(v)' = Announcing(v)
         /\ \A p \in Requests \ {q} : /\ step'[p] = step[p] /\ target'[p] = target[p]
                                     /\ action'[p] = action[p] /\ seen'[p] = seen[p]
                                     /\ draft'[p] = draft[p]
         /\ step'[q] = "idle"
<1>1. /\ \A p \in Requests \ {q} : /\ step'[p] = step[p] /\ target'[p] = target[p]
                                  /\ action'[p] = action[p] /\ seen'[p] = seen[p]
                                  /\ draft'[p] = draft[p]
      /\ step'[q] = "idle"
  BY DEF Ends, TypeOK
<1>2. \A v \in Users : Writing(v)' = Writing(v) \ {q}
  BY <1>1 DEF Writing
<1>3. \A v \in Users : Announcing(v)' = Announcing(v) \ {q}
  BY <1>1, <1>2 DEF Announcing, Writing
<1>4. \A v \in Users \ {u} : q \notin Announcing(v)
  BY DEF Announcing, Writing
<1>5. step[q] \in {"written", "pushed"} => q \in Writing(u) /\ Writing(u) \subseteq {q}
  BY DEF Writing, Locked
<1>6. step[q] \notin {"written", "pushed"} \/ action[q] = "invite" => q \notin Announcing(u)
  BY DEF Announcing, Writing
<1>7. step[q] \in {"written", "pushed"} => Writing(u)' = {} /\ Announcing(u)' = {}
  BY <1>2, <1>5 DEF Announcing
<1>8. \A v \in Users : q \notin Announcing(v) => Announcing(v)' = Announcing(v)
  BY <1>3
<1> HIDE DEF Announcing, Writing
<1> QED BY <1>1, <1>2, <1>4, <1>6, <1>7, <1>8

\* What does not depend on the event: the types, the locks, what the others have
\* decided.
LEMMA EndingKeeps ==
  ASSUME TypeOK, Locked, Decided, Reading, NEW q \in Requests, Ends(q), step[q] # "idle",
         pipe' \in Seq(Event), Len(pipe') = Len(pipe),
         excused' \subseteq excused \cup StoredOf(target[q]),
         UNCHANGED <<off, feeding, sessionVars>>,
         UNCHANGED row \/ ( /\ step[q] = "pushed"
                            /\ row' = [row EXCEPT ![target[q]] = draft[q]] )
  PROVE  TypeOK' /\ Locked' /\ Decided' /\ Reading'
<1>1. PICK u \in Users : u = target[q]
  BY DEF Decided
<1>2. TypeOK'
  <2>1. row' \in [Users -> Row]
    BY DEF TypeOK
  <2>2. /\ step' \in [Requests -> {"idle", "read", "written", "pushed"}]
        /\ target' \in [Requests -> Users \cup {Nobody}]
        /\ action' \in [Requests -> {"add", "invite", "delete"}]
        /\ seen' \in [Requests -> Row] /\ draft' \in [Requests -> Row]
    BY DEF Ends, TypeOK, Row
  <2>3. /\ excused' \subseteq Sessions
        /\ \A s \in subs' \cup excused' : session'[s] # "closed"
    BY DEF TypeOK, StoredOf, Stored, sessionVars
  <2> QED BY <2>1, <2>2, <2>3 DEF TypeOK, sessionVars
<1>3. Locked'
  BY <1>1, Ending DEF Locked
<1>4. Reading'
  BY DEF Reading, sessionVars
<1>5. Decided'
  <2>1. ASSUME NEW p \in Requests \ {q}, step[p] \in {"written", "pushed"}
        PROVE  row'[target[p]] = row[target[p]]
    <3>1. target[p] \in Users /\ (step[q] = "pushed" => target[p] # u)
      BY <1>1, <2>1 DEF Locked, Writing, Decided
    <3> QED BY <1>1, <3>1 DEF TypeOK
  <2>2. /\ step'[q] = "idle"
        /\ \A p \in Requests \ {q} : /\ step'[p] = step[p] /\ target'[p] = target[p]
                                    /\ action'[p] = action[p] /\ seen'[p] = seen[p]
                                    /\ draft'[p] = draft[p]
    BY <1>1, Ending
  <2> QED BY <2>1, <2>2 DEF Decided
<1> QED BY <1>2, <1>3, <1>4, <1>5

\* Other users do not notice.
LEMMA OthersAsBefore ==
  ASSUME TypeOK, Announced, Settled, NEW u \in Users, UNCHANGED sessionVars,
         \A v \in Users \ {u} :
           /\ Announcing(v)' = Announcing(v) /\ Pending(v)' = Pending(v)
           /\ row'[v] = row[v]
           /\ \A i \in Pending(v) : pipe'[i] = pipe[i]
           /\ \A p \in Announcing(v) : action'[p] = action[p] /\ draft'[p] = draft[p],
         excused \subseteq excused'
  PROVE  /\ \A v \in Users \ {u} : \A i \in Pending(v)' : IsLast(i, v)' => AnnouncedAt(i, v)'
         /\ \A s \in Sessions \ excused' : UserOf[s] # u => SettledAt(s)'
<1>1. ASSUME NEW v \in Users \ {u}, NEW i \in Pending(v)', IsLast(i, v)'
      PROVE  AnnouncedAt(i, v)'
  <2>1. IsLast(i, v) /\ i \in Pending(v)
    BY <1>1 DEF IsLast
  <2>2. AnnouncedAt(i, v)
    BY <2>1 DEF Announced
  <2> QED BY <2>1, <2>2 DEF AnnouncedAt
<1>2. ASSUME NEW s \in Sessions \ excused', UserOf[s] # u PROVE SettledAt(s)'
  <2>1. SettledAt(s) /\ UserOf[s] \in Users \ {u} /\ (Follows(s)' <=> Follows(s))
        /\ UNCHANGED session
    BY <1>2, FeedAssumption DEF Settled, Follows, sessionVars
  <2> QED BY <2>1 DEF SettledAt
<1> QED BY <1>1, <1>2

LEMMA CommitKeeps ==
  ASSUME IInv, NEW q \in Requests, Commit(q)
  PROVE  IInv'
<1> USE DEF IInv
<1>1. PICK u \in Users : u = target[q] /\ step[q] = "pushed"
  BY DEF Commit, Decided
<1>2. /\ Ends(q) /\ UNCHANGED <<off, feeding, sessionVars>>
      /\ row' = [row EXCEPT ![u] = draft[q]] /\ draft[q] \in Row
  BY <1>1 DEF Commit, TypeOK
<1>3. /\ Writing(u)' = {} /\ Announcing(u)' = {}
      /\ \A v \in Users \ {u} : Announcing(v)' = Announcing(v)
      /\ \A p \in Requests \ {q} : action'[p] = action[p] /\ draft'[p] = draft[p]
  BY <1>1, <1>2, Ending
<1>4. row'[u] = draft[q] /\ \A v \in Users \ {u} : row'[v] = row[v]
  BY <1>2 DEF TypeOK
<1>5. /\ pipe' \in Seq(Event) /\ Len(pipe') = Len(pipe)
      /\ \A v : Pending(v)' = Pending(v) /\ \A i : IsLast(i, v)' <=> IsLast(i, v)
      /\ \A v \in Users \ {u} : \A i \in Pending(v) : pipe'[i] = pipe[i]
      /\ excused \subseteq excused' /\ excused' \subseteq excused \cup StoredOf(u)
      /\ \/ \A i \in Pending(u) : pipe'[i] = pipe[i]
         \/ \A i \in Pending(u) : IsLast(i, u) => pipe'[i].void
      /\ action[q] = "add" /\ draft[q] = "none" =>
           /\ \A i \in Pending(u) : IsLast(i, u) => pipe'[i].void
           /\ Pending(u) = {} => StoredOf(u) \subseteq excused'
  <2>1. CASE action[q] = "add" /\ draft[q] = "none"
    BY <1>1, <2>1, Misleading DEF Commit
  <2>2. CASE ~(action[q] = "add" /\ draft[q] = "none")
    <3>1. UNCHANGED <<pipe, excused>>
      BY <2>2 DEF Commit
    <3> QED BY <2>2, <3>1 DEF TypeOK, Pending, IsLast
  <2> QED BY <2>1, <2>2
<1>6. TypeOK' /\ Locked' /\ Decided' /\ Reading'
  BY <1>1, <1>2, <1>5, EndingKeeps
<1>7. /\ \A v \in Users \ {u} : \A i \in Pending(v)' : IsLast(i, v)' => AnnouncedAt(i, v)'
      /\ \A s \in Sessions \ excused' : UserOf[s] # u => SettledAt(s)'
  <2>1. \A v \in Users \ {u} : \A p \in Announcing(v) : p \in Requests \ {q}
    BY <1>1 DEF Announcing, Writing
  <2> QED BY <1>2, <1>3, <1>4, <1>5, <2>1, OthersAsBefore
<1>8. CASE action[q] = "invite"
  <2>1. draft[q] = "invitee" /\ row[u] = "none" /\ Announcing(u) = {}
    <3>1. Writing(u) \subseteq {q}
      BY <1>1 DEF Writing, Locked
    <3> QED BY <1>1, <1>8, <3>1 DEF Decided, Announcing
  <2>2. ASSUME NEW i \in Pending(u), IsLast(i, u) PROVE AnnouncedAt(i, u)'
    <3>1. CASE pipe'[i].void
      BY <1>3, <3>1 DEF AnnouncedAt
    <3>2. CASE pipe'[i] = pipe[i]
      <4>1. AnnouncedAt(i, u)
        BY <2>2 DEF Announced
      <4> QED BY <1>3, <1>4, <2>1, <3>2, <4>1 DEF AnnouncedAt
    <3> QED BY <1>5, <2>2, <3>1, <3>2
  <2>3. ASSUME NEW s \in Sessions \ excused', UserOf[s] = u PROVE SettledAt(s)'
    BY <1>3, <1>4, <2>1, <2>3 DEF SettledAt
  <2> QED BY <1>5, <1>6, <1>7, <2>2, <2>3 DEF Announced, Settled
<1>9. CASE action[q] # "invite"
  <2>1. /\ q \in Announcing(u)
        /\ \/ action[q] = "delete" /\ draft[q] = "none"
           \/ action[q] = "add" /\ draft[q] \in {"none", "member"}
    BY <1>1, <1>9 DEF Announcing, Writing, Decided, TypeOK
  <2>2. ASSUME NEW i \in Pending(u), IsLast(i, u) PROVE AnnouncedAt(i, u)'
    <3>1. CASE pipe'[i].void
      BY <1>3, <3>1 DEF AnnouncedAt
    <3>2. CASE pipe'[i] = pipe[i] /\ ~(action[q] = "add" /\ draft[q] = "none")
      <4>1. pipe[i].kind = "join" <=> action[q] = "add"
        BY <2>1, <2>2 DEF Announced, AnnouncedAt
      <4>2. pipe'[i].kind = "join" <=> row'[u] = "member"
        BY <1>4, <2>1, <3>2, <4>1
      <4> QED BY <1>3, <4>2 DEF AnnouncedAt
    <3> QED BY <1>5, <2>2, <3>1, <3>2
  <2>3. ASSUME NEW s \in Sessions \ excused', UserOf[s] = u PROVE SettledAt(s)'
    <3> SUFFICES ASSUME Pending(u) = {}, session[s] \in {"named", "read", "live"}
                 PROVE  /\ Follows(s) => row'[u] # "none"
                        /\ row'[u] = "member" /\ session[s] # "named" => Follows(s)
      BY <1>2, <1>3, <1>5, <2>3 DEF SettledAt, Follows, sessionVars
    <3>1. s \in StoredOf(u)
      BY <2>3 DEF StoredOf, Stored
    <3>2. ~(action[q] = "add" /\ draft[q] = "none")
      BY <1>5, <3>1
    <3>3. /\ Follows(s) => action[q] = "add"
          /\ draft[q] = "member" /\ session[s] # "named" => Follows(s)
      BY <1>5, <2>1, <2>3 DEF Settled, SettledAt
    <3> QED BY <1>4, <2>1, <3>2, <3>3
  <2> QED BY <1>5, <1>6, <1>7, <2>2, <2>3 DEF Announced, Settled
<1> QED BY <1>8, <1>9

LEMMA RollbackKeeps ==
  ASSUME IInv, NEW q \in Requests, Rollback(q)
  PROVE  IInv'
<1> USE DEF IInv
<1>1. PICK u \in Users : u = target[q] /\ step[q] # "idle"
  BY DEF Rollback, Decided
<1>2. Ends(q) /\ UNCHANGED <<row, off, feeding, sessionVars>>
  BY DEF Rollback
<1>3. CASE step[q] = "pushed" /\ action[q] # "invite"
  <2>1. /\ pipe' \in Seq(Event) /\ Len(pipe') = Len(pipe)
        /\ \A v : Pending(v)' = Pending(v) /\ \A i : IsLast(i, v)' <=> IsLast(i, v)
        /\ \A v \in Users \ {u} : \A i \in Pending(v) : pipe'[i] = pipe[i]
        /\ \A i \in Pending(u) : IsLast(i, u) => pipe'[i].void
        /\ excused \subseteq excused' /\ excused' \subseteq excused \cup StoredOf(u)
        /\ Pending(u) = {} => StoredOf(u) \subseteq excused'
    BY <1>1, <1>3, Misleading DEF Rollback
  <2>2. TypeOK' /\ Locked' /\ Decided' /\ Reading'
    BY <1>1, <1>2, <2>1, EndingKeeps
  <2>3. /\ Announcing(u)' = {}
        /\ \A v \in Users \ {u} : Announcing(v)' = Announcing(v)
        /\ \A p \in Requests \ {q} : action'[p] = action[p] /\ draft'[p] = draft[p]
    BY <1>1, <1>2, <1>3, Ending
  <2>4. /\ \A v \in Users \ {u} : \A i \in Pending(v)' : IsLast(i, v)' => AnnouncedAt(i, v)'
        /\ \A s \in Sessions \ excused' : UserOf[s] # u => SettledAt(s)'
    <3>1. \A v \in Users \ {u} : \A p \in Announcing(v) : p \in Requests \ {q}
      BY <1>1 DEF Announcing, Writing
    <3> QED BY <1>2, <2>1, <2>3, <3>1, OthersAsBefore
  <2>5. ASSUME NEW i \in Pending(u), IsLast(i, u) PROVE AnnouncedAt(i, u)'
    BY <2>1, <2>3, <2>5 DEF AnnouncedAt
  <2>6. ASSUME NEW s \in Sessions \ excused', UserOf[s] = u PROVE SettledAt(s)'
    BY <1>2, <2>1, <2>6 DEF SettledAt, StoredOf, Stored, sessionVars
  <2> QED BY <2>1, <2>2, <2>4, <2>5, <2>6 DEF Announced, Settled
<1>4. CASE ~(step[q] = "pushed" /\ action[q] # "invite")
  <2>1. UNCHANGED <<pipe, excused>>
    BY <1>4 DEF Rollback
  <2>2. pipe' \in Seq(Event) /\ Len(pipe') = Len(pipe)
        /\ excused' \subseteq excused \cup StoredOf(target[q])
    BY <2>1 DEF TypeOK
  <2>3. TypeOK' /\ Locked' /\ Decided'
    BY <1>1, <1>2, <2>2, EndingKeeps
  <2>4. /\ \A v \in Users \ {u} : Announcing(v)' = Announcing(v)
        /\ \A p \in Requests \ {q} : action'[p] = action[p] /\ draft'[p] = draft[p]
    BY <1>1, <1>2, Ending
  <2>5. \A v : q \notin Announcing(v)
    BY <1>4 DEF Announcing, Writing
  <2>6. Announcing(u)' = Announcing(u)
    <3>1. CASE step[q] = "written"
      <4>1. Writing(u) \subseteq {q}
        BY <1>1, <3>1 DEF Writing, Locked
      <4>2. Announcing(u) = {}
        BY <2>5, <4>1 DEF Announcing
      <4> QED BY <1>1, <1>2, <3>1, <4>2, Ending
    <3>2. CASE step[q] # "written"
      BY <1>1, <1>2, <1>4, <3>2, Ending
    <3> QED BY <3>1, <3>2
  <2>7. \A v \in Users : /\ Announcing(v)' = Announcing(v)
                        /\ \A p \in Announcing(v) : action'[p] = action[p] /\ draft'[p] = draft[p]
    BY <2>4, <2>5, <2>6 DEF Announcing, Writing
  <2>8. Announced' /\ Settled' /\ Reading'
    BY <1>2, <2>1, <2>7, NothingAnnounced, FeedAssumption
  <2> QED BY <2>3, <2>8
<1> QED BY <1>3, <1>4

-----------------------------------------------------------------------------
(* The channel, the feed, the process *)

\* The channel goes and comes back: members, events and sessions stay.
LEMMA ChannelKeeps ==
  ASSUME IInv, Delete \/ Undelete \/ Archive \/ Unarchive
  PROVE  IInv'
<1> USE DEF IInv
<1>1. /\ UNCHANGED <<row, pipe, feeding, requestVars, sessionVars, excused>>
      /\ off' \subseteq {"deleted", "archived"}
  BY DEF Delete, Undelete, Archive, Unarchive, Withdraw, Restore, TypeOK
<1>2. TypeOK'
  BY <1>1 DEF TypeOK, requestVars, sessionVars
<1>3. Locked' /\ Decided' /\ Announced'
  BY <1>1, RequestsAsBefore
<1>4. Reading'
  BY <1>1 DEF Reading, sessionVars
<1>5. ASSUME NEW s \in Sessions \ excused' PROVE SettledAt(s)'
  <2>1. session'[s] = session[s] /\ Follows(s)' = Follows(s) /\ SettledAt(s)
    BY <1>1, <1>5 DEF Settled, Follows, sessionVars
  <2> QED BY <1>1, <2>1, SessionAsBefore
<1> QED BY <1>2, <1>3, <1>4, <1>5 DEF Settled

\* An event is taken from the pipe: rows and requests are as before, and so is
\* the last event of each user, unless it was the one.
LEMMA TakenKeeps ==
  ASSUME TypeOK, Locked, Decided, Announced, pipe # <<>>, pipe' = Tail(pipe),
         UNCHANGED <<row, requestVars>>
  PROVE  /\ Locked' /\ Decided' /\ Announced'
         /\ \A u : Announcing(u)' = Announcing(u)
         /\ pipe' \in Seq(Event) /\ Len(pipe') <= Backlog
<1>1. \A u : Writing(u)' = Writing(u)
  BY DEF Writing, requestVars
<1>2. \A u : Announcing(u)' = Announcing(u)
  BY <1>1 DEF Announcing, requestVars
<1>3. Locked' /\ Decided'
  BY <1>1 DEF Locked, Decided, requestVars
<1>4. ASSUME NEW u \in Users, NEW i \in Pending(u)', IsLast(i, u)' PROVE AnnouncedAt(i, u)'
  <2>1. IsLast(i + 1, u) /\ i + 1 \in Pending(u) /\ pipe'[i] = pipe[i + 1]
    BY <1>4, Taken
  <2>2. AnnouncedAt(i + 1, u)
    BY <2>1 DEF Announced
  <2> QED BY <1>2, <2>1, <2>2 DEF AnnouncedAt, requestVars
<1>5. pipe' \in Seq(Event) /\ Len(pipe') <= Backlog
  <2>1. pipe' \in Seq(Event) /\ Len(pipe') = Len(pipe) - 1 /\ Len(pipe) \in Nat
    BY HeadTailProperties DEF TypeOK
  <2> QED BY <2>1, FeedAssumption DEF TypeOK
<1> QED BY <1>2, <1>3, <1>4, <1>5 DEF Announced

\* The last event of a user sets its sessions right.
LEMMA FeedKeeps ==
  ASSUME IInv, Feed
  PROVE  IInv'
<1> USE DEF IInv
<1> DEFINE e == Head(pipe)
<1>1. /\ pipe # <<>> /\ pipe' = Tail(pipe)
      /\ UNCHANGED <<row, off, feeding, requestVars, session, readable>>
      /\ subs' = IF e.kind = "join" THEN subs \cup StoredOf(e.user) ELSE subs \ StoredOf(e.user)
      /\ excused' = (excused \ StoredOf(e.user)) \cup Misled(e)
      /\ \A s \in Stored : session[s] # "saved"
  BY DEF Feed
<1>2. /\ Locked' /\ Decided' /\ Announced'
      /\ \A u : Announcing(u)' = Announcing(u)
      /\ pipe' \in Seq(Event) /\ Len(pipe') <= Backlog
  BY <1>1, TakenKeeps
<1>3. /\ \A u \in Users : u # e.user /\ Pending(u)' = {} => Pending(u) = {}
      /\ \A u \in Users : u = e.user /\ Pending(u)' = {} => IsLast(1, u)
      /\ e = pipe[1] /\ e \in Event
  BY <1>1, Taken
<1> HIDE DEF e
<1>4. subs' \subseteq Sessions /\ excused' \subseteq Sessions
      /\ \A s \in subs' \cup excused' : session[s] # "closed"
  BY <1>1 DEF TypeOK, StoredOf, Stored, Misled
<1>5. TypeOK'
  BY <1>1, <1>2, <1>4 DEF TypeOK, requestVars
<1>6. Reading'
  <2>1. \A s \in Sessions : s \in Stored => session[s] \in {"named", "read", "live"}
    BY <1>1 DEF TypeOK, Stored
  <2> QED BY <1>1, <1>4, <2>1 DEF Reading, Stored
<1>7. ASSUME NEW s \in Sessions \ excused' PROVE SettledAt(s)'
  <2> DEFINE u == UserOf[s]
  <2>0. u \in Users
    BY <1>7, FeedAssumption
  <2> SUFFICES ASSUME Pending(u)' = {}, session[s] \in {"named", "read", "live"}
               PROVE  /\ Announcing(u) = {} =>
                           /\ Follows(s)' => row[u] # "none"
                           /\ row[u] = "member" /\ session[s] # "named" => Follows(s)'
                      /\ \A q \in Announcing(u) :
                           /\ Follows(s)' => action[q] = "add"
                           /\ draft[q] = "member" /\ session[s] # "named" => Follows(s)'
    BY <1>1, <1>2 DEF SettledAt, requestVars
  <2>1. CASE u = e.user
    <3>1. s \in StoredOf(e.user)
      BY <2>1 DEF StoredOf, Stored
    <3>2. ~e.void /\ ~(e.kind = "part" /\ session[s] = "read" /\ readable[s])
      BY <1>1, <1>7, <3>1 DEF Misled
    <3>3. Follows(s)' <=> e.kind = "join"
      <4>1. s \in subs' <=> e.kind = "join"
        BY <1>1, <3>1
      <4>2. readable'[s] => e.kind = "join"
        BY <1>1, <1>3, <3>2 DEF Reading, Event
      <4> QED BY <4>1, <4>2 DEF Follows
    <3>4. AnnouncedAt(1, u)
      <4>1. IsLast(1, u)
        BY <1>3, <2>0, <2>1
      <4> QED BY <2>0, <4>1 DEF Announced, IsLast
    <3>5. /\ Announcing(u) = {} => (e.kind = "join" <=> row[u] = "member")
          /\ \A q \in Announcing(u) : e.kind = "join" <=> action[q] = "add"
      BY <1>3, <3>2, <3>4 DEF AnnouncedAt
    <3>6. \A q \in Announcing(u) : draft[q] = "member" => action[q] = "add"
      BY DEF Announcing, Writing, Decided, TypeOK
    <3> HIDE DEF u
    <3> QED BY <3>3, <3>5, <3>6
  <2>2. CASE u # e.user
    <3>1. s \notin excused /\ (s \in subs' <=> s \in subs) /\ (Follows(s)' <=> Follows(s))
      BY <1>1, <1>7, <2>2 DEF StoredOf, Follows
    <3>2. Pending(u) = {} /\ SettledAt(s)
      BY <1>3, <2>0, <2>2, <3>1 DEF Settled
    <3> QED BY <3>1, <3>2 DEF SettledAt
  <2> QED BY <2>1, <2>2
<1> QED BY <1>2, <1>5, <1>6, <1>7 DEF Settled

\* The feed dies on an event: the sessions it was for are excused.
LEMMA FeedPanicsKeeps ==
  ASSUME IInv, FeedPanics
  PROVE  IInv'
<1> USE DEF IInv
<1> DEFINE e == Head(pipe)
           ready == {s \in StoredOf(e.user) : session[s] # "saved"}
<1>1. PICK S \in SUBSET ready :
        /\ pipe # <<>> /\ pipe' = Tail(pipe) /\ feeding' = FALSE
        /\ UNCHANGED <<row, off, requestVars, session, readable>>
        /\ subs' = IF e.kind = "join" THEN subs \cup S ELSE subs \ S
        /\ excused' = excused \cup ready
  BY DEF FeedPanics
<1>2. /\ Locked' /\ Decided' /\ Announced'
      /\ \A u : Announcing(u)' = Announcing(u)
      /\ pipe' \in Seq(Event) /\ Len(pipe') <= Backlog
  BY <1>1, TakenKeeps
<1>3. \A u \in Users : u # e.user /\ Pending(u)' = {} => Pending(u) = {}
  BY <1>1, Taken
<1> HIDE DEF e
<1>4. ready \subseteq Sessions /\ \A s \in ready : session[s] \in {"named", "read", "live"}
  BY DEF StoredOf, Stored, TypeOK
<1>5. TypeOK'
  BY <1>1, <1>2, <1>4 DEF TypeOK, requestVars
<1>6. Reading'
  BY <1>1, <1>4 DEF Reading
<1>7. ASSUME NEW s \in Sessions \ excused' PROVE SettledAt(s)'
  <2> SUFFICES ASSUME Pending(UserOf[s])' = {}, session[s] \in {"named", "read", "live"}
               PROVE  SettledAt(s)'
    BY <1>1 DEF SettledAt
  <2>1. s \notin excused /\ s \notin ready
    BY <1>1, <1>7
  <2>2. UserOf[s] \in Users \ {e.user}
    BY <2>1, FeedAssumption DEF StoredOf, Stored
  <2>3. Pending(UserOf[s]) = {} /\ SettledAt(s) /\ (Follows(s)' <=> Follows(s))
    <3>1. s \in subs' <=> s \in subs
      BY <1>1, <2>1
    <3> QED BY <1>1, <1>3, <2>1, <2>2, <3>1 DEF Settled, Follows
  <2> QED BY <1>1, <1>2, <2>3 DEF SettledAt, requestVars
<1> QED BY <1>2, <1>5, <1>6, <1>7 DEF Settled

\* Nothing is under way.
LEMMA AtRest ==
  ASSUME row \in [Users -> Row], off \subseteq {"deleted", "archived"},
         pipe = <<>>, feeding \in BOOLEAN,
         step = [q \in Requests |-> "idle"], target = [q \in Requests |-> Nobody],
         action = [q \in Requests |-> "add"],
         seen = [q \in Requests |-> "none"], draft = [q \in Requests |-> "none"],
         session = [s \in Sessions |-> "closed"],
         readable = [s \in Sessions |-> FALSE],
         subs = {}, excused = {}
  PROVE  IInv
<1>1. pipe \in Seq(Event) /\ Len(pipe) = 0
  OBVIOUS
<1>2. TypeOK
  BY <1>1, FeedAssumption DEF TypeOK, Row
<1>3. \A u : Writing(u) = {} /\ Pending(u) = {}
  BY DEF Writing, Pending
<1>4. Locked /\ Announced
  BY <1>3 DEF Locked, Announced
<1>5. Decided /\ Reading /\ Settled
  BY DEF Decided, Reading, Settled, SettledAt
<1> QED BY <1>2, <1>4, <1>5 DEF IInv

\* The process comes back with nothing but the rows and the channel.
LEMMA CrashKeeps ==
  ASSUME IInv, Crash
  PROVE  IInv'
<1>1. pipe' \in Seq(Event) /\ Len(pipe') = 0
  BY DEF Crash
<1>2. TypeOK'
  BY <1>1, FeedAssumption DEF IInv, TypeOK, Crash, Row
<1>3. \A u : Writing(u)' = {} /\ Pending(u)' = {}
  BY DEF Writing, Pending, Crash
<1>4. Locked' /\ Announced'
  BY <1>3 DEF Locked, Announced
<1>5. Decided' /\ Reading' /\ Settled'
  BY DEF Crash, Decided, Reading, Settled, SettledAt
<1> QED BY <1>2, <1>4, <1>5 DEF IInv

-----------------------------------------------------------------------------
(* Every behaviour *)

\* What a subscription should be is a part of the invariant.
LEMMA SettledIsSubscribed == IInv => SubscribedAsMember
<1> SUFFICES ASSUME IInv, NEW s \in Sessions,
                    session[s] = "live", s \notin excused,
                    Writing(UserOf[s]) = {}, Pending(UserOf[s]) = {}
             PROVE  /\ row[UserOf[s]] = "member" => s \in subs
                    /\ s \in subs => row[UserOf[s]] # "none"
  BY DEF SubscribedAsMember
<1>1. Announcing(UserOf[s]) = {}
  BY DEF Announcing
<1>2. Follows(s) <=> s \in subs
  BY DEF Follows, IInv, Reading
<1> QED BY <1>1, <1>2 DEF IInv, Settled, SettledAt

LEMMA Inductive == Spec => []IInv
<1>1. Init => IInv
  BY AtRest DEF Init
<1>2. IInv /\ [Next]_vars => IInv'
  <2> SUFFICES ASSUME IInv, [Next]_vars PROVE IInv'
    OBVIOUS
  <2>1. CASE UNCHANGED vars
    <3>1. UNCHANGED <<row, off, pipe, feeding, requestVars, sessionVars, excused>>
      BY <2>1 DEF vars
    <3>2. Locked' /\ Decided' /\ Announced'
      BY <3>1, RequestsAsBefore DEF IInv
    <3>3. TypeOK' /\ Reading'
      BY <3>1 DEF IInv, TypeOK, Reading, requestVars, sessionVars
    <3>4. ASSUME NEW s \in Sessions \ excused' PROVE SettledAt(s)'
      <4>1. session'[s] = session[s] /\ Follows(s)' = Follows(s) /\ SettledAt(s)
        BY <3>1, <3>4 DEF IInv, Settled, Follows, sessionVars
      <4> QED BY <3>1, <4>1, SessionAsBefore
    <3> QED BY <3>2, <3>3, <3>4 DEF IInv, Settled
  <2>2. ASSUME NEW q \in Requests, RequestStep(q) PROVE IInv'
    <3>1. ASSUME NEW u \in Users, NEW a \in {"add", "invite", "delete"}, ReadMembers(q, u, a)
          PROVE  IInv'
      BY <3>1, ReadMembersKeeps
    <3>2. CASE WriteMember(q)
      BY <3>2, WriteMemberKeeps
    <3>3. CASE PushEvent(q)
      BY <3>3, PushEventKeeps
    <3>4. CASE Commit(q)
      BY <3>4, CommitKeeps
    <3>5. CASE Rollback(q)
      BY <3>5, RollbackKeeps
    <3> QED BY <2>2, <3>1, <3>2, <3>3, <3>4, <3>5 DEF RequestStep
  <2>3. ASSUME NEW s \in Sessions, SessionStep(s) PROVE IInv'
    BY <2>3, OpenKeeps, SetUserKeeps, ReadChannelsKeeps, ReadChannelsFailsKeeps,
       SubscribeKeeps, ClientKeeps, CloseKeeps DEF SessionStep
  <2>4. CASE Delete \/ Undelete \/ Archive \/ Unarchive
    BY <2>4, ChannelKeeps
  <2>5. CASE Feed
    BY <2>5, FeedKeeps
  <2>6. CASE FeedPanics
    BY <2>6, FeedPanicsKeeps
  <2>7. CASE Crash
    BY <2>7, CrashKeeps
  <2> QED BY <2>1, <2>2, <2>3, <2>4, <2>5, <2>6, <2>7 DEF Next
<1> QED BY <1>1, <1>2, PTL DEF Spec

\* Every variable has its type, and no session is subscribed, or excused, that
\* is not in the store.
THEOREM TypeCorrect == Spec => []TypeOK
BY Inductive, PTL DEF IInv

\* With no request for its user under way and no event of it in the pipe, a live
\* session that nothing has excused is subscribed to the channel if its user is a
\* member, and only if its user is at least invited (feedSessions,
\* Session.connected, the event services of repository/events.go).
THEOREM SubscriptionsFollow == Spec => []SubscribedAsMember
BY Inductive, SettledIsSubscribed, PTL

=============================================================================
