-------------------------- MODULE PermissionsProofs --------------------------
(***************************************************************************)
(* The safety properties of Permissions, for any set of servers and rules; *)
(* and, at the end, those of PermissionCheck, for any roles and ids.       *)
(*                                                                         *)
(* CacheAgrees speaks of servers that are not writing, and is not          *)
(* inductive: a Grant makes memory and table differ for a while.  Vouched  *)
(* says which rules may differ then: those the call names and the          *)
(* transaction will write.  That the transaction finds them is the point   *)
(* of the dirty flag, and of the case Touched in the step of GrantMerge.   *)
(***************************************************************************)
EXTENDS Permissions, PermissionCheck, TLAPS

\* what a server can vouch for, also in the middle of a Grant
Vouched(s, k) ==
  pc[s] # "down" /\ k \notin stale[s] =>
    \/ Effective(cache[s][k]) = table[k]
    \/ /\ pc[s] = "storing"
       /\ request[s][k] # NoRule
       /\ k \in Touched(cache[s])

\* the call under way has been merged
Merged(s, k) ==
  pc[s] \in {"storing", "stored"} /\ request[s][k] # NoRule
    => cache[s][k].access = request[s][k]

\* what the next transaction writes, some call has asked for
Wanted(s, k) == k \in Touched(cache[s]) => k \in granted[s]

Unstarted(s) == pc[s] = "down" => cache[s] = Empty

Sound(s, k) == Vouched(s, k) /\ Merged(s, k) /\ Wanted(s, k)

IInv ==
  /\ TypeOK
  /\ \A s \in Servers : Unstarted(s)
  /\ \A s \in Servers, k \in Rules : Sound(s, k)
  /\ OnlyWhitelisted

-----------------------------------------------------------------------------
\* The slices the code computes are slices of rules again, and the table holds
\* no Inherit.
LEMMA SlicesAreTyped ==
  ASSUME TypeOK, NEW s \in Servers, NEW new \in Requests
  PROVE  /\ Load \in [Rules -> Entry]
         /\ Empty \in [Rules -> Entry]
         /\ Merge(cache[s], new) \in [Rules -> Entry]
         /\ Written(cache[s]) \in [Rules -> Stored]
         /\ Touched(cache[s]) \subseteq Rules
         /\ Named(new) \subseteq Rules
  <1>1. /\ table \in [Rules -> Stored]
        /\ cache[s] \in [Rules -> Entry]
    BY DEF TypeOK
  <1>2. Load \in [Rules -> Entry]
    BY <1>1 DEF Load, Entry, Stored, Access
  <1>3. Empty \in [Rules -> Entry]
    BY DEF Empty, Absent, Entry
  <1>4. Merge(cache[s], new) \in [Rules -> Entry]
    BY <1>1 DEF Merge, Entry, Requests
  <1>5. Written(cache[s]) \in [Rules -> Stored]
    BY <1>1 DEF Written, Updated, Stored
  <1>6. Touched(cache[s]) \subseteq Rules
    BY DEF Touched, Updated, Deleted
  <1>7. Named(new) \subseteq Rules
    BY DEF Named
  <1> QED
    BY <1>2, <1>3, <1>4, <1>5, <1>6, <1>7

LEMMA NothingIsTyped == Nothing \in Requests
  BY DEF Nothing, Requests

\* The rules a transaction leaves out of stale are rules.
LEMMA OutdatedIsTyped ==
  ASSUME TypeOK, NEW s \in Servers
  PROVE  Outdated(s) \in [Servers -> SUBSET Rules]
  <1>1. stale \in [Servers -> SUBSET Rules]
    BY DEF TypeOK
  <1> QED
    BY <1>1 DEF Outdated

\* Type correctness is inductive on its own.
LEMMA TypeStep ==
  ASSUME TypeOK, [Next]_vars
  PROVE  TypeOK'
  <1> USE DEF TypeOK
  <1>1. CASE UNCHANGED vars
    BY <1>1 DEF vars
  <1>2. ASSUME NEW s \in Servers, StartLoads(s)
        PROVE  TypeOK'
    BY <1>2, SlicesAreTyped, NothingIsTyped DEF StartLoads
  <1>3. ASSUME NEW s \in Servers, StartEmpty(s)
        PROVE  TypeOK'
    BY <1>3 DEF StartEmpty
  <1>4. ASSUME NEW s \in Servers, NEW new \in Requests, GrantMerge(s, new)
        PROVE  TypeOK'
    <2>1. /\ Merge(cache[s], new) \in [Rules -> Entry]
          /\ Named(new) \subseteq Rules
      BY SlicesAreTyped
    <2> QED
      BY <1>4, <2>1 DEF GrantMerge
  <1>5. ASSUME NEW s \in Servers, StoreCommits(s)
        PROVE  TypeOK'
    <2>1. /\ Written(cache[s]) \in [Rules -> Stored]
          /\ Outdated(s) \in [Servers -> SUBSET Rules]
      BY SlicesAreTyped, NothingIsTyped, OutdatedIsTyped
    <2> QED
      BY <1>5, <2>1 DEF StoreCommits
  <1>6. ASSUME NEW s \in Servers, StoreFails(s)
        PROVE  TypeOK'
    <2>1. Named(request[s]) \subseteq Rules
      BY DEF Named
    <2> QED
      BY <1>6, <2>1, NothingIsTyped DEF StoreFails
  <1>7. ASSUME NEW s \in Servers, StoreAckLost(s)
        PROVE  TypeOK'
    <2>1. /\ Written(cache[s]) \in [Rules -> Stored]
          /\ Outdated(s) \in [Servers -> SUBSET Rules]
      BY SlicesAreTyped, NothingIsTyped, OutdatedIsTyped
    <2> QED
      BY <1>7, <2>1, NothingIsTyped DEF StoreAckLost
  <1>8. ASSUME NEW s \in Servers, FlushDone(s)
        PROVE  TypeOK'
    BY <1>8, NothingIsTyped DEF FlushDone
  <1>9. ASSUME NEW s \in Servers, Crash(s)
        PROVE  TypeOK'
    <2>1. Empty \in [Rules -> Entry]
      BY SlicesAreTyped, NothingIsTyped
    <2> QED
      BY <1>9, <2>1, NothingIsTyped DEF Crash
  <1> QED
    BY <1>1, <1>2, <1>3, <1>4, <1>5, <1>6, <1>7, <1>8, <1>9 DEF Next, Grants

\* A server that has not started holds no rules.
LEMMA UnstartedStep ==
  ASSUME IInv, [Next]_vars, NEW t \in Servers
  PROVE  Unstarted(t)'
  <1>1. TypeOK /\ Unstarted(t)
    BY DEF IInv
  <1> QED
    BY <1>1 DEF Unstarted, Next, vars, TypeOK, StartLoads, StartEmpty, Grants,
                GrantMerge, StoreCommits, StoreFails, StoreAckLost, FlushDone, Crash

-----------------------------------------------------------------------------
\* A row after the transaction is what the memory says, for every rule the
\* transaction touches, and what it was for every other.
LEMMA WrittenAgrees ==
  ASSUME TypeOK, NEW s \in Servers, NEW k \in Rules
  PROVE  /\ k \in Touched(cache[s]) => Written(cache[s])[k] = Effective(cache[s][k])
         /\ k \notin Touched(cache[s]) => Written(cache[s])[k] = table[k]
  <1>1. cache[s][k] \in Entry
    BY DEF TypeOK
  <1> QED
    BY <1>1, AccessAssumption, NoRuleAssumption
    DEF Written, Touched, Updated, Deleted, Effective, Entry, Access

\* A rule whose new access differs from the old one is among those to write.
LEMMA MergeMarksChanges ==
  ASSUME TypeOK, NEW s \in Servers, NEW new \in Requests, NEW k \in Rules,
         new[k] # NoRule
  PROVE  /\ Merge(cache[s], new)[k].access = new[k]
         /\ \/ k \in Touched(Merge(cache[s], new))
            \/ Effective(Merge(cache[s], new)[k]) = Effective(cache[s][k])
  <1> DEFINE old == cache[s][k]
             e   == Merge(cache[s], new)[k]
             chg == old.access = NoRule \/ old.access # new[k]
  <1>1. e = [access |-> new[k], dirty |-> chg]
    BY DEF Merge
  <1>2. e.access = new[k] /\ e.dirty = chg
    <2> HIDE DEF e, chg
    <2> QED
      BY <1>1
  <1>3. new[k] \in Access
    BY DEF Requests
  <1>4. CASE new[k] = Inherit
    BY <1>2, <1>4 DEF Touched, Deleted
  <1>5. CASE new[k] # Inherit /\ old.access = new[k]
    BY <1>2, <1>5 DEF Effective
  <1>6. CASE new[k] # Inherit /\ old.access # new[k]
    <2>1. e.dirty
      BY <1>2, <1>6
    <2>2. e.access \in {Allow, Deny}
      BY <1>2, <1>3, <1>6 DEF Access
    <2> QED
      BY <1>2, <2>1, <2>2 DEF Touched, Updated
  <1> QED
    BY <1>2, <1>4, <1>5, <1>6

\* A step of another server leaves a server's rules, its call and what it is
\* doing, and a row it changes becomes one the server cannot vouch for.
LEMMA OthersStaySound ==
  ASSUME NEW t \in Servers, NEW k \in Rules, Sound(t, k),
         pc'[t] = pc[t], cache'[t] = cache[t], request'[t] = request[t],
         granted'[t] = granted[t], stale[t] \subseteq stale'[t],
         k \notin stale'[t] => table'[k] = table[k]
  PROVE  Sound(t, k)'
  BY DEF Sound, Vouched, Merged, Wanted, Touched, Updated, Deleted, Effective

\* Sound is preserved by every step of any server.
LEMMA SoundStep ==
  ASSUME IInv, [Next]_vars, NEW t \in Servers, NEW k \in Rules
  PROVE  Sound(t, k)'
  <1>0. /\ TypeOK
        /\ Sound(t, k)
        /\ Unstarted(t)
        /\ cache[t][k] \in Entry
        /\ table[k] \in Stored
    BY DEF IInv, TypeOK
  <1>1. CASE UNCHANGED vars
    BY <1>0, <1>1, OthersStaySound DEF vars
  <1>2. ASSUME NEW s \in Servers, StartLoads(s)
        PROVE  Sound(t, k)'
    <2>1. CASE t # s
      BY <1>0, <1>2, <2>1, OthersStaySound DEF StartLoads, TypeOK
    <2>2. CASE t = s
      <3>1. /\ pc'[t] = "idle" /\ cache'[t] = Load /\ table' = table
        BY <1>0, <1>2, <2>2 DEF StartLoads, TypeOK
      <3>2. cache'[t][k] = [access |-> table'[k], dirty |-> FALSE]
        BY <3>1 DEF Load
      <3>3. Effective(cache'[t][k]) = table'[k] /\ k \notin Touched(cache'[t])
        BY <1>0, <3>1, <3>2, AccessAssumption, NoRuleAssumption
        DEF Access, Effective, Touched, Updated, Deleted, Stored
      <3> QED
        BY <3>1, <3>3 DEF Sound, Vouched, Merged, Wanted, Effective
    <2> QED
      BY <2>1, <2>2
  <1>3. ASSUME NEW s \in Servers, StartEmpty(s)
        PROVE  Sound(t, k)'
    <2>1. CASE t # s
      BY <1>0, <1>3, <2>1, OthersStaySound DEF StartEmpty, TypeOK
    <2>2. CASE t = s
      <3>1. /\ pc'[t] = "idle" /\ cache'[t] = Empty /\ table' = table
            /\ stale'[t] = {r \in Rules : table[r] # NoRule}
        BY <1>0, <1>3, <2>2 DEF StartEmpty, TypeOK, Unstarted
      <3>2. cache'[t][k] = [access |-> NoRule, dirty |-> FALSE]
        BY <3>1 DEF Empty, Absent
      <3>3. Effective(cache'[t][k]) = NoRule /\ k \notin Touched(cache'[t])
        BY <3>2, AccessAssumption, NoRuleAssumption DEF Access, Effective, Touched, Updated, Deleted
      <3> QED
        BY <3>1, <3>3 DEF Sound, Vouched, Merged, Wanted, Effective
    <2> QED
      BY <2>1, <2>2
  <1>4. ASSUME NEW s \in Servers, NEW new \in Requests, GrantMerge(s, new)
        PROVE  Sound(t, k)'
    <2>1. CASE t # s
      BY <1>0, <1>4, <2>1, OthersStaySound DEF GrantMerge, TypeOK
    <2>2. CASE t = s
      <3>1. /\ pc[t] = "idle" /\ pc'[t] = "storing"
            /\ cache'[t] = Merge(cache[t], new)
            /\ request'[t] = new
            /\ granted'[t] = granted[t] \cup Named(new)
            /\ table' = table /\ stale' = stale
        BY <1>0, <1>4, <2>2 DEF GrantMerge, TypeOK
      <3>2. CASE new[k] = NoRule
        <4>1. cache'[t][k] = cache[t][k]
          BY <3>1, <3>2 DEF Merge
        <4>2. k \in Touched(cache'[t]) => k \in Touched(cache[t])
          BY <4>1 DEF Touched, Updated, Deleted
        <4> QED
          BY <1>0, <3>1, <3>2, <4>1, <4>2
          DEF Sound, Vouched, Merged, Wanted, Effective
      <3>3. CASE new[k] # NoRule
        <4>1. /\ cache'[t][k].access = new[k]
              /\ \/ k \in Touched(cache'[t])
                 \/ Effective(cache'[t][k]) = Effective(cache[t][k])
          BY <1>0, <3>1, <3>3, MergeMarksChanges
        <4>2. k \in granted'[t]
          BY <3>1, <3>3 DEF Named
        <4>3. Vouched(t, k)'
          BY <1>0, <3>1, <3>3, <4>1 DEF Sound, Vouched, Effective
        <4> QED
          BY <3>1, <4>1, <4>2, <4>3 DEF Sound, Merged, Wanted
      <3> QED
        BY <3>2, <3>3
    <2> QED
      BY <2>1, <2>2
  <1>5. ASSUME NEW s \in Servers, StoreCommits(s) \/ StoreAckLost(s)
        PROVE  Sound(t, k)'
    <2>1. /\ table'[k] = Written(cache[s])[k]
          /\ cache' = cache /\ granted' = granted
          /\ pc[s] = "storing" /\ pc'[s] \in {"stored", "idle"}
      BY <1>0, <1>5 DEF StoreCommits, StoreAckLost, TypeOK
    <2>2. CASE t # s
      <3>1. /\ pc'[t] = pc[t] /\ request'[t] = request[t]
            /\ stale'[t] = stale[t] \cup {r \in Rules : Written(cache[s])[r] # table[r]}
        BY <1>0, <1>5, <2>2 DEF StoreCommits, StoreAckLost, Outdated, TypeOK
      <3> QED
        BY <1>0, <2>1, <3>1, OthersStaySound
    <2>3. CASE t = s
      <3>1. stale'[t] = stale[t] \ Touched(cache[t])
        BY <1>0, <1>5, <2>3 DEF StoreCommits, StoreAckLost, Outdated, TypeOK
      <3>2. request'[t][k] # NoRule => request'[t][k] = request[t][k]
        BY <1>0, <1>5, <2>3 DEF StoreCommits, StoreAckLost, TypeOK, Nothing
      <3>3. Vouched(t, k)'
        BY <1>0, <2>1, <2>3, <3>1, WrittenAgrees DEF Sound, Vouched, Effective
      <3>4. Merged(t, k)' /\ Wanted(t, k)'
        BY <1>0, <2>1, <2>3, <3>2
        DEF Sound, Merged, Wanted, Touched, Updated, Deleted
      <3> QED
        BY <3>3, <3>4 DEF Sound
    <2> QED
      BY <2>2, <2>3
  <1>6. ASSUME NEW s \in Servers, StoreFails(s)
        PROVE  Sound(t, k)'
    <2>1. CASE t # s
      BY <1>0, <1>6, <2>1, OthersStaySound DEF StoreFails, TypeOK
    <2>2. CASE t = s
      <3>1. /\ pc[t] = "storing" /\ pc'[t] = "idle"
            /\ stale'[t] = stale[t] \cup Named(request[t])
            /\ cache' = cache /\ table' = table /\ granted' = granted
        BY <1>0, <1>6, <2>2 DEF StoreFails, TypeOK
      <3>2. k \notin stale'[t] => k \notin stale[t] /\ request[t][k] = NoRule
        BY <3>1 DEF Named
      <3> QED
        BY <1>0, <3>1, <3>2
        DEF Sound, Vouched, Merged, Wanted, Touched, Updated, Deleted, Effective
    <2> QED
      BY <2>1, <2>2
  <1>7. ASSUME NEW s \in Servers, FlushDone(s)
        PROVE  Sound(t, k)'
    <2>1. CASE t # s
      BY <1>0, <1>7, <2>1, OthersStaySound DEF FlushDone, TypeOK
    <2>2. CASE t = s
      <3>1. /\ pc[t] = "stored" /\ pc'[t] = "idle" /\ cache' = cache
            /\ table' = table /\ granted' = granted /\ stale' = stale
        BY <1>0, <1>7, <2>2 DEF FlushDone, TypeOK
      <3> QED
        BY <1>0, <3>1
        DEF Sound, Vouched, Merged, Wanted, Touched, Updated, Deleted, Effective
    <2> QED
      BY <2>1, <2>2
  <1>8. ASSUME NEW s \in Servers, Crash(s)
        PROVE  Sound(t, k)'
    <2>1. CASE t # s
      BY <1>0, <1>8, <2>1, OthersStaySound DEF Crash, TypeOK
    <2>2. CASE t = s
      <3>1. pc'[t] = "down" /\ cache'[t] = Empty
        BY <1>0, <1>8, <2>2 DEF Crash, TypeOK
      <3>2. k \notin Touched(cache'[t])
        BY <3>1, AccessAssumption, NoRuleAssumption DEF Access, Empty, Absent, Touched, Updated, Deleted
      <3> QED
        BY <3>1, <3>2 DEF Sound, Vouched, Merged, Wanted
    <2> QED
      BY <2>1, <2>2
  <1> QED
    BY <1>1, <1>2, <1>3, <1>4, <1>5, <1>6, <1>7, <1>8 DEF Next, Grants

\* Nothing a Grant may not name ever reaches the memory or the table.
LEMMA WhitelistStep ==
  ASSUME IInv, [Next]_vars
  PROVE  OnlyWhitelisted'
  <1> SUFFICES ASSUME NEW k \in Rules \ Whitelist
               PROVE  /\ table'[k] = NoRule
                      /\ \A t \in Servers : cache'[t][k].access = NoRule
    BY DEF OnlyWhitelisted
  <1>0. /\ TypeOK
        /\ table[k] = NoRule
        /\ \A s \in Servers : cache[s][k].access = NoRule
    BY DEF IInv, OnlyWhitelisted
  <1>1. CASE UNCHANGED vars
    BY <1>0, <1>1 DEF vars
  <1>2. ASSUME NEW s \in Servers, StartLoads(s) \/ StartEmpty(s)
        PROVE  table'[k] = NoRule /\ \A t \in Servers : cache'[t][k].access = NoRule
    <2>1. Load[k].access = NoRule
      BY <1>0 DEF Load
    <2>2. table' = table /\ \A t \in Servers : cache'[t] \in {cache[t], Load}
      BY <1>0, <1>2 DEF StartLoads, StartEmpty, TypeOK
    <2> QED
      BY <1>0, <2>1, <2>2
  <1>3. ASSUME NEW s \in Servers, NEW new \in Requests, GrantMerge(s, new)
        PROVE  table'[k] = NoRule /\ \A t \in Servers : cache'[t][k].access = NoRule
    <2>1. new[k] = NoRule
      BY <1>3 DEF GrantMerge, Named
    <2>2. Merge(cache[s], new)[k] = cache[s][k]
      BY <2>1 DEF Merge
    <2>3. /\ table' = table
          /\ \A t \in Servers : cache'[t] \in {cache[t], Merge(cache[s], new)}
      BY <1>0, <1>3 DEF GrantMerge, TypeOK
    <2> QED
      BY <1>0, <2>2, <2>3
  <1>4. ASSUME NEW s \in Servers, StoreCommits(s) \/ StoreAckLost(s)
        PROVE  table'[k] = NoRule /\ \A t \in Servers : cache'[t][k].access = NoRule
    <2>1. Written(cache[s])[k] = NoRule
      BY <1>0, AccessAssumption, NoRuleAssumption DEF Written, Updated
    <2> QED
      BY <1>0, <1>4, <2>1 DEF StoreCommits, StoreAckLost
  <1>5. ASSUME NEW s \in Servers, StoreFails(s) \/ FlushDone(s)
        PROVE  table'[k] = NoRule /\ \A t \in Servers : cache'[t][k].access = NoRule
    BY <1>0, <1>5 DEF StoreFails, FlushDone
  <1>6. ASSUME NEW s \in Servers, Crash(s)
        PROVE  table'[k] = NoRule /\ \A t \in Servers : cache'[t][k].access = NoRule
    <2>1. Empty[k].access = NoRule
      BY DEF Empty, Absent
    <2>2. table' = table /\ \A t \in Servers : cache'[t] \in {cache[t], Empty}
      BY <1>0, <1>6 DEF Crash, TypeOK
    <2> QED
      BY <1>0, <2>1, <2>2
  <1> QED
    BY <1>1, <1>2, <1>3, <1>4, <1>5, <1>6 DEF Next, Grants

LEMMA InitIInv == Init => IInv
  <1> SUFFICES ASSUME Init
               PROVE  IInv
    OBVIOUS
  <1>1. TypeOK
    <2>1. Empty \in [Rules -> Entry]
      BY DEF Empty, Absent, Entry
    <2> QED
      BY <2>1, NothingIsTyped DEF Init, TypeOK
  <1>2. \A s \in Servers : Unstarted(s)
    BY DEF Init, Unstarted
  <1>3. ASSUME NEW s \in Servers, NEW k \in Rules
        PROVE  Sound(s, k)
    <2>1. pc[s] = "down" /\ cache[s][k] = [access |-> NoRule, dirty |-> FALSE]
      BY DEF Init, Empty, Absent
    <2> QED
      BY <2>1, AccessAssumption, NoRuleAssumption
      DEF Access, Sound, Vouched, Merged, Wanted, Touched, Updated, Deleted
  <1>4. OnlyWhitelisted
    BY DEF Init, OnlyWhitelisted, Empty, Absent
  <1> QED
    BY <1>1, <1>2, <1>3, <1>4 DEF IInv

-----------------------------------------------------------------------------
\* The inductive invariant holds in every reachable state.
THEOREM Inductive == Spec => []IInv
  <1>1. Init => IInv
    BY InitIInv
  <1>2. IInv /\ [Next]_vars => IInv'
    <2> SUFFICES ASSUME IInv, [Next]_vars
                 PROVE  IInv'
      OBVIOUS
    <2>1. TypeOK'
      BY TypeStep DEF IInv
    <2>2. \A s \in Servers : Unstarted(s)'
      BY UnstartedStep
    <2>3. \A s \in Servers, k \in Rules : Sound(s, k)'
      BY SoundStep
    <2>4. OnlyWhitelisted'
      BY WhitelistStep
    <2> QED
      BY <2>1, <2>2, <2>3, <2>4 DEF IInv
  <1> QED
    BY <1>1, <1>2, PTL DEF Spec

\* The variables of the service keep their types.
THEOREM TypeCorrect == Spec => []TypeOK
  <1>1. IInv => TypeOK
    BY DEF IInv
  <1> QED
    BY <1>1, Inductive, PTL

\* Between two Grants a rule that no failed call and no other server has touched
\* decides in memory as its row says.
THEOREM MemoryAgrees == Spec => []CacheAgrees
  <1>1. IInv => CacheAgrees
    BY DEF IInv, Sound, Vouched, CacheAgrees
  <1> QED
    BY <1>1, Inductive, PTL

\* A Grant about to return nil has put every rule of the call in the table.
THEOREM GrantDurable == Spec => []GrantIsDurable
  <1>1. IInv => GrantIsDurable
    <2> SUFFICES ASSUME IInv, NEW s \in Servers, NEW k \in Rules,
                        pc[s] = "stored", request[s][k] # NoRule,
                        k \notin stale[s]
                 PROVE  table[k] = IF request[s][k] = Inherit THEN NoRule
                                   ELSE request[s][k]
      BY DEF GrantIsDurable
    <2>1. Vouched(s, k) /\ Merged(s, k)
      BY DEF IInv, Sound
    <2> QED
      BY <2>1 DEF Vouched, Merged, Effective
  <1> QED
    BY <1>1, Inductive, PTL

\* No rule outside the whitelist is ever stored or effective.
THEOREM WhitelistHolds == Spec => []OnlyWhitelisted
  <1>1. IInv => OnlyWhitelisted
    BY DEF IInv
  <1> QED
    BY <1>1, Inductive, PTL

\* A row changes only by a transaction of a server that was asked to grant its
\* rule: what a server has merely loaded it never writes back.
THEOREM OnlyGrantedIsWritten == Spec => WritesOnlyGranted
  <1>1. IInv /\ [Next]_vars => [Writes]_vars
    <2> SUFFICES ASSUME IInv, Next, NEW k \in Rules, table'[k] # table[k]
                 PROVE  \E s \in Servers :
                          pc[s] = "storing" /\ pc'[s] # pc[s] /\ k \in granted[s]
      BY DEF Writes
    <2>1. PICK s \in Servers : StoreCommits(s) \/ StoreAckLost(s)
      BY DEF Next, StartLoads, StartEmpty, Grants, GrantMerge, StoreFails,
             FlushDone, Crash
    <2>2. pc[s] = "storing" /\ pc'[s] # pc[s]
      BY <2>1 DEF IInv, TypeOK, StoreCommits, StoreAckLost
    <2>3. k \in Touched(cache[s])
      BY <2>1, WrittenAgrees DEF IInv, StoreCommits, StoreAckLost
    <2>4. k \in granted[s]
      BY <2>3 DEF IInv, Sound, Wanted
    <2> QED
      BY <2>2, <2>4
  <1> QED
    BY <1>1, Inductive, PTL DEF Spec, WritesOnlyGranted

-----------------------------------------------------------------------------
(* How the rules decide, for any number of roles and ids.  The type of the   *)
(* rules is the only thing the proofs need of the steps: a decision is a     *)
(* function of the rules, whichever they are.                                *)

\* The rules of some subjects on one resource, and what they say together
At(subjects, x) == {rules[r][x] : r \in subjects} \ {Inherit}

Verdict(found) == IF found = {} THEN Inherit
                  ELSE IF Deny \in found THEN Deny ELSE Allow

\* check returns the verdict of the rules on the resource.
LEMMA CheckIsVerdict ==
  ASSUME CheckTypeOK, NEW x \in Resources, NEW subjects \in SUBSET Subjects
  PROVE  check(x, subjects) = Verdict(At(subjects, x))
<1>1. \A r \in subjects : rules[r][x] \in {Allow, Deny, Inherit}
  BY DEF CheckTypeOK, RuleSets, Access
<1>2. Deny \in At(subjects, x) <=> \E r \in subjects : rules[r][x] = Deny
  BY AccessAssumption DEF At
<1>3. Allow \in At(subjects, x) <=> \E r \in subjects : rules[r][x] = Allow
  BY AccessAssumption DEF At
<1>4. At(subjects, x) \subseteq {Allow, Deny}
  BY <1>1 DEF At
<1> QED
  BY <1>2, <1>3, <1>4 DEF check, Verdict

\* A verdict is Inherit exactly when there is no rule.
LEMMA VerdictOfSome ==
  ASSUME NEW found
  PROVE  /\ Verdict(found) = Inherit <=> found = {}
         /\ Verdict(found) \in {Allow, Deny, Inherit}
  BY AccessAssumption DEF Verdict

\* The rules on the wildcard, where it is asked for
Wild(subjects, x) == IF IsAppendable(x) THEN At(subjects, Wildcard) ELSE {}

\* checkResource returns the verdict on the resource, without one that on the
\* wildcard.
LEMMA CheckResourceIsVerdict ==
  ASSUME CheckTypeOK, NEW x \in Resources, NEW subjects \in SUBSET Subjects
  PROVE  checkResource(x, subjects) = IF At(subjects, x) # {} THEN Verdict(At(subjects, x))
                                      ELSE Verdict(Wild(subjects, x))
<1>1. check(x, subjects) = Verdict(At(subjects, x))
  BY CheckIsVerdict
<1>2. check(Wildcard, subjects) = Verdict(At(subjects, Wildcard))
  BY CheckIsVerdict DEF Resources
<1>3. Verdict(At(subjects, x)) = Inherit <=> At(subjects, x) = {}
  BY VerdictOfSome
<1>4. CASE At(subjects, x) # {}
  BY <1>1, <1>3, <1>4 DEF checkResource
<1>5. CASE At(subjects, x) = {} /\ IsAppendable(x)
  BY <1>1, <1>2, <1>3, <1>5 DEF checkResource, AppendWildcard, Wild
<1>6. CASE At(subjects, x) = {} /\ ~ IsAppendable(x)
  BY <1>1, <1>6 DEF checkResource, Wild
<1> QED
  BY <1>4, <1>5, <1>6

\* No rule of no subject says anything.
LEMMA NobodyHasRules ==
  ASSUME NEW x
  PROVE  At({}, x) = {} /\ Wild({}, x) = {}
  BY DEF At, Wild

\* The four levels, one by one
LEMMA Levels ==
  ASSUME NEW x, NEW roles
  PROVE  /\ LevelRules(1, x, roles) = At(roles, x)
         /\ LevelRules(2, x, roles) = Wild(roles, x)
         /\ LevelRules(3, x, roles) = At({Everyone}, x)
         /\ LevelRules(4, x, roles) = Wild({Everyone}, x)
  BY DEF LevelRules, At, Wild

\* Check goes through the four levels: the first with a rule decides.
LEMMA FirstLevel ==
  ASSUME CheckTypeOK, NEW x \in Resources, NEW roles \in SUBSET Roles
  PROVE  Check(x, roles) =
           IF At(roles, x) # {} THEN Verdict(At(roles, x))
           ELSE IF Wild(roles, x) # {} THEN Verdict(Wild(roles, x))
           ELSE IF At({Everyone}, x) # {} THEN Verdict(At({Everyone}, x))
           ELSE Verdict(Wild({Everyone}, x))
<1>1. roles \in SUBSET Subjects /\ {Everyone} \in SUBSET Subjects
  BY DEF Subjects
<1>2. IsValid(x)
  BY ResourcesAssumption DEF Resources, IsValid
<1>3. checkResource(x, roles) = IF At(roles, x) # {} THEN Verdict(At(roles, x))
                                ELSE Verdict(Wild(roles, x))
  BY <1>1, CheckResourceIsVerdict
<1>4. checkResource(x, {Everyone}) =
        IF At({Everyone}, x) # {} THEN Verdict(At({Everyone}, x))
        ELSE Verdict(Wild({Everyone}, x))
  BY <1>1, CheckResourceIsVerdict
<1>5. checkResource(x, roles) = Inherit <=> At(roles, x) = {} /\ Wild(roles, x) = {}
  BY <1>3, VerdictOfSome
<1>6. CASE roles = {}
  BY <1>2, <1>4, <1>6, NobodyHasRules DEF Check
<1>7. CASE roles # {}
  BY <1>2, <1>3, <1>4, <1>5, <1>7 DEF Check
<1> QED
  BY <1>6, <1>7

\* Rules keep their type, whatever is granted.
THEOREM RulesKeepTheirType == CheckSpec => []CheckTypeOK
<1>1. CheckInit => CheckTypeOK
  BY DEF CheckInit, NoRules, CheckTypeOK, RuleSets, Access
<1>2. ASSUME CheckTypeOK, [CheckNext]_<<rules, stored>>
      PROVE  CheckTypeOK'
  <2>1. ASSUME NEW rs \in RuleSets, NEW r, NEW x, NEW a \in Access
        PROVE  [rs EXCEPT ![r][x] = a] \in RuleSets
    BY <2>1 DEF RuleSets
  <2>2. ASSUME NEW r \in Subjects, NEW res \in Resources, NEW a \in Access,
               Grant(r, res, a)
        PROVE  CheckTypeOK'
    BY <1>2, <2>1, <2>2 DEF CheckTypeOK, Grant, RuleSets
  <2>3. ASSUME NEW r \in Subjects, NEW res \in Resources, NEW a \in Access,
               GrantFails(r, res, a)
        PROVE  CheckTypeOK'
    BY <1>2, <2>1, <2>3 DEF CheckTypeOK, GrantFails, RuleSets
  <2>4. ASSUME NEW r \in Subjects, NEW res \in Resources, NEW a \in Access,
               GrantElsewhere(r, res, a)
        PROVE  CheckTypeOK'
    BY <1>2, <2>1, <2>4 DEF CheckTypeOK, GrantElsewhere, RuleSets
  <2>5. CASE Reload
    BY <1>2, <2>5 DEF CheckTypeOK, Reload, RuleSets
  <2>6. CASE UNCHANGED <<rules, stored>>
    BY <1>2, <2>6 DEF CheckTypeOK, RuleSets
  <2> QED
    BY <1>2, <2>2, <2>3, <2>4, <2>5, <2>6 DEF CheckNext
<1> QED
  BY <1>1, <1>2, PTL DEF CheckSpec

\* Whatever the rules: the first level that has any decides.
LEMMA DecidesByLevel == CheckTypeOK => FirstLevelDecides
<1> SUFFICES ASSUME CheckTypeOK, NEW roles \in RoleSets
             PROVE  /\ Check(NoID, roles) = Deny
                    /\ \A res \in Resources :
                         \/ /\ \A l \in 1..4 : LevelRules(l, res, roles) = {}
                            /\ Check(res, roles) = Inherit
                         \/ \E l \in 1..4 :
                              /\ LevelRules(l, res, roles) # {}
                              /\ \A m \in 1..(l - 1) : LevelRules(m, res, roles) = {}
                              /\ Check(res, roles) =
                                   IF Deny \in LevelRules(l, res, roles) THEN Deny
                                   ELSE Allow
  BY DEF FirstLevelDecides
<1>1. Check(NoID, roles) = Deny
  BY DEF Check, IsValid
<1>2. ASSUME NEW res \in Resources
      PROVE  \/ /\ \A l \in 1..4 : LevelRules(l, res, roles) = {}
                /\ Check(res, roles) = Inherit
             \/ \E l \in 1..4 :
                  /\ LevelRules(l, res, roles) # {}
                  /\ \A m \in 1..(l - 1) : LevelRules(m, res, roles) = {}
                  /\ Check(res, roles) = IF Deny \in LevelRules(l, res, roles) THEN Deny
                                         ELSE Allow
  <2> DEFINE L(l) == LevelRules(l, res, roles)
  <2>1. Check(res, roles) = IF L(1) # {} THEN Verdict(L(1))
                            ELSE IF L(2) # {} THEN Verdict(L(2))
                            ELSE IF L(3) # {} THEN Verdict(L(3))
                            ELSE Verdict(L(4))
    BY FirstLevel, Levels DEF RoleSets
  <2>2. \A l : L(l) # {} => Verdict(L(l)) = IF Deny \in L(l) THEN Deny ELSE Allow
    BY DEF Verdict
  <2>3. L(4) = {} => Verdict(L(4)) = Inherit
    BY DEF Verdict
  <2>4. /\ \A l \in 1..4 : l = 1 \/ l = 2 \/ l = 3 \/ l = 4
        /\ \A m : ~ m \in 1..(1 - 1)
        /\ \A m \in 1..(2 - 1) : m = 1
        /\ \A m \in 1..(3 - 1) : m = 1 \/ m = 2
        /\ \A m \in 1..(4 - 1) : m = 1 \/ m = 2 \/ m = 3
        /\ 1 \in 1..4 /\ 2 \in 1..4 /\ 3 \in 1..4 /\ 4 \in 1..4
    OBVIOUS
  <2> HIDE DEF L
  <2>5. \/ /\ \A l \in 1..4 : L(l) = {}
           /\ Check(res, roles) = Inherit
        \/ \E l \in 1..4 :
             /\ L(l) # {}
             /\ \A m \in 1..(l - 1) : L(m) = {}
             /\ Check(res, roles) = IF Deny \in L(l) THEN Deny ELSE Allow
    <3>1. CASE L(1) # {}
      BY <2>1, <2>2, <2>4, <3>1
    <3>2. CASE L(1) = {} /\ L(2) # {}
      BY <2>1, <2>2, <2>4, <3>2
    <3>3. CASE L(1) = {} /\ L(2) = {} /\ L(3) # {}
      BY <2>1, <2>2, <2>4, <3>3
    <3>4. CASE L(1) = {} /\ L(2) = {} /\ L(3) = {} /\ L(4) # {}
      BY <2>1, <2>2, <2>4, <3>4
    <3>5. CASE L(1) = {} /\ L(2) = {} /\ L(3) = {} /\ L(4) = {}
      BY <2>1, <2>3, <2>4, <3>5
    <3> QED
      BY <3>1, <3>2, <3>3, <3>4, <3>5
  <2> QED
    BY <2>5 DEF L
<1> QED
  BY <1>1, <1>2

\* Check decides as its overall flow says, for any roles and rules.
THEOREM LevelsDecide == CheckSpec => []FirstLevelDecides
  BY RulesKeepTheirType, DecidesByLevel, PTL

\* The subquery of the list condition picks the row that decides in check, if the
\* memory has the rules of the table.
LEMMA SelectIsCheck ==
  ASSUME NEW id, NEW subjects, RowIsFresh(id, subjects)
  PROVE  Select(id, subjects) = check(id, subjects)
  BY DEF Select, check, RowIsFresh

\* check of Everyone alone is Everyone's rule.
LEMMA EveryonesRule ==
  ASSUME CheckTypeOK, NEW x \in Resources
  PROVE  check(x, {Everyone}) = rules[Everyone][x]
<1>1. rules[Everyone][x] \in {Allow, Deny, Inherit}
  BY DEF CheckTypeOK, RuleSets, Access, Subjects
<1> QED
  BY <1>1, AccessAssumption DEF check

\* Whatever the rules: list and single check differ in one situation only.
LEMMA DiffersOnlyOnEveryone == CheckTypeOK => FilterDiffersOnlyOnEveryone
<1> SUFFICES ASSUME CheckTypeOK, NEW id \in IDs, NEW roles \in RoleSets,
                    NEW fallback \in Fallbacks, RowIsFresh(id, roles \cup {Everyone})
             PROVE  (Filter(id, roles, fallback) # Can(id, roles, fallback))
                      <=> /\ roles # {}
                          /\ checkResource(id, roles) = Inherit
                          /\ {rules[Everyone][id], rules[Everyone][Wildcard]} = {Allow, Deny}
  BY DEF FilterDiffersOnlyOnEveryone
<1> DEFINE row   == check(id, roles)
           wild  == check(Wildcard, roles)
           erow  == rules[Everyone][id]
           ewild == rules[Everyone][Wildcard]
<1>1. id \in Resources /\ Wildcard \in Resources
  BY DEF Resources
<1>2. IsAppendable(id) /\ IsAppendable(Wildcard) /\ IsValid(id) /\ IsValid(Wildcard)
  BY ResourcesAssumption DEF IsAppendable, IsValid
<1>3. row \in {Allow, Deny, Inherit} /\ wild \in {Allow, Deny, Inherit}
  BY DEF check
<1>4. erow \in {Allow, Deny, Inherit} /\ ewild \in {Allow, Deny, Inherit}
  BY <1>1 DEF CheckTypeOK, RuleSets, Access, Subjects
<1>5. checkResource(id, roles) = IF row # Inherit THEN row ELSE wild
  BY <1>2 DEF checkResource, AppendWildcard
<1>6. checkResource(id, {Everyone}) = IF erow # Inherit THEN erow ELSE ewild
  BY <1>1, <1>2, EveryonesRule DEF checkResource, AppendWildcard
<1>7. Check(Wildcard, roles) = IF roles # {} /\ wild # Inherit THEN wild ELSE ewild
  <2>1. checkResource(Wildcard, roles) = wild
    BY DEF checkResource, AppendWildcard
  <2>2. checkResource(Wildcard, {Everyone}) = ewild
    BY <1>1, EveryonesRule DEF checkResource, AppendWildcard
  <2> QED
    BY <1>2, <2>1, <2>2 DEF Check
<1>8. Check(id, roles) = IF roles # {} /\ checkResource(id, roles) # Inherit
                         THEN checkResource(id, roles)
                         ELSE checkResource(id, {Everyone})
  BY <1>2 DEF Check
<1>9. Select(id, roles) = row /\ Select(id, {Everyone}) = erow
  <2>1. RowIsFresh(id, roles) /\ RowIsFresh(id, {Everyone})
    BY DEF RowIsFresh
  <2> QED
    BY <1>1, <2>1, SelectIsCheck, EveryonesRule
<1>10. fallback \in {Allow, Deny}
  BY DEF Fallbacks
<1>11. Can(id, roles, fallback) =
         IF Check(id, roles) # Inherit THEN Check(id, roles) = Allow ELSE fallback = Allow
  BY DEF Can
<1>12. ({erow, ewild} = {Allow, Deny})
         <=> (erow = Allow /\ ewild = Deny) \/ (erow = Deny /\ ewild = Allow)
  BY AccessAssumption
<1> DEFINE last     == IF ewild # Inherit THEN ewild ELSE IF fallback = Deny THEN Deny ELSE Allow
           everyone == IF erow # Inherit THEN erow ELSE last
<1>13. roles = {} => (Filter(id, roles, fallback) <=> everyone = Allow)
  BY <1>7, <1>9 DEF Filter, AppendWildcard, Coalesce
<1>14. roles # {} /\ wild # Inherit
       => (Filter(id, roles, fallback) <=> (IF row # Inherit THEN row ELSE wild) = Allow)
  BY <1>7, <1>9 DEF Filter, AppendWildcard, Coalesce
<1>15. roles # {} /\ wild = Inherit /\ ewild # Inherit
       => (Filter(id, roles, fallback) <=> (IF row # Inherit THEN row ELSE ewild) = Allow)
  BY <1>7, <1>9 DEF Filter, AppendWildcard, Coalesce
<1>16. roles # {} /\ wild = Inherit /\ ewild = Inherit
       => (Filter(id, roles, fallback) <=> (IF row # Inherit THEN row ELSE everyone) = Allow)
  BY <1>7, <1>9 DEF Filter, AppendWildcard, Coalesce
<1>17. Filter(id, roles, fallback) \in BOOLEAN /\ Can(id, roles, fallback) \in BOOLEAN
  BY DEF Filter, Can
<1> HIDE DEF row, wild, erow, ewild
<1>18. ((Filter(id, roles, fallback) <=> ~ Can(id, roles, fallback)))
         <=> /\ roles # {}
             /\ checkResource(id, roles) = Inherit
             /\ (erow = Allow /\ ewild = Deny) \/ (erow = Deny /\ ewild = Allow)
  <2>1. CASE roles = {}
    BY <1>4, <1>6, <1>8, <1>10, <1>11, <1>13, <2>1, AccessAssumption
  <2>2. CASE roles # {} /\ wild # Inherit
    BY <1>3, <1>5, <1>8, <1>11, <1>14, <2>2, AccessAssumption
  <2>3. CASE roles # {} /\ wild = Inherit /\ ewild # Inherit
    BY <1>3, <1>4, <1>5, <1>6, <1>8, <1>11, <1>15, <2>3, AccessAssumption
  <2>4. CASE roles # {} /\ wild = Inherit /\ ewild = Inherit
    BY <1>3, <1>4, <1>5, <1>6, <1>8, <1>10, <1>11, <1>16, <2>4, AccessAssumption
  <2> QED
    BY <2>1, <2>2, <2>3, <2>4
<1> QED
  BY <1>12, <1>17, <1>18 DEF erow, ewild

\* For any roles, ids and rules: a list shows what the check of the row allows,
\* but for rows and wildcards on which Everyone's rules contradict each other,
\* whichever rules on the wildcard the memory has.
THEOREM FilterAgrees == CheckSpec => []FilterDiffersOnlyOnEveryone
  BY RulesKeepTheirType, DiffersOnlyOnEveryone, PTL

=============================================================================
