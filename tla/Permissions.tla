----------------------------- MODULE Permissions -----------------------------
(***************************************************************************)
(* The permission service (pkg/permissions): every server process keeps    *)
(* the rules in memory, Check reads only that memory, and Grant merges new *)
(* rules into it and writes the changed ones through to the table, which   *)
(* every server shares.                                                    *)
(*                                                                         *)
(* The service's mutex is held for the whole of Grant, the database        *)
(* transaction included.  What can happen in between is therefore the work *)
(* of the OTHER servers, a crash, and a failing transaction: a Grant is    *)
(* three steps, GrantMerge, the transaction, and FlushDone.                *)
(*                                                                         *)
(* flush has a VALUE receiver: the rules it cleans and leaves behind are   *)
(* those of a copy.  The rules of the service stay as merge made them,     *)
(* dirty flags, Inherit and all, and the next Grant writes them again.     *)
(* Watch has a value receiver too: what it reloads every hour is a copy    *)
(* nobody reads, and there is no action for it.                            *)
(*                                                                         *)
(* A rule is identified by its role, resource and operation (Rule.Equals); *)
(* the members of Rules are such triples, and a slice of rules is the      *)
(* function from them to its entries.  A call of Grant names a rule at     *)
(* most once, as every caller in the repository does.                      *)
(***************************************************************************)
EXTENDS AccessValues

CONSTANTS
  Servers,     \* processes that serve permission checks over one table
  Rules,       \* (role, resource, operation) triples
  Whitelist,   \* the triples the Whitelist of Grant's caller accepts
  NoRule       \* no such rule: in a slice, in the table or in a request

ASSUME WhitelistAssumption == Whitelist \subseteq Rules

ASSUME NoRuleAssumption == NoRule \notin Access

VARIABLES
  table,    \* the access column of the permission table, NoRule: no row
  pc,       \* what each server is doing
  cache,    \* service.rules of each server
  request,  \* the rules of the Grant a server is executing
  granted,  \* history: the rules a server was asked to grant since its start
  stale     \* history: the rules a server cannot vouch for, see below

vars == <<table, pc, cache, request, granted, stale>>

Stored  == {Allow, Deny, NoRule}

\* A cached rule: its access and its dirty flag, "do we need to flush it".
Entry   == [access : Access \cup {NoRule}, dirty : BOOLEAN]
Absent  == [access |-> NoRule, dirty |-> FALSE]
Empty   == [k \in Rules |-> Absent]

\* The argument of a Grant: the access asked for, NoRule where none is.
Requests == [Rules -> Access \cup {NoRule}]
Nothing  == [k \in Rules |-> NoRule]

\* The value a rule has for Check, and should have in the table
Effective(e) == IF e.access = Inherit THEN NoRule ELSE e.access

-----------------------------------------------------------------------------
(* Faults: forms of the definitions below that a slip in the code would give *)

\* rules come from the table as if they had to be written
LoadDirty == [k \in Rules |-> [access |-> table[k], dirty |-> table[k] # NoRule]]

\* merge marks appended rules only
MergeMarksNew(old, new) ==
  [k \in Rules |->
     IF new[k] = NoRule THEN old[k]
     ELSE [access |-> new[k], dirty |-> old[k].access = NoRule]]

\* Store leaves the delete set alone
WrittenNotDeleted(rr) ==
  [k \in Rules |-> IF rr[k].dirty /\ rr[k].access \in {Allow, Deny}
                   THEN rr[k].access ELSE table[k]]

-----------------------------------------------------------------------------
\* Repository.Load, and the clean slice it becomes
Load == [k \in Rules |-> [access |-> table[k], dirty |-> FALSE]]

(* RuleSet.merge, RuleSet.dirty and RuleSet.clear *)

Merge(old, new) ==
  [k \in Rules |->
     IF new[k] = NoRule THEN old[k]
     ELSE [access |-> new[k],
           dirty  |-> old[k].access = NoRule \/ old[k].access # new[k]]]

\* what dirty() returns: the rules to delete and the rules to write
Deleted(rr) == {k \in Rules : rr[k].access = Inherit}
Updated(rr) == {k \in Rules : rr[k].dirty /\ rr[k].access \in {Allow, Deny}}

\* the table after the transaction of Store(deleted, updated)
Written(rr) ==
  [k \in Rules |-> IF k \in Updated(rr) THEN rr[k].access
                   ELSE IF k \in Deleted(rr) THEN NoRule
                   ELSE table[k]]

Touched(rr) == Updated(rr) \cup Deleted(rr)

\* the rules a request names
Named(new) == {k \in Rules : new[k] # NoRule}

-----------------------------------------------------------------------------
TypeOK ==
  /\ table \in [Rules -> Stored]
  /\ pc \in [Servers -> {"down", "idle", "storing", "stored"}]
  /\ cache \in [Servers -> [Rules -> Entry]]
  /\ request \in [Servers -> Requests]
  /\ granted \in [Servers -> SUBSET Rules]
  /\ stale \in [Servers -> SUBSET Rules]

Init ==
  /\ table \in [Rules -> Stored]
  /\ \A k \in Rules \ Whitelist : table[k] = NoRule
  /\ pc = [s \in Servers |-> "down"]
  /\ cache = [s \in Servers |-> Empty]
  /\ request = [s \in Servers |-> Nothing]
  /\ granted = [s \in Servers |-> {}]
  /\ stale = [s \in Servers |-> {}]

\* Service() and the Reload of Initialize
StartLoads(s) ==
  /\ pc[s] = "down"
  /\ cache' = [cache EXCEPT ![s] = Load]
  /\ pc' = [pc EXCEPT ![s] = "idle"]
  /\ stale' = [stale EXCEPT ![s] = {}]
  /\ UNCHANGED <<table, request, granted>>

\* The table cannot be read: Reload keeps the old, empty, slice, reports
\* nothing, and the server starts without rules.
StartEmpty(s) ==
  /\ pc[s] = "down"
  /\ pc' = [pc EXCEPT ![s] = "idle"]
  /\ stale' = [stale EXCEPT ![s] = {k \in Rules : table[k] # NoRule}]
  /\ UNCHANGED <<table, cache, request, granted>>

(***************************************************************************)
(* Grant takes the lock, rejects the call on the first rule that is not    *)
(* whitelisted, and merges.                                                *)
(***************************************************************************)
GrantMerge(s, new) ==
  /\ pc[s] = "idle"
  /\ Named(new) \subseteq Whitelist
  /\ cache' = [cache EXCEPT ![s] = Merge(cache[s], new)]
  /\ request' = [request EXCEPT ![s] = new]
  /\ granted' = [granted EXCEPT ![s] = @ \cup Named(new)]
  /\ pc' = [pc EXCEPT ![s] = "storing"]
  /\ UNCHANGED <<table, stale>>

\* After the transaction of s: s can vouch for what it has written, the others
\* no longer for what has changed.
Outdated(s) ==
  [t \in Servers |->
     IF t = s THEN stale[s] \ Touched(cache[s])
     ELSE stale[t] \cup {k \in Rules : Written(cache[s])[k] # table[k]}]

\* Store commits; with nothing to write it opens no transaction.
StoreCommits(s) ==
  /\ pc[s] = "storing"
  /\ table' = Written(cache[s])
  /\ stale' = Outdated(s)
  /\ pc' = [pc EXCEPT ![s] = "stored"]
  /\ UNCHANGED <<cache, request, granted>>

\* Store fails before it commits: the transaction is rolled back, Grant
\* returns the error, and the cache stays as merge left it.
StoreFails(s) ==
  /\ pc[s] = "storing"
  /\ Touched(cache[s]) # {}
  /\ stale' = [stale EXCEPT ![s] = @ \cup Named(request[s])]
  /\ pc' = [pc EXCEPT ![s] = "idle"]
  /\ request' = [request EXCEPT ![s] = Nothing]
  /\ UNCHANGED <<table, cache, granted>>

\* The transaction is committed but its acknowledgement is lost: Grant
\* returns an error as well.
StoreAckLost(s) ==
  /\ pc[s] = "storing"
  /\ Touched(cache[s]) # {}
  /\ table' = Written(cache[s])
  /\ stale' = Outdated(s)
  /\ pc' = [pc EXCEPT ![s] = "idle"]
  /\ request' = [request EXCEPT ![s] = Nothing]
  /\ UNCHANGED <<cache, granted>>

\* flush clears the flags of copies, replaces the rules of a copy, and Grant
\* returns nil.
FlushDone(s) ==
  /\ pc[s] = "stored"
  /\ request' = [request EXCEPT ![s] = Nothing]
  /\ pc' = [pc EXCEPT ![s] = "idle"]
  /\ UNCHANGED <<table, cache, granted, stale>>

\* A server process dies, with or without a Grant under way.
Crash(s) ==
  /\ pc[s] # "down"
  /\ pc' = [pc EXCEPT ![s] = "down"]
  /\ cache' = [cache EXCEPT ![s] = Empty]
  /\ request' = [request EXCEPT ![s] = Nothing]
  /\ granted' = [granted EXCEPT ![s] = {}]
  /\ UNCHANGED <<table, stale>>

Grants(s) == \E new \in Requests : GrantMerge(s, new)

Next ==
  \E s \in Servers :
    \/ StartLoads(s)
    \/ StartEmpty(s)
    \/ Grants(s)
    \/ StoreCommits(s)
    \/ StoreFails(s)
    \/ StoreAckLost(s)
    \/ FlushDone(s)
    \/ Crash(s)

Spec == Init /\ [][Next]_vars

-----------------------------------------------------------------------------
(***************************************************************************)
(* stale[s] holds the rules whose row may differ from what s has in        *)
(* memory: a Grant of s that named them failed, another server has changed *)
(* them, or the table could not be read when s started.  The properties    *)
(* say that there is no other way to disagree.                             *)
(***************************************************************************)

\* The memory is a cache of the table ("it acts as a caching layer"): between
\* two Grants, a rule a server can vouch for decides as its row says, and one
\* without a row does not decide.
CacheAgrees ==
  \A s \in Servers, k \in Rules :
    pc[s] \in {"idle", "stored"} /\ k \notin stale[s]
      => Effective(cache[s][k]) = table[k]

\* When Grant is about to return nil, the table holds every rule of the call,
\* and no row for a rule set to Inherit, the rules the server could not vouch
\* for excepted: the dirty flags found every rule that had to be written.
GrantIsDurable ==
  \A s \in Servers, k \in Rules :
    pc[s] = "stored" /\ request[s][k] # NoRule /\ k \notin stale[s]
      => table[k] = IF request[s][k] = Inherit THEN NoRule ELSE request[s][k]

\* No rule outside the whitelist is ever stored or effective in any server,
\* not even after a failed Grant whose rules stay merged.
OnlyWhitelisted ==
  \A k \in Rules \ Whitelist :
    /\ table[k] = NoRule
    /\ \A s \in Servers : cache[s][k].access = NoRule

\* A transaction writes more than the rules of its call: also those of all the
\* calls before it.  But a rule that a server has only loaded it never writes
\* back over what another server has made of it meanwhile.
Writes ==
  \A k \in Rules : table'[k] # table[k] =>
    \E s \in Servers : pc[s] = "storing" /\ pc'[s] # pc[s] /\ k \in granted[s]

WritesOnlyGranted == [][Writes]_vars

=============================================================================
