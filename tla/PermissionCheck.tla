--------------------------- MODULE PermissionCheck ---------------------------
(***************************************************************************)
(* How the permission rules decide (pkg/permissions): RuleSet.Check over   *)
(* the rules in memory, Can with its fallbacks, and ResourceFilter, the    *)
(* SQL condition list queries use, which is to hide exactly the rows Check *)
(* would refuse, though it asks the table for the rules on the row and the *)
(* memory for those on the wildcard.                                       *)
(*                                                                         *)
(* One operation on the resources of one type is enough, as neither        *)
(* algorithm relates two operations or two types.  A resource of the type  *)
(* is "compose:module:" followed by an id of IDs, by the wildcard, or by   *)
(* nothing, which is not a valid resource; Service is a resource without a *)
(* delimiter ("compose").  Rules change one at a time, in the memory of    *)
(* this server, in the table or in both; how that comes about is the       *)
(* subject of Permissions.  A rule on the resource without an id passes    *)
(* the whitelist, but nothing reads it and it is left out.                 *)
(***************************************************************************)
EXTENDS AccessValues, Integers, FiniteSets

CONSTANTS
  Roles,       \* roles but Everyone
  Everyone,    \* EveryoneRoleID
  IDs,         \* ids of resources of the type
  Wildcard, NoID, Service,
  MaxStale     \* a bound: rules in which memory and table differ

ASSUME RolesAssumption == Everyone \notin Roles

ASSUME ResourcesAssumption ==
  /\ Wildcard \notin IDs /\ NoID \notin IDs /\ Service \notin IDs
  /\ Wildcard # NoID /\ Wildcard # Service /\ NoID # Service

VARIABLES
  rules,    \* in memory, rules[role][resource]: Inherit also stands for no rule
  stored    \* in the table

Subjects  == Roles \cup {Everyone}
Resources == IDs \cup {Wildcard, Service}

\* Resource.IsValid, IsAppendable and AppendWildcard
IsValid(res)        == res # NoID
IsAppendable(res)   == res # Service
AppendWildcard(res) == Wildcard

-----------------------------------------------------------------------------
(* Faults *)

\* check stops at the first rule it finds, whichever it is
CheckFirstFound(res, roles) ==
  IF \E r \in roles : rules[r][res] = Allow THEN Allow
  ELSE IF \E r \in roles : rules[r][res] = Deny THEN Deny
  ELSE Inherit

\* the subquery picks any row instead of ordering by access
SelectAnyAllow(id, roles) ==
  IF \E r \in roles : stored[r][id] = Allow THEN Allow
  ELSE IF \E r \in roles : stored[r][id] = Deny THEN Deny
  ELSE Inherit

-----------------------------------------------------------------------------
(* RuleSet.check, checkResource and Check *)

\* Rules that match the resource, for any of the roles: one Deny is enough.
check(res, roles) ==
  IF \E r \in roles : rules[r][res] = Deny THEN Deny
  ELSE IF \E r \in roles : rules[r][res] = Allow THEN Allow
  ELSE Inherit

\* The specific resource, then the wildcard.
checkResource(res, roles) ==
  IF check(res, roles) # Inherit \/ ~IsAppendable(res) THEN check(res, roles)
  ELSE check(AppendWildcard(res), roles)

\* The roles of the user, then Everyone.
Check(res, roles) ==
  IF ~IsValid(res) THEN Deny
  ELSE IF roles # {} /\ checkResource(res, roles) # Inherit
       THEN checkResource(res, roles)
  ELSE checkResource(res, {Everyone})

\* Can, for a user who is not the super user: a fallback that is Inherit stands
\* for a call without one.
Can(res, roles, fallback) ==
  IF Check(res, roles) # Inherit THEN Check(res, roles) = Allow
  ELSE fallback = Allow

-----------------------------------------------------------------------------
(* ResourceFilter.ToSql, evaluated for the row of one id *)

\* One subquery: access = 1 of the first row ordered by access, NULL (here
\* Inherit) without a row.
Select(id, roles) ==
  IF \E r \in roles : stored[r][id] = Deny THEN Deny
  ELSE IF \E r \in roles : stored[r][id] = Allow THEN Allow
  ELSE Inherit

\* The first argument of COALESCE that is not NULL
Coalesce(a, b) == IF a # Inherit THEN a ELSE b

\* Both looks at the wildcard ask Check with the user's roles.  Everyone is
\* part of the condition only when no rule on the wildcard decides.
Filter(id, roles, fallback) ==
  LET wildcard == Check(AppendWildcard(id), roles)
      last     == IF wildcard # Inherit THEN wildcard
                  ELSE IF fallback = Deny THEN Deny ELSE Allow
      everyone == Coalesce(Select(id, {Everyone}), last)
  IN  IF roles = {} THEN everyone = Allow
      ELSE IF wildcard # Inherit THEN Coalesce(Select(id, roles), wildcard) = Allow
      ELSE Coalesce(Select(id, roles), everyone) = Allow

-----------------------------------------------------------------------------
RuleSets == [Subjects -> [Resources -> Access]]

CheckTypeOK == rules \in RuleSets /\ stored \in RuleSets

NoRules == [r \in Subjects |-> [x \in Resources |-> Inherit]]

CheckInit == rules = NoRules /\ stored = NoRules

Stale == {p \in Subjects \X Resources : rules[p[1]][p[2]] # stored[p[1]][p[2]]}

\* A Grant of one rule
Grant(r, res, a) ==
  /\ rules' = [rules EXCEPT ![r][res] = a]
  /\ stored' = [stored EXCEPT ![r][res] = a]

\* A Grant that is not stored stays in memory.
GrantFails(r, res, a) ==
  /\ rules' = [rules EXCEPT ![r][res] = a]
  /\ UNCHANGED stored
  /\ Cardinality(Stale') <= MaxStale

\* The Grant of another server
GrantElsewhere(r, res, a) ==
  /\ stored' = [stored EXCEPT ![r][res] = a]
  /\ UNCHANGED rules
  /\ Cardinality(Stale') <= MaxStale

\* A start of the server
Reload == rules' = stored /\ UNCHANGED stored

CheckNext ==
  \/ \E r \in Subjects, res \in Resources, a \in Access :
       Grant(r, res, a) \/ GrantFails(r, res, a) \/ GrantElsewhere(r, res, a)
  \/ Reload

CheckSpec == CheckInit /\ [][CheckNext]_<<rules, stored>>

-----------------------------------------------------------------------------
(* What an answer is to depend on, level by level *)

RoleSets  == SUBSET Roles
Fallbacks == {Allow, Deny}

\* the rules of a level of the "overall flow", from the most specific level
LevelRules(level, res, roles) ==
  LET at(subjects, x) == {rules[r][x] : r \in subjects} \ {Inherit}
      wild(subjects)  == IF IsAppendable(res) THEN at(subjects, Wildcard) ELSE {}
  IN  CASE level = 1 -> at(roles, res)
        [] level = 2 -> wild(roles)
        [] level = 3 -> at({Everyone}, res)
        [] level = 4 -> wild({Everyone})

\* The overall flow of Check: of the levels that have any rule, the first one
\* decides alone, and in it one Deny outweighs every Allow; with no rule on any
\* level nothing is decided; a resource without an id is refused outright.
FirstLevelDecides ==
  \A roles \in RoleSets :
    /\ Check(NoID, roles) = Deny
    /\ \A res \in Resources :
         \/ /\ \A l \in 1..4 : LevelRules(l, res, roles) = {}
            /\ Check(res, roles) = Inherit
         \/ \E l \in 1..4 :
              /\ LevelRules(l, res, roles) # {}
              /\ \A m \in 1..(l - 1) : LevelRules(m, res, roles) = {}
              /\ Check(res, roles) = IF Deny \in LevelRules(l, res, roles) THEN Deny
                                     ELSE Allow

\* The rules on the row are in memory as they are in the table.
RowIsFresh(id, subjects) == \A r \in subjects : rules[r][id] = stored[r][id]

\* The list query and the check of the single row give different answers in
\* one situation only, whatever the memory has on the wildcard, which both ask: no
\* rule of the user's roles decides, and Everyone has rules on the row and on the
\* wildcard that contradict each other.  This as long as the memory has the rules
\* on the row itself.
FilterDiffersOnlyOnEveryone ==
  \A id \in IDs, roles \in RoleSets, fallback \in Fallbacks :
    RowIsFresh(id, roles \cup {Everyone}) =>
      ((Filter(id, roles, fallback) # Can(id, roles, fallback))
         <=> /\ roles # {}
             /\ checkResource(id, roles) = Inherit
             /\ {rules[Everyone][id], rules[Everyone][Wildcard]} = {Allow, Deny})

=============================================================================
