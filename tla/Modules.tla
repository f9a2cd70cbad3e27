------------------------------- MODULE Modules -------------------------------
(***************************************************************************)
(* A compose module, its fields, and the values its records have under the *)
(* names of those fields (compose/service/module.go and its repository).   *)
(*                                                                         *)
(* Create, Update and DeleteByID are one transaction each.  What they read *)
(* is a snapshot of the moment it begins (Begin...): from it follows what  *)
(* they will write.  Then scripts run, as long as they like, and the rows  *)
(* are written as they are by then (Commit...): a commit is one step, as   *)
(* its first statement locks the row of the module.  A record is checked   *)
(* against the fields it has read, and inserted without any lock on them.  *)
(*                                                                         *)
(* Main is the module with fields and records, Other a second one of the   *)
(* namespace that may take its handle.  Every record has one value, which  *)
(* fits a field of its name and kind.  Names of modules are checked as     *)
(* handles are; labels, options and permissions are left out, and so are   *)
(* the columns of a row that nothing here depends on.                      *)
(***************************************************************************)
EXTENDS Naturals, FiniteSets, Sequences

CONSTANTS
  Requests,
  Handles,    \* that modules may be given
  NoHandle,   \* the empty one, which need not be unique
  Names,      \* of fields
  Kinds,
  MaxFields,  \* bound on the fields ever created
  MaxList,    \* bound on the fields a client sends
  MaxShort,   \* ... with another handle, or with a request that is not of Long
  Long,
  MaxTime,    \* bound on the seconds that pass
  MaxValues,  \* bound on the different values that are stored
  None

ASSUME ModulesAssumption ==
  /\ MaxFields \in Nat /\ MaxList \in Nat /\ MaxShort \in 0..MaxList
  /\ Long \subseteq Requests
  /\ MaxTime \in Nat \ {0} /\ MaxValues \in Nat
  /\ NoHandle \notin Handles /\ None \notin Handles \cup {NoHandle}

VARIABLES
  alive, handle,  \* of Main
  updated,        \* updated_at of Main in seconds, 0: NULL; created_at is 1
  other,          \* the handle of Other, None: there is no such module
  fields,         \* rows of compose_module_field
  lastField,      \* the last id given to a field
  held,           \* values of the records of Main: the field's name, the kind
                  \* it fits
  req             \* of each request: what it will write

rowVars    == <<alive, handle, updated, other, fields, lastField>>
moduleVars == <<rowVars, held, req>>

FieldRow == [id: 1..MaxFields, name: Names, kind: Kinds, place: 1..MaxList]
Listed   == [id: 0..MaxFields, name: Names, kind: Kinds]
Lists    == UNION {[1..n -> Listed] : n \in 0..MaxList}
NamedValues == Names \X Kinds

\* raced, history: some module was written since the request began; had: Main
\* had records then; gone: the fields it will delete.
Request ==
  [op: {"idle"}]
    \cup [op: {"update"}, plan: Lists, gone: SUBSET (1..MaxFields),
          handle: Handles \cup {NoHandle}, had: BOOLEAN, raced: BOOLEAN]
    \cup [op: {"create"}, handle: Handles \cup {NoHandle}, raced: BOOLEAN]
    \cup [op: {"delete main", "delete other"}]
    \cup [op: {"insert"}, value: NamedValues]

ModulesTypeOK ==
  /\ alive \in BOOLEAN /\ handle \in Handles \cup {NoHandle}
  /\ updated \in 0..MaxTime
  /\ other \in Handles \cup {None}
  /\ fields \subseteq FieldRow
  /\ \A f, g \in fields : f # g => f.id # g.id /\ f.name # g.name /\ f.place # g.place
  /\ lastField \in 0..MaxFields
  /\ held \subseteq NamedValues
  /\ req \in [Requests -> Request]

Idle == [op |-> "idle"]

ModulesInit ==
  /\ alive = TRUE /\ handle = NoHandle
  /\ updated = 0
  /\ other = None
  /\ fields = {} /\ lastField = 0
  /\ held = {}
  /\ req = [q \in Requests |-> Idle]

-----------------------------------------------------------------------------
Begins(q, r) ==
  /\ req' = [req EXCEPT ![q] = r]
  /\ UNCHANGED <<rowVars, held>>

\* A request that has written modules is done; the others have raced it.
EndsWriting(q) ==
  req' = [p \in Requests |->
            IF p = q THEN Idle
            ELSE IF req[p].op \in {"update", "create"}
                 THEN [req[p] EXCEPT !.raced = TRUE] ELSE req[p]]

\* A script refuses, or a statement fails: nothing is written.
Fail(q) ==
  /\ req[q] # Idle
  /\ req' = [req EXCEPT ![q] = Idle]
  /\ UNCHANGED <<rowVars, held>>

-----------------------------------------------------------------------------
(* Update *)

Created == 1
Version == IF updated = 0 THEN Created ELSE updated

\* isStale: nothing sent is never stale.  What was sent is compared with
\* updatedAt, and before the first update with createdAt, the wrong way round.
IsStale(sent) ==
  /\ sent # 0
  /\ IF updated # 0 THEN sent # updated ELSE sent = Created

\* A fault: the kind is taken from the list.
ResolvedKindFree(f, hasRecords) ==
  IF \E e \in fields : e.id = f.id
  THEN LET e == CHOOSE e \in fields : e.id = f.id
       IN  IF hasRecords THEN [id |-> e.id, name |-> e.name, kind |-> f.kind] ELSE f
  ELSE [f EXCEPT !.id = 0]

\* A field of the client's list as it will be written: one that is not stored is
\* new, whatever its id; the name and the kind of a stored one are reset when
\* there are records.
Resolved(f, hasRecords) ==
  IF \E e \in fields : e.id = f.id
  THEN LET e == CHOOSE e \in fields : e.id = f.id
       IN  IF hasRecords THEN [id |-> e.id, name |-> e.name, kind |-> e.kind] ELSE f
  ELSE [f EXCEPT !.id = 0]

IdsOf(list) == {list[i].id : i \in DOMAIN list}

\* A fault: fields that have records are not deleted.
MissingOfEmpty(list) ==
  IF held = {} THEN {e.id : e \in {e \in fields : e.id \notin IdsOf(list)}} ELSE {}

Missing(list) == {e.id : e \in {e \in fields : e.id \notin IdsOf(list)}}

\* UniqueCheck: no other live module has the handle.
HandleIsFree(h) == h = NoHandle \/ other # h

\* What is stale is refused, and so is a handle that another module has.
BeginUpdate(q, sent, h, list) ==
  /\ alive /\ ~ IsStale(sent) /\ HandleIsFree(h)
  /\ Begins(q, [op   |-> "update",
                plan |-> [i \in DOMAIN list |-> Resolved(list[i], held # {})],
                gone |-> Missing(list), handle |-> h,
                had  |-> held # {}, raced |-> FALSE])

\* REPLACE deletes every row that has the id, the place or the name of the new
\* one: all three are unique.
Replace(rows, f) ==
  {g \in rows : g.id # f.id /\ g.name # f.name /\ g.place # f.place} \cup {f}

NewUpTo(plan, i) == Cardinality({j \in 1..i : plan[j].id = 0})

\* UpdateFields: fields that are not in the list are deleted, then those that are
\* are written one by one.
Written(plan, gone) ==
  LET Row(i) == [id |-> IF plan[i].id = 0 THEN lastField + NewUpTo(plan, i) ELSE plan[i].id,
                 name |-> plan[i].name, kind |-> plan[i].kind, place |-> i]
      rows[i \in 0..Len(plan)] ==
        IF i = 0 THEN {e \in fields : e.id \notin gone}
        ELSE Replace(rows[i - 1], Row(i))
  IN  rows[Len(plan)]

\* The row of the module is written whole, with the deleted_at it was read with.
CommitUpdate(q) ==
  LET r == req[q]
  IN  /\ r.op = "update"
      /\ lastField + NewUpTo(r.plan, Len(r.plan)) <= MaxFields
      /\ alive' = TRUE
      /\ handle' = r.handle
      /\ updated' \in Version..MaxTime
      /\ fields' = Written(r.plan, r.gone)
      /\ lastField' = lastField + NewUpTo(r.plan, Len(r.plan))
      /\ EndsWriting(q)
      /\ UNCHANGED <<other, held>>

-----------------------------------------------------------------------------
(* Create, DeleteByID *)

\* A fault: the handle is compared with that of deleted modules only.
HandleIsFreeOfDeleted(h) == alive \/ handle # h

\* UniqueCheck again, for Other
OthersHandleIsFree(h) == ~ alive \/ handle # h

BeginCreate(q, h) ==
  /\ other = None
  /\ \A p \in Requests : req[p].op # "create"   \* there is but one Other
  /\ OthersHandleIsFree(h)
  /\ Begins(q, [op |-> "create", handle |-> h, raced |-> FALSE])

CommitCreate(q) ==
  /\ req[q].op = "create"
  /\ other' = req[q].handle
  /\ EndsWriting(q)
  /\ UNCHANGED <<alive, handle, updated, fields, lastField, held>>

BeginDelete(q) ==
  \/ alive /\ Begins(q, [op |-> "delete main"])
  \/ other # None /\ Begins(q, [op |-> "delete other"])

\* The fields and the records stay.
CommitDelete(q) ==
  /\ \/ req[q].op = "delete main" /\ alive' = FALSE /\ UNCHANGED other
     \/ req[q].op = "delete other" /\ other' = None /\ UNCHANGED alive
  /\ EndsWriting(q)
  /\ UNCHANGED <<handle, updated, fields, lastField, held>>

-----------------------------------------------------------------------------
(* Records *)

\* create in record.go: the module and its fields are read, the value is checked.
BeginInsert(q) ==
  /\ alive
  /\ \E f \in fields : Begins(q, [op |-> "insert", value |-> <<f.name, f.kind>>])

CommitInsert(q) ==
  /\ req[q].op = "insert"
  /\ held' = held \cup {req[q].value}
  /\ Cardinality(held') <= MaxValues
  /\ req' = [req EXCEPT ![q] = Idle]
  /\ UNCHANGED rowVars

\* The last record with this value is deleted.
DeleteRecords(v) ==
  /\ v \in held
  /\ held' = held \ {v}
  /\ UNCHANGED <<rowVars, req>>

-----------------------------------------------------------------------------
\* A client names no version of the module that it never had, and no field.
Known == {f \in Listed : f.id = 0 \/ f.id \in {e.id : e \in fields}}

Begin(q) ==
  /\ req[q] = Idle
  /\ \/ \E sent \in 0..Version, h \in Handles \cup {NoHandle} :
          \E n \in 0..IF q \in Long /\ h = handle THEN MaxList ELSE MaxShort :
            \E list \in [1..n -> Known] : BeginUpdate(q, sent, h, list)
     \/ \E h \in Handles : BeginCreate(q, h)
     \/ BeginDelete(q)
     \/ BeginInsert(q)

Commit(q) == CommitUpdate(q) \/ CommitCreate(q) \/ CommitDelete(q) \/ CommitInsert(q)

ModulesNext ==
  \/ \E q \in Requests : Begin(q) \/ Commit(q) \/ Fail(q)
  \/ \E v \in held : DeleteRecords(v)

ModulesSpec == ModulesInit /\ [][ModulesNext]_moduleVars

-----------------------------------------------------------------------------
NoneTwice(plan) ==
  \A i, j \in DOMAIN plan :
    i # j => /\ plan[i].name # plan[j].name
             /\ plan[i].id # plan[j].id \/ plan[i].id = 0

Fits(v, rows) == \E f \in rows : v = <<f.name, f.kind>>

\* Each REPLACE may delete rows of fields that are listed, written already or
\* not.  Yet an update whose fields, as they will be written, have different
\* names stores just these fields in this order, if no other one came between.
FieldsAreTheList ==
  [][\A q \in Requests :
       LET plan == req[q].plan
       IN  CommitUpdate(q) /\ ~ req[q].raced /\ NoneTwice(plan) =>
             /\ Cardinality(fields') = Len(plan)
             /\ \A i \in DOMAIN plan : \E f \in fields' :
                  /\ f.place = i /\ f.name = plan[i].name /\ f.kind = plan[i].kind
                  /\ plan[i].id \in {0, f.id}]_moduleVars

\* A value does not lose its field, or the field its kind, but by an update that
\* deletes the field on purpose, found no record, raced another one, or has two
\* fields of one name once the names it changed are reset.
ValuesKeepTheirFields ==
  [][\A v \in held \cap held' :
       Fits(v, fields) /\ ~ Fits(v, fields') =>
         \E q \in Requests :
           /\ CommitUpdate(q)
           /\ \/ \E f \in fields : v = <<f.name, f.kind>> /\ f.id \in req[q].gone
              \/ ~ req[q].had \/ req[q].raced
              \/ ~ NoneTwice(req[q].plan)]_moduleVars

\* Two modules come to have the same handle only when the check of one was made
\* before the commit of the other.
Shared == alive /\ other = handle
HandlesAreUnique ==
  [][~ Shared /\ Shared' =>
       \E q \in Requests : req[q].op \in {"update", "create"} /\ req[q].raced
                             /\ req'[q] = Idle]_moduleVars

=============================================================================
