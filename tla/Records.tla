------------------------------- MODULE Records -------------------------------
(***************************************************************************)
(* Compose records (compose/service/record.go over compose/repository/     *)
(* record.go): the row of one record, its values in a table of their own,  *)
(* and the requests that create, update, delete, order and iterate over it.*)
(*                                                                         *)
(* A request reads the row, reads the values, runs the before-script and   *)
(* only then opens the transaction that writes both tables back, from what *)
(* it has read.  Nothing locks the record in between.  A client may be     *)
(* denied to read or to update single fields: it reads the values of the   *)
(* fields it may read, and values of fields it may not update are copied   *)
(* from the ones it has read.                                              *)
(*                                                                         *)
(* A value stands for who chose it, in a payload or a before-script of an  *)
(* update or create (which are checked with that client's permissions) or  *)
(* in the script of an iterator.  Validators may refuse any value.         *)
(***************************************************************************)

CONSTANTS
  Clients,    \* requests with the permissions of their user, one at a time each
  Fields,     \* fields of the module, with a single value each
  Positions,  \* numeric fields, by which records are ordered
  Readable,   \* of each client: CanReadRecordValue
  Updatable,  \* of each client: CanUpdateRecordValue
  NoValue     \* no row in the value table

ASSUME PermissionAssumption ==
  /\ Positions \subseteq Fields
  /\ Readable \in [Clients -> SUBSET Fields]
  /\ Updatable \in [Clients -> SUBSET Fields]

ASSUME NoValueAssumption == NoValue \notin Clients \X {"update", "iterator"}

VARIABLES
  row,      \* compose_record: absent, or deleted_at is NULL or not
  values,   \* compose_record_value, by field
  hidden,   \* fields whose value has its deleted_at set
  phase,    \* of each client's request
  old,      \* the values it has read
  new,      \* the values it is about to write
  fresh     \* history: nobody has written since the client read the values

vars == <<row, values, hidden, phase, old, new, fresh>>

Chosen(c)   == <<c, "update">>
Iterated(c) == <<c, "iterator">>
Values      == (Clients \X {"update", "iterator"}) \cup {NoValue}
ValueSets   == [Fields -> Values]
NoValues    == [f \in Fields |-> NoValue]

Visible == [f \in Fields |-> IF f \in hidden THEN NoValue ELSE values[f]]

\* preloadValues: live values of the readable fields
Preloaded(c) == [f \in Fields |-> IF f \in Readable[c] THEN Visible[f] ELSE NoValue]

Payloads(c)  == [Fields -> {Chosen(c), NoValue}]

-----------------------------------------------------------------------------
(* procUpdate *)

\* Values that are missing and may not be updated are copied from the old ones.
Fill(c, nv, ov) ==
  [f \in Fields |-> IF nv[f] = NoValue /\ f \notin Updatable[c] THEN ov[f] ELSE nv[f]]

\* After Merge a value is marked updated when it is not the old one.
Denied(c, nv, ov) ==
  \E f \in Fields \ Updatable[c] : nv[f] # ov[f]

\* A fault: the query without its deleted_at IS NULL
FoundDeleted == row # "absent"

\* FindByID and Find: records that are not deleted
Found == row = "live"

-----------------------------------------------------------------------------
TypeOK ==
  /\ row \in {"absent", "live", "deleted"}
  /\ values \in ValueSets
  /\ hidden \subseteq Fields
  /\ phase \in [Clients -> {"idle", "loaded", "scripted", "updating", "deleting",
                            "finding", "iterating", "iterUpdating", "iterDeleting",
                            "organizing", "shifting"}]
  /\ old \in [Clients -> ValueSets] /\ new \in [Clients -> ValueSets]
  /\ fresh \in [Clients -> BOOLEAN]

Init ==
  /\ row = "absent" /\ values = NoValues /\ hidden = {}
  /\ phase = [c \in Clients |-> "idle"]
  /\ old = [c \in Clients |-> NoValues] /\ new = [c \in Clients |-> NoValues]
  /\ fresh = [c \in Clients |-> FALSE]

\* The request ends, and what it has read and computed is gone.
Ends(c) ==
  /\ phase' = [phase EXCEPT ![c] = "idle"]
  /\ old' = [old EXCEPT ![c] = NoValues]
  /\ new' = [new EXCEPT ![c] = NoValues]

\* A transaction that writes the row and the values and commits.
Commits(c, r, vs, h) ==
  /\ row' = r /\ values' = vs /\ hidden' = h
  /\ fresh' = [d \in Clients |-> FALSE]
  /\ Ends(c)

Stored == <<row, values, hidden>>

-----------------------------------------------------------------------------
(* create: the id is new, nobody else knows of the record before it commits *)

Create(c) ==
  /\ row = "absent" /\ phase[c] = "idle"
  /\ \E nv \in Payloads(c) :
       /\ ~Denied(c, nv, NoValues)
       /\ Commits(c, "live", nv, {})

-----------------------------------------------------------------------------
(* update *)

\* loadCombo reads the row; no client sends UpdatedAt, so isStale is not asked.
UpdateLoads(c) ==
  /\ phase[c] = "idle"
  /\ Found
  /\ \E nv \in Payloads(c) : new' = [new EXCEPT ![c] = nv]
  /\ phase' = [phase EXCEPT ![c] = "loaded"]
  /\ UNCHANGED <<Stored, old, fresh>>

\* preloadValues, and procUpdate before the script
UpdatePreloads(c) ==
  LET ov == Preloaded(c)
      nv == Fill(c, new[c], ov)
  IN  /\ phase[c] = "loaded"
      /\ ~Denied(c, nv, ov)
      /\ old' = [old EXCEPT ![c] = ov]
      /\ new' = [new EXCEPT ![c] = nv]
      /\ fresh' = [fresh EXCEPT ![c] = TRUE]
      /\ phase' = [phase EXCEPT ![c] = "scripted"]
      /\ UNCHANGED <<Stored>>

\* A script returns, with one value set to its own, removed, or none changed.
ScriptResults(c, own) ==
  {new[c]} \cup {[new[c] EXCEPT ![f] = v] : f \in Fields, v \in {own, NoValue}}

\* A fault: the second procUpdate compares the record with itself.
UpdateScriptedAlone(c) ==
  /\ phase[c] = "scripted"
  /\ \E sv \in ScriptResults(c, Chosen(c)) :
       LET nv == Fill(c, sv, sv)
       IN  /\ ~Denied(c, nv, sv)
           /\ new' = [new EXCEPT ![c] = nv]
  /\ phase' = [phase EXCEPT ![c] = "updating"]
  /\ UNCHANGED <<Stored, old, fresh>>

\* A fault: it copies nothing, and looks at the values that are there only.
UpdateScriptedUnfilled(c) ==
  /\ phase[c] = "scripted"
  /\ \E sv \in ScriptResults(c, Chosen(c)) :
       /\ \A f \in Fields \ Updatable[c] : sv[f] \in {NoValue, old[c][f]}
       /\ new' = [new EXCEPT ![c] = sv]
  /\ phase' = [phase EXCEPT ![c] = "updating"]
  /\ UNCHANGED <<Stored, old, fresh>>

\* The before-script of an update, whose result procUpdate looks at again
UpdateScripted(c) ==
  /\ phase[c] = "scripted"
  /\ \E sv \in ScriptResults(c, Chosen(c)) :
       LET nv == Fill(c, sv, old[c])
       IN  /\ ~Denied(c, nv, old[c])
           /\ new' = [new EXCEPT ![c] = nv]
  /\ phase' = [phase EXCEPT ![c] = "updating"]
  /\ UNCHANGED <<Stored, old, fresh>>

\* Update writes the whole row, deleted_at as it was when the row was read, and
\* UpdateValues replaces all values.
StoreUpdate(c) ==
  /\ phase[c] = "updating"
  /\ Commits(c, "live", new[c], {})

-----------------------------------------------------------------------------
(* delete, alone or as part of DeleteByID *)

\* loadCombo, and the before-script
DeleteLoads(c) ==
  /\ phase[c] = "idle"
  /\ Found
  /\ phase' = [phase EXCEPT ![c] = "deleting"]
  /\ UNCHANGED <<Stored, old, new, fresh>>

\* A fault: the values are not deleted.
StoreDeleteRowOnly(c) ==
  /\ phase[c] = "deleting"
  /\ Commits(c, "deleted", values, hidden)

StoreDelete(c) ==
  /\ phase[c] = "deleting"
  /\ Commits(c, "deleted", values, Fields)

-----------------------------------------------------------------------------
(* Iterator, with action update or delete *)

IteratorFinds(c) ==
  /\ phase[c] = "idle"
  /\ Found
  /\ phase' = [phase EXCEPT ![c] = "finding"]
  /\ UNCHANGED <<Stored, old, new, fresh>>

IteratorPreloads(c) ==
  /\ phase[c] = "finding"
  /\ new' = [new EXCEPT ![c] = Preloaded(c)]
  /\ fresh' = [fresh EXCEPT ![c] = TRUE]
  /\ phase' = [phase EXCEPT ![c] = "iterating"]
  /\ UNCHANGED <<Stored, old>>

\* procUpdate compares the record with itself: no value counts as updated.
IteratorScripted(c) ==
  /\ phase[c] = "iterating"
  /\ \E sv \in ScriptResults(c, Iterated(c)) : new' = [new EXCEPT ![c] = sv]
  /\ \E p \in {"iterUpdating", "iterDeleting"} : phase' = [phase EXCEPT ![c] = p]
  /\ UNCHANGED <<Stored, old, fresh>>

\* The script is softly aborted: the error says "Aborted", and the iteration
\* goes on to the action.
IteratorAborted(c) ==
  /\ phase[c] = "iterating"
  /\ \E p \in {"iterUpdating", "iterDeleting"} : phase' = [phase EXCEPT ![c] = p]
  /\ UNCHANGED <<Stored, old, new, fresh>>

StoreIteratorUpdate(c) ==
  /\ phase[c] = "iterUpdating"
  /\ Commits(c, "live", new[c], {})

\* Delete and DeleteValues write the DeletedAt of the record, which is nil.
StoreIteratorDelete(c) ==
  /\ phase[c] = "iterDeleting"
  /\ Commits(c, "live", values, {})

-----------------------------------------------------------------------------
(* Organize *)

\* loadCombo, for the record that is moved
OrganizeLoads(c) ==
  /\ phase[c] = "idle"
  /\ Found
  /\ phase' = [phase EXCEPT ![c] = "organizing"]
  /\ UNCHANGED <<Stored, old, new, fresh>>

\* Its row is written as it was read, and the values of the position field, the
\* group field or both are replaced; the other values stay as they are.
Replaced(c, fs) == [f \in Fields |-> IF f \in fs THEN Chosen(c) ELSE values[f]]

StoreOrganize(c) ==
  /\ phase[c] = "organizing"
  /\ \E p \in Positions, g \in Fields : \E fs \in {{p}, {g}, {p, g}} :
       /\ fs \subseteq Updatable[c]
       /\ Commits(c, "live", Replaced(c, fs), hidden \ fs)

\* Another record is moved, and the transaction finds this one behind it ...
ShiftFinds(c) ==
  /\ phase[c] = "idle"
  /\ Found
  /\ phase' = [phase EXCEPT ![c] = "shifting"]
  /\ UNCHANGED <<Stored, old, new, fresh>>

\* ... and replaces its position, and nothing in its row.
StoreShift(c) ==
  /\ phase[c] = "shifting"
  /\ \E p \in Positions \cap Updatable[c] :
       Commits(c, row, Replaced(c, {p}), hidden \ {p})

-----------------------------------------------------------------------------
\* A check, a validator, a script or a statement fails, and nothing is written.
\* (When the UPDATE of the row fails, update commits an empty transaction and
\* panics on the nil record.)
Fails(c) ==
  /\ phase[c] # "idle"
  /\ Ends(c)
  /\ UNCHANGED <<Stored, fresh>>

Update(c)   == UpdateLoads(c) \/ UpdatePreloads(c) \/ UpdateScripted(c) \/ StoreUpdate(c)
Delete(c)   == DeleteLoads(c) \/ StoreDelete(c)
Iterator(c) == \/ IteratorFinds(c) \/ IteratorPreloads(c) \/ IteratorScripted(c)
               \/ IteratorAborted(c) \/ StoreIteratorUpdate(c) \/ StoreIteratorDelete(c)
Organize(c) == OrganizeLoads(c) \/ StoreOrganize(c) \/ ShiftFinds(c) \/ StoreShift(c)

Next ==
  \E c \in Clients :
    \/ Create(c) \/ Update(c) \/ Delete(c) \/ Iterator(c) \/ Organize(c)
    \/ Fails(c)

Spec == Init /\ [][Next]_vars

-----------------------------------------------------------------------------
\* Whatever requests and their before-scripts race with each other, a value a
\* client chose is stored in a field that client may update.
AuthorsMayUpdate ==
  \A f \in Fields, c \in Clients : values[f] = Chosen(c) => f \in Updatable[c]

\* A delete hides the values with the row: of all the writers that may race it,
\* only a shift leaves a live value on a deleted record, its position.
OnlyPositionsOutliveTheRecord ==
  row = "deleted" => Fields \ hidden \subseteq Positions

\* An update may bring a record back that was deleted under it, but only one
\* that had loaded the record before: with no request under way a deleted
\* record is deleted for good.
DeletedStaysDeleted ==
  [](row = "deleted" /\ (\A c \in Clients : phase[c] = "idle") => [](row = "deleted"))

\* "... we need to copy them": an update keeps the value of a field that its
\* client may read and not update, when nobody has written since it was read.
KeepsReadValues ==
  [][\A c \in Clients : phase[c] = "updating" /\ StoreUpdate(c) /\ fresh[c] =>
       \A f \in Readable[c] \ Updatable[c] : Visible'[f] = Visible[f]]_vars

=============================================================================
