----------------------------- MODULE ComposeProofs -----------------------------
(***************************************************************************)
(* The properties of Records for any clients, fields and permissions, and  *)
(* those of Modules for any requests, names, kinds and handles, and lists  *)
(* of fields of any length.                                                *)
(***************************************************************************)
EXTENDS Records, Modules, FiniteSetTheorems, WellFoundedInduction, TLAPS

-----------------------------------------------------------------------------
(* Records *)

\* A value somebody chose is in a field that its author may update.
Authored(vs) == \A f \in Fields, c \in Clients : vs[f] = Chosen(c) => f \in Updatable[c]

\* The same, but for what a client has chosen that nobody has looked at yet.
OthersAuthored(c, vs) ==
  \A f \in Fields, d \in Clients \ {c} : vs[f] = Chosen(d) => f \in Updatable[d]

\* Phases in which procUpdate has looked at the new values, and those in which
\* the new values are what an iterator has read and its script has made of it.
Checked   == {"scripted", "updating"}
Iterating == {"iterating", "iterUpdating", "iterDeleting"}

\* What a request goes on to write respects the permissions already.
Prepared(c) ==
  /\ Authored(old[c])
  /\ phase[c] = "loaded" => OthersAuthored(c, new[c])
  /\ phase[c] \in Checked \cup Iterating => Authored(new[c])

\* What a request may not update it has as it was read ...
Copied(c) ==
  phase[c] \in Checked => \A f \in Fields \ Updatable[c] : new[c][f] = old[c][f]

\* ... and that is what is stored, as long as nobody has written.
ReadAsStored(c) ==
  phase[c] \in Checked /\ fresh[c] => \A f \in Readable[c] : old[c][f] = Visible[f]

\* Nobody has found a record that is not there.
FoundExists == row = "absent" => \A c \in Clients : phase[c] = "idle"

RecordsInv ==
  /\ TypeOK
  /\ FoundExists
  /\ AuthorsMayUpdate
  /\ OnlyPositionsOutliveTheRecord
  /\ \A c \in Clients : Prepared(c) /\ Copied(c) /\ ReadAsStored(c)

LEMMA SomebodyIsNotNobody ==
  ASSUME NEW c \in Clients
  PROVE  /\ Chosen(c) \in Values /\ Iterated(c) \in Values /\ NoValue \in Values
         /\ Chosen(c) # NoValue
         /\ \A d \in Clients : Chosen(d) = Chosen(c) => d = c
         /\ \A d \in Clients : Iterated(d) # Chosen(c)
  BY NoValueAssumption DEF Chosen, Iterated, Values

\* Reading adds nothing that was not stored.
LEMMA ReadsAreAuthored ==
  ASSUME TypeOK, AuthorsMayUpdate, NEW c \in Clients
  PROVE  /\ Authored(values) /\ Authored(Visible) /\ Authored(NoValues)
         /\ Authored(Preloaded(c))
         /\ Visible \in ValueSets /\ NoValues \in ValueSets /\ Preloaded(c) \in ValueSets
<1>1. \A d \in Clients : NoValue # Chosen(d) /\ NoValue \in Values
  BY SomebodyIsNotNobody
<1>2. NoValue \in Values
  BY DEF Values
<1>3. Authored(values)
  BY DEF Authored, AuthorsMayUpdate
<1>4. Visible \in ValueSets /\ Authored(Visible)
  BY <1>1, <1>2, <1>3 DEF TypeOK, Visible, ValueSets, Authored
<1>5. NoValues \in ValueSets /\ Authored(NoValues)
  BY <1>1, <1>2 DEF NoValues, ValueSets, Authored
<1>6. Preloaded(c) \in ValueSets /\ Authored(Preloaded(c))
  BY <1>1, <1>2, <1>4 DEF Preloaded, ValueSets, Authored
<1> QED
  BY <1>3, <1>4, <1>5, <1>6

\* What procUpdate lets through: nothing but old values where the client may not
\* update, so an author stays where its permissions are.
LEMMA CheckedIsAuthored ==
  ASSUME NEW c \in Clients, NEW nv \in ValueSets, NEW ov \in ValueSets,
         Authored(ov), ~ Denied(c, Fill(c, nv, ov), ov),
         OthersAuthored(c, nv)
  PROVE  /\ Fill(c, nv, ov) \in ValueSets
         /\ Authored(Fill(c, nv, ov))
         /\ \A f \in Fields \ Updatable[c] : Fill(c, nv, ov)[f] = ov[f]
<1>1. Fill(c, nv, ov) \in ValueSets
  BY DEF Fill, ValueSets
<1>2. \A f \in Fields \ Updatable[c] : Fill(c, nv, ov)[f] = ov[f]
  BY DEF Denied
<1>3. Authored(Fill(c, nv, ov))
  <2> SUFFICES ASSUME NEW f \in Fields, NEW d \in Clients,
                      Fill(c, nv, ov)[f] = Chosen(d)
               PROVE  f \in Updatable[d]
    BY DEF Authored
  <2>1. CASE f \notin Updatable[c]
    BY <1>2, <2>1 DEF Authored
  <2>2. CASE f \in Updatable[c] /\ d # c
    BY <2>2 DEF Fill, OthersAuthored
  <2> QED
    BY <2>1, <2>2
<1> QED
  BY <1>1, <1>2, <1>3

\* A request that reads or computes, and writes nothing, disturbs no other: what
\* there is to show is about itself.
LEMMA OwnStep ==
  ASSUME RecordsInv, NEW c \in Clients, UNCHANGED Stored, row # "absent", TypeOK',
         \A d \in Clients \ {c} : /\ phase'[d] = phase[d] /\ old'[d] = old[d]
                                 /\ new'[d] = new[d] /\ fresh'[d] = fresh[d],
         Prepared(c)', Copied(c)', ReadAsStored(c)'
  PROVE  RecordsInv'
<1>1. /\ AuthorsMayUpdate' /\ OnlyPositionsOutliveTheRecord' /\ FoundExists'
      /\ Visible' = Visible
  BY DEF RecordsInv, Stored, AuthorsMayUpdate, OnlyPositionsOutliveTheRecord, FoundExists, Visible
<1>2. ASSUME NEW d \in Clients \ {c}
      PROVE  Prepared(d)' /\ Copied(d)' /\ ReadAsStored(d)'
  <2>1. Prepared(d) /\ Copied(d) /\ ReadAsStored(d)
    BY <1>2 DEF RecordsInv
  <2>2. Prepared(d)'
    BY <1>2, <2>1 DEF Prepared, Authored, OthersAuthored
  <2>3. Copied(d)'
    BY <1>2, <2>1 DEF Copied
  <2>4. ReadAsStored(d)'
    BY <1>1, <1>2, <2>1 DEF ReadAsStored
  <2> QED
    BY <2>2, <2>3, <2>4
<1>3. \A d \in Clients : Prepared(d)' /\ Copied(d)' /\ ReadAsStored(d)'
  BY <1>2
<1> QED
  BY <1>1, <1>3 DEF RecordsInv

\* A transaction ends its request, and what the others have read is no longer
\* what is stored.
LEMMA CommitHolds ==
  ASSUME RecordsInv, NEW c \in Clients, NEW r \in {"live", "deleted"}, NEW vs \in ValueSets,
         NEW h \in SUBSET Fields, Commits(c, r, vs, h), Authored(vs),
         r = "deleted" => Fields \ h \subseteq Positions
  PROVE  RecordsInv'
<1>1. NoValues \in ValueSets /\ Authored(NoValues)
  BY ReadsAreAuthored DEF RecordsInv
<1>2. TypeOK'
  BY <1>1 DEF RecordsInv, TypeOK, Commits, Ends
<1>3. AuthorsMayUpdate' /\ OnlyPositionsOutliveTheRecord' /\ FoundExists'
  BY DEF Commits, Authored, AuthorsMayUpdate, OnlyPositionsOutliveTheRecord, FoundExists
<1>4. ASSUME NEW d \in Clients
      PROVE  Prepared(d)' /\ Copied(d)' /\ ReadAsStored(d)'
  <2>1. ReadAsStored(d)'
    BY <1>4 DEF Commits, ReadAsStored
  <2>2. CASE d = c
    BY <1>1, <2>1, <2>2 DEF RecordsInv, TypeOK, Commits, Ends, Prepared, Copied, Authored,
                            Checked, Iterating
  <2>3. CASE d # c
    <3>1. phase'[d] = phase[d] /\ old'[d] = old[d] /\ new'[d] = new[d]
      BY <1>4, <2>3 DEF RecordsInv, TypeOK, Commits, Ends
    <3>2. Prepared(d) /\ Copied(d)
      BY <1>4 DEF RecordsInv
    <3> QED
      BY <2>1, <3>1, <3>2 DEF Prepared, Copied, Authored, OthersAuthored
  <2> QED
    BY <2>2, <2>3
<1> QED
  BY <1>2, <1>3, <1>4 DEF RecordsInv

-----------------------------------------------------------------------------
LEMMA InitHolds == Init => RecordsInv
<1> SUFFICES ASSUME Init PROVE RecordsInv
  OBVIOUS
<1>1. \A f \in Fields, c \in Clients : NoValue # Chosen(c)
  BY SomebodyIsNotNobody
<1>2. TypeOK
  BY DEF Init, TypeOK, NoValues, ValueSets, Values
<1>3. AuthorsMayUpdate /\ OnlyPositionsOutliveTheRecord /\ FoundExists
  BY <1>1 DEF Init, NoValues, AuthorsMayUpdate, OnlyPositionsOutliveTheRecord, FoundExists
<1>4. \A c \in Clients : Prepared(c) /\ Copied(c) /\ ReadAsStored(c)
  BY <1>1 DEF Init, Prepared, Copied, ReadAsStored, Authored, NoValues, Checked, Iterating
<1> QED
  BY <1>2, <1>3, <1>4 DEF RecordsInv

LEMMA CreateHolds ==
  ASSUME RecordsInv, NEW c \in Clients, Create(c)
  PROVE  RecordsInv'
<1>1. PICK nv \in Payloads(c) : ~ Denied(c, nv, NoValues) /\ Commits(c, "live", nv, {})
  BY DEF Create
<1>2. nv \in ValueSets
  BY SomebodyIsNotNobody DEF Payloads, ValueSets
<1>3. Authored(nv)
  BY <1>1, SomebodyIsNotNobody DEF Payloads, Denied, NoValues, Authored
<1> QED
  BY <1>1, <1>2, <1>3, CommitHolds

LEMMA UpdateHolds ==
  ASSUME RecordsInv, NEW c \in Clients, Update(c)
  PROVE  RecordsInv'
<1> USE DEF Checked, Iterating
<1>1. CASE UpdateLoads(c)
  <2>1. PICK nv \in Payloads(c) : new' = [new EXCEPT ![c] = nv]
    BY <1>1 DEF UpdateLoads
  <2>2. nv \in ValueSets
    BY SomebodyIsNotNobody DEF Payloads, ValueSets
  <2>3. OthersAuthored(c, nv)
    BY SomebodyIsNotNobody DEF Payloads, OthersAuthored
  <2>4. TypeOK' /\ new'[c] = nv /\ phase'[c] = "loaded" /\ old'[c] = old[c]
    BY <1>1, <2>1, <2>2 DEF RecordsInv, TypeOK, UpdateLoads, Stored
  <2>5. Prepared(c)' /\ Copied(c)' /\ ReadAsStored(c)'
    BY <2>3, <2>4 DEF RecordsInv, Prepared, Copied, ReadAsStored, Authored, OthersAuthored
  <2> QED
    BY <1>1, <2>1, <2>4, <2>5, OwnStep DEF UpdateLoads, Found, RecordsInv, TypeOK
<1>2. CASE UpdatePreloads(c)
  <2> DEFINE ov == Preloaded(c)
             nv == Fill(c, new[c], ov)
  <2>1. new[c] \in ValueSets /\ OthersAuthored(c, new[c]) /\ ~ Denied(c, nv, ov)
    BY <1>2 DEF RecordsInv, TypeOK, Prepared, UpdatePreloads
  <2>2. ov \in ValueSets /\ Authored(ov)
    BY ReadsAreAuthored DEF RecordsInv
  <2>3. /\ nv \in ValueSets /\ Authored(nv)
        /\ \A f \in Fields \ Updatable[c] : nv[f] = ov[f]
    BY <2>1, <2>2, CheckedIsAuthored
  <2>4. /\ TypeOK' /\ UNCHANGED Stored
        /\ new'[c] = nv /\ old'[c] = ov /\ phase'[c] = "scripted"
    BY <1>2, <2>2, <2>3 DEF RecordsInv, TypeOK, UpdatePreloads, Stored
  <2>5. \A f \in Readable[c] : ov[f] = Visible[f]
    BY PermissionAssumption DEF Preloaded
  <2>6. Visible' = Visible
    BY <2>4 DEF Visible, Stored
  <2>7. Prepared(c)' /\ Copied(c)' /\ ReadAsStored(c)'
    BY <2>2, <2>3, <2>4, <2>5, <2>6 DEF Prepared, Copied, ReadAsStored, Authored
  <2>8. \A d \in Clients \ {c} : /\ phase'[d] = phase[d] /\ old'[d] = old[d]
                                /\ new'[d] = new[d] /\ fresh'[d] = fresh[d]
    BY <1>2 DEF UpdatePreloads, RecordsInv, TypeOK
  <2>9. row # "absent"
    BY <1>2 DEF UpdatePreloads, RecordsInv, FoundExists
  <2> HIDE DEF ov, nv
  <2> QED
    BY <2>4, <2>7, <2>8, <2>9, OwnStep
<1>3. CASE UpdateScripted(c)
  <2> DEFINE ov == old[c]
  <2>1. PICK sv \in ScriptResults(c, Chosen(c)) :
          /\ ~ Denied(c, Fill(c, sv, ov), ov)
          /\ new' = [new EXCEPT ![c] = Fill(c, sv, ov)]
    BY <1>3 DEF UpdateScripted
  <2>2. ov \in ValueSets /\ new[c] \in ValueSets /\ Authored(ov) /\ Authored(new[c])
    BY <1>3 DEF RecordsInv, TypeOK, Prepared, UpdateScripted
  <2>3. sv \in ValueSets
    BY <2>2, SomebodyIsNotNobody DEF ScriptResults, ValueSets
  <2>4. OthersAuthored(c, sv)
    BY <2>2, SomebodyIsNotNobody DEF ScriptResults, OthersAuthored, Authored, ValueSets
  <2> DEFINE nv == Fill(c, sv, ov)
  <2>5. /\ nv \in ValueSets /\ Authored(nv)
        /\ \A f \in Fields \ Updatable[c] : nv[f] = ov[f]
    BY <2>1, <2>2, <2>3, <2>4, CheckedIsAuthored
  <2>6. /\ TypeOK' /\ UNCHANGED Stored
        /\ new'[c] = nv /\ old'[c] = ov /\ phase'[c] = "updating"
        /\ UNCHANGED fresh
    BY <1>3, <2>1, <2>5 DEF RecordsInv, TypeOK, UpdateScripted, Stored
  <2>7. Visible' = Visible
    BY <2>6 DEF Visible, Stored
  <2>8. Prepared(c)' /\ Copied(c)' /\ ReadAsStored(c)'
    BY <1>3, <2>2, <2>5, <2>6, <2>7 DEF RecordsInv, Prepared, Copied, ReadAsStored, Authored,
                                   UpdateScripted
  <2>9. \A d \in Clients \ {c} : /\ phase'[d] = phase[d] /\ old'[d] = old[d]
                                /\ new'[d] = new[d] /\ fresh'[d] = fresh[d]
    BY <1>3, <2>1 DEF UpdateScripted, RecordsInv, TypeOK
  <2>10. row # "absent"
    BY <1>3 DEF UpdateScripted, RecordsInv, FoundExists
  <2> HIDE DEF ov, nv
  <2> QED
    BY <2>6, <2>8, <2>9, <2>10, OwnStep
<1>4. CASE StoreUpdate(c)
  <2>1. new[c] \in ValueSets /\ Authored(new[c])
    BY <1>4 DEF RecordsInv, TypeOK, Prepared, StoreUpdate
  <2> QED
    BY <1>4, <2>1, CommitHolds DEF StoreUpdate
<1> QED
  BY <1>1, <1>2, <1>3, <1>4 DEF Update

\* A request that has only found the row has nothing to write yet.
LEMMA OnlyFinds ==
  ASSUME RecordsInv, NEW c \in Clients,
         NEW p \in {"deleting", "finding", "organizing", "shifting"},
         phase' = [phase EXCEPT ![c] = p], UNCHANGED <<Stored, old, new, fresh>>, Found
  PROVE  RecordsInv'
<1>1. TypeOK' /\ UNCHANGED Stored
  BY DEF RecordsInv, TypeOK, Stored
<1>2. Prepared(c)' /\ Copied(c)' /\ ReadAsStored(c)'
  BY DEF RecordsInv, TypeOK, Prepared, Copied, ReadAsStored, Authored, Checked, Iterating
<1>3. \A d \in Clients \ {c} : /\ phase'[d] = phase[d] /\ old'[d] = old[d]
                              /\ new'[d] = new[d] /\ fresh'[d] = fresh[d]
  BY DEF RecordsInv, TypeOK
<1> QED
  BY <1>1, <1>2, <1>3, OwnStep DEF Found

LEMMA DeleteHolds ==
  ASSUME RecordsInv, NEW c \in Clients, Delete(c)
  PROVE  RecordsInv'
<1>1. CASE DeleteLoads(c)
  BY <1>1, OnlyFinds DEF DeleteLoads
<1>2. CASE StoreDelete(c)
  <2>1. values \in ValueSets /\ Authored(values)
    BY DEF RecordsInv, TypeOK, AuthorsMayUpdate, Authored
  <2> QED
    BY <1>2, <2>1, CommitHolds DEF StoreDelete
<1> QED
  BY <1>1, <1>2 DEF Delete

LEMMA IteratorHolds ==
  ASSUME RecordsInv, NEW c \in Clients, Iterator(c)
  PROVE  RecordsInv'
<1> USE DEF Checked, Iterating
<1> DEFINE Others == \A d \in Clients \ {c} :
                       /\ phase'[d] = phase[d] /\ old'[d] = old[d]
                       /\ new'[d] = new[d] /\ fresh'[d] = fresh[d]
<1>1. CASE IteratorFinds(c)
  BY <1>1, OnlyFinds DEF IteratorFinds
<1>2. CASE IteratorPreloads(c)
  <2>1. Preloaded(c) \in ValueSets /\ Authored(Preloaded(c))
    BY ReadsAreAuthored DEF RecordsInv
  <2>2. /\ TypeOK' /\ UNCHANGED Stored /\ Others
        /\ new'[c] = Preloaded(c) /\ old'[c] = old[c] /\ phase'[c] = "iterating"
        /\ row # "absent"
    BY <1>2, <2>1 DEF RecordsInv, TypeOK, FoundExists, IteratorPreloads, Stored
  <2>3. Prepared(c)' /\ Copied(c)' /\ ReadAsStored(c)'
    BY <2>1, <2>2 DEF RecordsInv, Prepared, Copied, ReadAsStored, Authored
  <2> QED
    BY <2>2, <2>3, OwnStep
<1>3. CASE IteratorScripted(c)
  <2>1. PICK sv \in ScriptResults(c, Iterated(c)) : new' = [new EXCEPT ![c] = sv]
    BY <1>3 DEF IteratorScripted
  <2>2. new[c] \in ValueSets /\ Authored(new[c])
    BY <1>3 DEF RecordsInv, TypeOK, Prepared, IteratorScripted
  <2>3. ASSUME NEW f \in Fields, NEW v \in {Iterated(c), NoValue},
               sv = [new[c] EXCEPT ![f] = v]
        PROVE  sv \in ValueSets /\ Authored(sv)
    BY <2>2, <2>3, SomebodyIsNotNobody DEF Authored, ValueSets
  <2>4. sv \in ValueSets /\ Authored(sv)
    BY <2>1, <2>2, <2>3 DEF ScriptResults
  <2>5. /\ TypeOK' /\ UNCHANGED Stored /\ Others
        /\ new'[c] = sv /\ old'[c] = old[c] /\ phase'[c] \in {"iterUpdating", "iterDeleting"}
    BY <1>3, <2>1, <2>4 DEF RecordsInv, TypeOK, IteratorScripted, Stored
  <2>7. row # "absent"
    BY <1>3 DEF RecordsInv, FoundExists, IteratorScripted
  <2>6. Prepared(c)' /\ Copied(c)' /\ ReadAsStored(c)'
    BY <2>4, <2>5 DEF RecordsInv, Prepared, Copied, ReadAsStored, Authored
  <2> QED
    BY <2>5, <2>6, <2>7, OwnStep
<1>4. CASE IteratorAborted(c)
  <2>1. /\ TypeOK' /\ UNCHANGED Stored /\ Others
        /\ new' = new /\ old' = old /\ phase'[c] \in {"iterUpdating", "iterDeleting"}
    BY <1>4 DEF RecordsInv, TypeOK, IteratorAborted, Stored
  <2>3. row # "absent"
    BY <1>4 DEF RecordsInv, FoundExists, IteratorAborted
  <2>2. Prepared(c)' /\ Copied(c)' /\ ReadAsStored(c)'
    BY <1>4, <2>1 DEF RecordsInv, Prepared, Copied, ReadAsStored, Authored, IteratorAborted
  <2> QED
    BY <2>1, <2>2, <2>3, OwnStep
<1>5. CASE StoreIteratorUpdate(c)
  <2>1. new[c] \in ValueSets /\ Authored(new[c])
    BY <1>5 DEF RecordsInv, TypeOK, Prepared, StoreIteratorUpdate
  <2> QED
    BY <1>5, <2>1, CommitHolds DEF StoreIteratorUpdate
<1>6. CASE StoreIteratorDelete(c)
  <2>1. values \in ValueSets /\ Authored(values)
    BY DEF RecordsInv, TypeOK, AuthorsMayUpdate, Authored
  <2> QED
    BY <1>6, <2>1, CommitHolds DEF StoreIteratorDelete
<1> QED
  BY <1>1, <1>2, <1>3, <1>4, <1>5, <1>6 DEF Iterator

\* What replaces a value is its author's to update.
LEMMA ReplacedIsAuthored ==
  ASSUME RecordsInv, NEW c \in Clients, NEW fs \in SUBSET Updatable[c]
  PROVE  Replaced(c, fs) \in ValueSets /\ Authored(Replaced(c, fs))
<1>1. Replaced(c, fs) \in ValueSets
  BY SomebodyIsNotNobody DEF RecordsInv, TypeOK, Replaced, ValueSets
<1>2. Authored(Replaced(c, fs))
  BY SomebodyIsNotNobody DEF RecordsInv, AuthorsMayUpdate, Replaced, Authored
<1> QED
  BY <1>1, <1>2

LEMMA OrganizeHolds ==
  ASSUME RecordsInv, NEW c \in Clients, Organize(c)
  PROVE  RecordsInv'
<1>1. CASE OrganizeLoads(c)
  BY <1>1, OnlyFinds DEF OrganizeLoads
<1>2. CASE StoreOrganize(c)
  <2>1. PICK fs \in SUBSET Updatable[c] : Commits(c, "live", Replaced(c, fs), hidden \ fs)
    BY <1>2 DEF StoreOrganize
  <2>2. hidden \ fs \subseteq Fields
    BY DEF RecordsInv, TypeOK
  <2> QED
    BY <2>1, <2>2, ReplacedIsAuthored, CommitHolds
<1>3. CASE ShiftFinds(c)
  BY <1>3, OnlyFinds DEF ShiftFinds
<1>4. CASE StoreShift(c)
  <2>1. PICK p \in Positions \cap Updatable[c] :
          Commits(c, row, Replaced(c, {p}), hidden \ {p})
    BY <1>4 DEF StoreShift
  <2>2. row \in {"live", "deleted"}
    BY <1>4 DEF RecordsInv, TypeOK, FoundExists, StoreShift
  <2>3. hidden \ {p} \subseteq Fields /\ {p} \in SUBSET Updatable[c]
    BY DEF RecordsInv, TypeOK
  <2>4. row = "deleted" => Fields \ (hidden \ {p}) \subseteq Positions
    BY DEF RecordsInv, OnlyPositionsOutliveTheRecord
  <2> QED
    BY <2>1, <2>2, <2>3, <2>4, ReplacedIsAuthored, CommitHolds
<1> QED
  BY <1>1, <1>2, <1>3, <1>4 DEF Organize

LEMMA FailsHolds ==
  ASSUME RecordsInv, NEW c \in Clients, Fails(c)
  PROVE  RecordsInv'
<1>1. NoValues \in ValueSets /\ Authored(NoValues)
  BY ReadsAreAuthored DEF RecordsInv
<1>2. /\ TypeOK' /\ UNCHANGED Stored
      /\ old'[c] = NoValues /\ phase'[c] = "idle" /\ row # "absent"
  BY <1>1 DEF RecordsInv, TypeOK, FoundExists, Fails, Ends, Stored
<1>3. Prepared(c)' /\ Copied(c)' /\ ReadAsStored(c)'
  BY <1>1, <1>2 DEF Prepared, Copied, ReadAsStored, Authored, Checked, Iterating
<1>4. \A d \in Clients \ {c} : /\ phase'[d] = phase[d] /\ old'[d] = old[d]
                              /\ new'[d] = new[d] /\ fresh'[d] = fresh[d]
  BY DEF RecordsInv, TypeOK, Fails, Ends
<1> QED
  BY <1>2, <1>3, <1>4, OwnStep

-----------------------------------------------------------------------------
LEMMA StepHolds ==
  ASSUME RecordsInv, [Next]_vars
  PROVE  RecordsInv'
<1>1. CASE UNCHANGED vars
  <2>1. TypeOK' /\ FoundExists' /\ AuthorsMayUpdate' /\ OnlyPositionsOutliveTheRecord'
    BY <1>1 DEF RecordsInv, vars, TypeOK, FoundExists, AuthorsMayUpdate,
                OnlyPositionsOutliveTheRecord
  <2>2. ASSUME NEW c \in Clients
        PROVE  Prepared(c)' /\ Copied(c)' /\ ReadAsStored(c)'
    BY <1>1 DEF RecordsInv, vars, Prepared, Copied, ReadAsStored, Authored, OthersAuthored, Visible
  <2> QED
    BY <2>1, <2>2 DEF RecordsInv
<1>2. ASSUME NEW c \in Clients,
             Create(c) \/ Update(c) \/ Delete(c) \/ Iterator(c) \/ Organize(c) \/ Fails(c)
      PROVE  RecordsInv'
  BY <1>2, CreateHolds, UpdateHolds, DeleteHolds, IteratorHolds, OrganizeHolds, FailsHolds
<1> QED
  BY <1>1, <1>2 DEF Next

\* What all the others follow from: types, what is stored, and for every request
\* that what it has read and is about to write is in order.
THEOREM RecordsInductive == Spec => []RecordsInv
<1> QED
  BY InitHolds, StepHolds, PTL DEF Spec

\* Nobody's value gets into a field that its author may not update, by any race of
\* any requests and scripts.
THEOREM AuthorsAreEntitled == Spec => []AuthorsMayUpdate
<1>1. RecordsInv => AuthorsMayUpdate
  BY DEF RecordsInv
<1> QED
  BY <1>1, RecordsInductive, PTL

\* A deleted record has no live values but in position fields.
THEOREM DeletesHideValues == Spec => []OnlyPositionsOutliveTheRecord
<1>1. RecordsInv => OnlyPositionsOutliveTheRecord
  BY DEF RecordsInv
<1> QED
  BY <1>1, RecordsInductive, PTL

\* An update stores what it has read of a field that it may not update, and that
\* is what it finds there if nobody has written.
THEOREM ReadValuesAreKept == Spec => KeepsReadValues
<1>1. ASSUME RecordsInv, NEW c \in Clients, phase[c] = "updating", StoreUpdate(c), fresh[c]
      PROVE  \A f \in Readable[c] \ Updatable[c] : Visible'[f] = Visible[f]
  <2>1. /\ \A f \in Fields \ Updatable[c] : new[c][f] = old[c][f]
        /\ \A f \in Readable[c] : old[c][f] = Visible[f]
    BY <1>1 DEF RecordsInv, Copied, ReadAsStored, Checked
  <2>2. Readable[c] \subseteq Fields
    BY PermissionAssumption
  <2>3. \A f \in Fields : Visible'[f] = new[c][f]
    BY <1>1 DEF StoreUpdate, Commits, Visible
  <2> QED
    BY <2>1, <2>2, <2>3
<1>2. RecordsInv =>
        [\A c \in Clients : phase[c] = "updating" /\ StoreUpdate(c) /\ fresh[c] =>
           \A f \in Readable[c] \ Updatable[c] : Visible'[f] = Visible[f]]_vars
  BY <1>1
<1> QED
  BY <1>2, RecordsInductive, PTL DEF KeepsReadValues

\* A deleted record that no request has in hand stays deleted: nobody finds it.
THEOREM DeletedIsFinal == Spec => DeletedStaysDeleted
<1> DEFINE Gone == row = "deleted" /\ \A c \in Clients : phase[c] = "idle"
<1>1. Gone /\ [Next]_vars => Gone'
  BY DEF Next, vars, Create, Update, UpdateLoads, UpdatePreloads, UpdateScripted,
         StoreUpdate, Delete, DeleteLoads, StoreDelete, Iterator, IteratorFinds,
         IteratorPreloads, IteratorScripted, IteratorAborted, StoreIteratorUpdate,
         StoreIteratorDelete, Organize, OrganizeLoads, StoreOrganize, ShiftFinds,
         StoreShift, Fails, Found
<1>2. Gone => row = "deleted"
  OBVIOUS
<1> HIDE DEF Gone
<1>3. [][Next]_vars => [](Gone => [](row = "deleted"))
  BY <1>1, <1>2, PTL
<1> USE DEF Gone
<1> QED
  BY <1>3, PTL DEF Spec, DeletedStaysDeleted

-----------------------------------------------------------------------------
(* One request for a record at a time *)

OneClient == \A c, d \in Clients : phase[c] # "idle" /\ phase[d] # "idle" => c = d

\* Then what a request has found is there until it ends.
SerialRecordsInv ==
  /\ row = "deleted" => hidden = Fields
  /\ \A c \in Clients : /\ phase[c] # "idle" => row = "live"
                        /\ phase[c] \in Checked => fresh[c]

\* A request that commits leaves none.
LEMMA CommitsAlone ==
  ASSUME RecordsInv, OneClient, NEW c \in Clients, NEW r, NEW vs, NEW h, Commits(c, r, vs, h),
         phase[c] # "idle" \/ row = "absent", r = "deleted" => h = Fields
  PROVE  SerialRecordsInv'
<1>1. \A d \in Clients : phase'[d] = "idle"
  BY DEF RecordsInv, TypeOK, FoundExists, OneClient, Commits, Ends
<1> QED
  BY <1>1 DEF SerialRecordsInv, Commits, Checked

LEMMA RecordsAlone ==
  ASSUME RecordsInv, SerialRecordsInv, OneClient, [Next]_vars
  PROVE  SerialRecordsInv' /\ (row = "deleted" => row' = "deleted")
<1> USE DEF RecordsInv, TypeOK, SerialRecordsInv, Checked
<1>1. CASE UNCHANGED vars
  BY <1>1 DEF vars
<1>2. ASSUME NEW c \in Clients,
             UpdateLoads(c) \/ DeleteLoads(c) \/ IteratorFinds(c) \/ OrganizeLoads(c)
               \/ ShiftFinds(c)
      PROVE  SerialRecordsInv' /\ row' = row
  BY <1>2 DEF UpdateLoads, DeleteLoads, IteratorFinds, OrganizeLoads, ShiftFinds, Found, Stored
<1>3. ASSUME NEW c \in Clients,
             UpdatePreloads(c) \/ UpdateScripted(c) \/ IteratorPreloads(c)
               \/ IteratorScripted(c) \/ IteratorAborted(c) \/ Fails(c)
      PROVE  SerialRecordsInv' /\ row' = row
  BY <1>3 DEF UpdatePreloads, UpdateScripted, IteratorPreloads, IteratorScripted,
              IteratorAborted, Fails, Ends, Stored
<1>4. ASSUME NEW c \in Clients,
             Create(c) \/ StoreUpdate(c) \/ StoreDelete(c) \/ StoreIteratorUpdate(c)
               \/ StoreIteratorDelete(c) \/ StoreOrganize(c) \/ StoreShift(c)
      PROVE  SerialRecordsInv' /\ row # "deleted"
  <2>1. phase[c] # "idle" \/ row = "absent"
    BY <1>4 DEF Create, StoreUpdate, StoreDelete, StoreIteratorUpdate, StoreIteratorDelete,
                StoreOrganize, StoreShift
  <2>2. row # "deleted"
    BY <2>1
  <2>3. PICK r, vs, h : Commits(c, r, vs, h) /\ (r = "deleted" => h = Fields)
    <3>1. CASE Create(c)
      BY <3>1 DEF Create
    <3>2. CASE StoreUpdate(c) \/ StoreIteratorUpdate(c) \/ StoreIteratorDelete(c)
      BY <3>2 DEF StoreUpdate, StoreIteratorUpdate, StoreIteratorDelete
    <3>3. CASE StoreDelete(c)
      BY <3>3 DEF StoreDelete
    <3>4. CASE StoreOrganize(c)
      BY <3>4 DEF StoreOrganize
    <3>5. CASE StoreShift(c)
      BY <2>2, <3>5 DEF StoreShift
    <3> QED
      BY <1>4, <3>1, <3>2, <3>3, <3>4, <3>5
  <2> HIDE DEF SerialRecordsInv, RecordsInv
  <2>4. SerialRecordsInv'
    BY <2>1, <2>3, CommitsAlone
  <2> QED
    BY <2>2, <2>4
<1> HIDE DEF SerialRecordsInv, RecordsInv
<1> QED
  BY <1>1, <1>2, <1>3, <1>4 DEF Next, Update, Delete, Iterator, Organize, vars

\* As long as there is one request at a time, a deleted record stays deleted, with all
\* its values, and an update keeps every value that its client may read and not
\* update (record.go): what goes wrong without is the work of races alone.
THEOREM SerialRecords ==
  Spec /\ []OneClient =>
    /\ [](row = "deleted" => hidden = Fields)
    /\ [][row = "deleted" => row' = "deleted"]_vars
    /\ [][\A c \in Clients : phase[c] = "updating" /\ StoreUpdate(c) =>
            \A f \in Readable[c] \ Updatable[c] : Visible'[f] = Visible[f]]_vars
<1>1. Init => SerialRecordsInv
  BY DEF Init, SerialRecordsInv, Checked
<1>2. RecordsInv /\ SerialRecordsInv /\ OneClient /\ [Next]_vars => SerialRecordsInv'
  BY RecordsAlone
<1>3. RecordsInv /\ SerialRecordsInv /\ OneClient /\ [Next]_vars =>
        [row = "deleted" => row' = "deleted"]_vars
  BY RecordsAlone
<1>4. SerialRecordsInv => (row = "deleted" => hidden = Fields)
  BY DEF SerialRecordsInv
<1>5. SerialRecordsInv /\
        [\A c \in Clients : phase[c] = "updating" /\ StoreUpdate(c) /\ fresh[c] =>
           \A f \in Readable[c] \ Updatable[c] : Visible'[f] = Visible[f]]_vars =>
        [\A c \in Clients : phase[c] = "updating" /\ StoreUpdate(c) =>
           \A f \in Readable[c] \ Updatable[c] : Visible'[f] = Visible[f]]_vars
  BY DEF SerialRecordsInv, Checked
<1> QED
  BY <1>1, <1>2, <1>3, <1>4, <1>5, RecordsInductive, ReadValuesAreKept, PTL
     DEF Spec, KeepsReadValues

-----------------------------------------------------------------------------
(* Modules *)

\* the row that Written makes of the i-th field of a plan
RowOf(plan, i) ==
  [id |-> IF plan[i].id = 0 THEN lastField + NewUpTo(plan, i) ELSE plan[i].id,
   name |-> plan[i].name, kind |-> plan[i].kind, place |-> i]

\* No two rows agree in a column that is unique.
Unique(rows) ==
  \A f, g \in rows : f # g => f.id # g.id /\ f.name # g.name /\ f.place # g.place

\* Ids are given in order.
Numbered == \A f \in fields : f.id <= lastField

\* What an update has found is so until another request writes a module.
UpdateFound(r) ==
  /\ \A i \in DOMAIN r.plan : r.plan[i].id <= lastField
  /\ ~r.raced =>
       /\ HandleIsFree(r.handle)
       /\ r.gone = Missing(r.plan)
       /\ \A i \in DOMAIN r.plan : r.plan[i].id # 0 =>
            \E e \in fields : /\ e.id = r.plan[i].id
                              /\ r.had => e.name = r.plan[i].name /\ e.kind = r.plan[i].kind

\* and so is what a create has.
CreateFound(r) ==
  /\ r.handle \in Handles
  /\ ~r.raced => OthersHandleIsFree(r.handle)

RequestsFound ==
  \A q \in Requests :
    /\ req[q].op = "update" => UpdateFound(req[q])
    /\ req[q].op = "create" => CreateFound(req[q])

ModulesInv == ModulesTypeOK /\ Numbered /\ RequestsFound

-----------------------------------------------------------------------------
(* Induction over an interval, and what it shows of Written *)

\* A set that has 0 and, with each number below n, the next one has all up to n.
LEMMA UpTo ==
  ASSUME NEW n \in Nat, NEW T, 0 \in T, \A i \in 1..n : i - 1 \in T => i \in T
  PROVE  \A i \in 0..n : i \in T
<1> DEFINE R == {ss \in Nat \X Nat : ss[1] < ss[2]}
           B == {i \in 0..n : i \notin T}
<1>1. IsWellFoundedOn(R, Nat)
  <2>1. OpToRel(<, Nat) = R
    BY DEF OpToRel
  <2> QED BY <2>1, NatLessThanWellFounded
<1> SUFFICES ASSUME B # {} PROVE FALSE
  OBVIOUS
<1>2. PICK x \in B : \A y \in B : ~ (<<y, x>> \in R)
  <2>1. B \subseteq Nat
    OBVIOUS
  <2> HIDE DEF R, B
  <2> QED BY <1>1, <2>1, WFMin
<1>3. x \in 1..n /\ x - 1 \in 0..n
  OBVIOUS
<1>4. x - 1 \notin B
  <2>1. <<x - 1, x>> \in R
    BY <1>3
  <2> HIDE DEF R, B
  <2> QED BY <1>2, <2>1
<1> QED BY <1>3, <1>4

\* The recursion of Written ...
Solves(rows, n, base, plan) ==
  rows = [i \in 0..n |-> IF i = 0 THEN base ELSE Replace(rows[i - 1], RowOf(plan, i))]

\* ... has a solution ...
LEMMA RowsExist ==
  ASSUME NEW n \in Nat, NEW base, NEW plan
  PROVE  \E rows : Solves(rows, n, base, plan)
<1> DEFINE T == {k \in 0..n : \E rows : Solves(rows, k, base, plan)}
<1>1. 0 \in T
  <2> DEFINE z == [i \in 0..0 |-> base]
  <2>1. z = [i \in 0..0 |-> IF i = 0 THEN base ELSE Replace(z[i - 1], RowOf(plan, i))]
    OBVIOUS
  <2> HIDE DEF z
  <2>2. Solves(z, 0, base, plan)
    BY <2>1 DEF Solves
  <2> QED BY <2>2
<1>2. ASSUME NEW k \in 1..n, k - 1 \in T PROVE k \in T
  <2>1. PICK f : f = [i \in 0..(k - 1) |-> IF i = 0 THEN base
                                           ELSE Replace(f[i - 1], RowOf(plan, i))]
    BY <1>2 DEF Solves
  <2> DEFINE g == [i \in 0..k |-> IF i = k THEN Replace(f[k - 1], RowOf(plan, k)) ELSE f[i]]
  <2>2. \A i \in 0..k : g[i] = IF i = 0 THEN base ELSE Replace(g[i - 1], RowOf(plan, i))
    <3> SUFFICES ASSUME NEW i \in 0..k
                 PROVE  g[i] = IF i = 0 THEN base ELSE Replace(g[i - 1], RowOf(plan, i))
      OBVIOUS
    <3>1. CASE i = k
      <4>1. k # 0 /\ k - 1 \in 0..k /\ k - 1 # k
        OBVIOUS
      <4>2. g[k - 1] = f[k - 1] /\ g[k] = Replace(f[k - 1], RowOf(plan, k))
        BY <4>1
      <4> HIDE DEF g
      <4> QED BY <3>1, <4>1, <4>2
    <3>2. CASE i # k
      <4>1. i \in 0..(k - 1) /\ g[i] = f[i]
        BY <3>2
      <4>2. f[i] = IF i = 0 THEN base ELSE Replace(f[i - 1], RowOf(plan, i))
        BY <2>1, <4>1
      <4>3. i # 0 => g[i - 1] = f[i - 1]
        BY <3>2
      <4> HIDE DEF g
      <4> QED BY <4>1, <4>2, <4>3
    <3> QED BY <3>1, <3>2
  <2>3. g = [i \in 0..k |-> IF i = 0 THEN base ELSE Replace(g[i - 1], RowOf(plan, i))]
    <3>1. g = [i \in 0..k |-> g[i]]
      OBVIOUS
    <3> HIDE DEF g
    <3> QED BY <2>2, <3>1
  <2> HIDE DEF g
  <2>4. Solves(g, k, base, plan)
    BY <2>3 DEF Solves
  <2> QED BY <2>4
<1>3. \A k \in 0..n : k \in T
  <2> HIDE DEF T
  <2> QED BY <1>1, <1>2, UpTo
<1> QED BY <1>3

\* ... so that Written is the last of the sets of rows that it describes.
LEMMA WrittenInSteps ==
  ASSUME NEW plan \in Lists, NEW gone
  PROVE  \E rows :
           /\ rows[0] = {e \in fields : e.id \notin gone}
           /\ \A i \in 1..Len(plan) : rows[i] = Replace(rows[i - 1], RowOf(plan, i))
           /\ Written(plan, gone) = rows[Len(plan)]
<1> DEFINE base == {e \in fields : e.id \notin gone}
           n == Len(plan)
           rows == CHOOSE rows : rows = [i \in 0..n |-> IF i = 0 THEN base
                                           ELSE Replace(rows[i - 1], RowOf(plan, i))]
<1>1. n \in Nat
  BY ModulesAssumption DEF Lists
<1>2. rows = [i \in 0..n |-> IF i = 0 THEN base ELSE Replace(rows[i - 1], RowOf(plan, i))]
  <2> HIDE DEF base, n
  <2>1. \E f : Solves(f, n, base, plan)
    BY <1>1, RowsExist
  <2>2. rows = CHOOSE f : Solves(f, n, base, plan)
    BY DEF Solves
  <2> HIDE DEF rows
  <2>3. Solves(rows, n, base, plan)
    BY <2>1, <2>2
  <2> QED BY <2>3 DEF Solves
<1>3. Written(plan, gone) = rows[n]
  BY DEF Written, RowOf
<1>4. rows[0] = base /\ \A i \in 1..n : rows[i] = Replace(rows[i - 1], RowOf(plan, i))
  <2> HIDE DEF rows, base, n
  <2> QED BY <1>1, <1>2
<1> HIDE DEF rows
<1> QED BY <1>3, <1>4

-----------------------------------------------------------------------------
(* Ids *)

LEMMA ListType ==
  ASSUME NEW plan \in Lists
  PROVE  /\ Len(plan) \in 0..MaxList /\ Len(plan) \in Nat
         /\ plan \in [1..Len(plan) -> Listed] /\ DOMAIN plan = 1..Len(plan)
BY ModulesAssumption DEF Lists

\* Every new field of a plan counts.
LEMMA NewCounts ==
  ASSUME NEW plan, NEW i \in Nat
  PROVE  /\ NewUpTo(plan, i) \in Nat
         /\ \A j \in Nat : i <= j => NewUpTo(plan, i) <= NewUpTo(plan, j)
         /\ \A j \in Nat : i < j /\ plan[j].id = 0 => NewUpTo(plan, i) < NewUpTo(plan, j)
<1> DEFINE N(k) == {m \in 1..k : plan[m].id = 0}
<1>1. \A k \in Nat : IsFiniteSet(N(k)) /\ Cardinality(N(k)) \in Nat
  <2> SUFFICES ASSUME NEW k \in Nat PROVE IsFiniteSet(N(k)) /\ Cardinality(N(k)) \in Nat
    OBVIOUS
  <2>1. IsFiniteSet(1..k)
    BY FS_Interval
  <2>2. N(k) \subseteq 1..k
    OBVIOUS
  <2> HIDE DEF N
  <2> QED BY <2>1, <2>2, FS_Subset, FS_CardinalityType
<1>2. ASSUME NEW j \in Nat, i <= j PROVE Cardinality(N(i)) <= Cardinality(N(j))
  <2>1. N(i) \subseteq N(j)
    BY <1>2
  <2> HIDE DEF N
  <2> QED BY <1>1, <2>1, FS_Subset
<1>3. ASSUME NEW j \in Nat, i < j, plan[j].id = 0
      PROVE  Cardinality(N(i)) < Cardinality(N(j))
  <2>1. N(i) \subseteq N(j) /\ j \in N(j) /\ j \notin N(i)
    BY <1>3
  <2> HIDE DEF N
  <2>2. N(i) # N(j)
    BY <2>1
  <2>3. Cardinality(N(i)) <= Cardinality(N(j)) /\ (Cardinality(N(i)) = Cardinality(N(j)) => N(i) = N(j))
    BY <1>1, <2>1, FS_Subset
  <2> QED BY <1>1, <2>2, <2>3
<1> QED BY <1>1, <1>2, <1>3 DEF NewUpTo

\* The rows of a plan are rows, with ids that go no further than the last one.
LEMMA RowsOfPlan ==
  ASSUME lastField \in Nat, NEW plan \in Lists, NEW i \in 1..Len(plan),
         lastField + NewUpTo(plan, Len(plan)) <= MaxFields
  PROVE  /\ RowOf(plan, i) \in FieldRow
         /\ plan[i].id <= lastField => RowOf(plan, i).id <= lastField + NewUpTo(plan, Len(plan))
<1>1. /\ plan[i] \in Listed /\ i \in 1..MaxList /\ i \in Nat /\ Len(plan) \in Nat
      /\ i <= Len(plan)
  BY ListType, ModulesAssumption
<1>2. /\ NewUpTo(plan, i) \in Nat /\ NewUpTo(plan, Len(plan)) \in Nat
      /\ NewUpTo(plan, i) <= NewUpTo(plan, Len(plan))
  BY <1>1, NewCounts
<1>3. plan[i].id = 0 => NewUpTo(plan, i) >= 1
  <2>1. 0 \in Nat /\ 0 < i
    BY <1>1
  <2>2. NewUpTo(plan, 0) \in Nat /\ (plan[i].id = 0 => NewUpTo(plan, 0) < NewUpTo(plan, i))
    BY <1>1, <2>1, NewCounts
  <2> QED BY <1>2, <2>2
<1>4. plan[i].id \in 0..MaxFields /\ plan[i].name \in Names /\ plan[i].kind \in Kinds
  BY <1>1 DEF Listed
<1> QED BY <1>1, <1>2, <1>3, <1>4, ModulesAssumption DEF RowOf, FieldRow

\* Two rows of a plan that names no field twice have different ids.
LEMMA RowsDiffer ==
  ASSUME lastField \in Nat, NEW plan \in Lists, NoneTwice(plan),
         \A i \in DOMAIN plan : plan[i].id <= lastField,
         NEW i \in 1..Len(plan), NEW j \in 1..Len(plan), i # j
  PROVE  RowOf(plan, i).id # RowOf(plan, j).id /\ RowOf(plan, i).name # RowOf(plan, j).name
<1>1. /\ i \in DOMAIN plan /\ j \in DOMAIN plan
      /\ plan[i].id \in Nat /\ plan[j].id \in Nat
      /\ i \in Nat /\ j \in Nat /\ i >= 1 /\ j >= 1
  BY ListType, ModulesAssumption DEF Listed
<1>2. /\ plan[i].name # plan[j].name
      /\ plan[i].id # plan[j].id \/ plan[i].id = 0
      /\ plan[i].id <= lastField /\ plan[j].id <= lastField
  BY <1>1 DEF NoneTwice
<1>3. /\ NewUpTo(plan, i) \in Nat /\ NewUpTo(plan, j) \in Nat /\ NewUpTo(plan, 0) \in Nat
      /\ plan[i].id = 0 => NewUpTo(plan, 0) < NewUpTo(plan, i)
      /\ plan[j].id = 0 => NewUpTo(plan, 0) < NewUpTo(plan, j)
      /\ plan[j].id = 0 /\ i < j => NewUpTo(plan, i) < NewUpTo(plan, j)
      /\ plan[i].id = 0 /\ j < i => NewUpTo(plan, j) < NewUpTo(plan, i)
  <2>1. 0 \in Nat /\ 0 < i /\ 0 < j
    BY <1>1
  <2> QED BY <1>1, <2>1, NewCounts
<1> QED BY <1>1, <1>2, <1>3 DEF RowOf

-----------------------------------------------------------------------------
(* What is written *)

\* Whatever the plan, what REPLACE leaves is rows with ids, names and places of
\* their own.
LEMMA WrittenIsUnique ==
  ASSUME lastField \in Nat, NEW plan \in Lists, NEW gone,
         fields \subseteq FieldRow, Unique(fields), Numbered,
         \A i \in DOMAIN plan : plan[i].id <= lastField,
         lastField + NewUpTo(plan, Len(plan)) <= MaxFields
  PROVE  /\ Written(plan, gone) \subseteq FieldRow /\ Unique(Written(plan, gone))
         /\ \A f \in Written(plan, gone) : f.id <= lastField + NewUpTo(plan, Len(plan))
<1> DEFINE n == Len(plan)
           top == lastField + NewUpTo(plan, n)
<1>1. PICK rows :
        /\ rows[0] = {e \in fields : e.id \notin gone}
        /\ \A i \in 1..n : rows[i] = Replace(rows[i - 1], RowOf(plan, i))
        /\ Written(plan, gone) = rows[n]
  BY WrittenInSteps
<1> DEFINE T == {i \in 0..n : /\ rows[i] \subseteq FieldRow /\ Unique(rows[i])
                             /\ \A f \in rows[i] : f.id <= top}
<1>2. n \in Nat /\ top \in Nat /\ lastField <= top
  BY ListType, NewCounts
<1>3. 0 \in T
  <2>1. rows[0] \subseteq FieldRow /\ Unique(rows[0])
    BY <1>1 DEF Unique
  <2>2. \A f \in rows[0] : f.id \in Nat /\ f.id <= lastField
    BY <1>1 DEF Numbered, FieldRow
  <2> HIDE DEF top
  <2> QED BY <1>2, <2>1, <2>2
<1>4. ASSUME NEW i \in 1..n, i - 1 \in T PROVE i \in T
  <2>1. RowOf(plan, i) \in FieldRow /\ RowOf(plan, i).id <= top
    BY ListType, RowsOfPlan
  <2>2. rows[i] = Replace(rows[i - 1], RowOf(plan, i))
    BY <1>1
  <2> HIDE DEF top
  <2>3. rows[i] \subseteq FieldRow /\ \A f \in rows[i] : f.id <= top
    BY <1>4, <2>1, <2>2 DEF Replace
  <2>4. Unique(rows[i])
    BY <1>4, <2>2 DEF Replace, Unique
  <2> QED BY <2>3, <2>4
<1>5. \A i \in 0..n : i \in T
  <2> HIDE DEF T, n
  <2> QED BY <1>2, <1>3, <1>4, UpTo
<1>6. n \in T
  <2> HIDE DEF T
  <2> QED BY <1>2, <1>5
<1> QED BY <1>1, <1>6

\* When what is not listed is gone and nothing is listed twice, what is written
\* is the list.
LEMMA WrittenIsTheList ==
  ASSUME lastField \in Nat, NEW plan \in Lists, NoneTwice(plan),
         fields \subseteq FieldRow,
         \A i \in DOMAIN plan : plan[i].id <= lastField
  PROVE  Written(plan, Missing(plan)) = {RowOf(plan, i) : i \in 1..Len(plan)}
<1> DEFINE n == Len(plan)
           base == {e \in fields : e.id \notin Missing(plan)}
<1>1. PICK rows :
        /\ rows[0] = base
        /\ \A i \in 1..n : rows[i] = Replace(rows[i - 1], RowOf(plan, i))
        /\ Written(plan, Missing(plan)) = rows[n]
  BY WrittenInSteps
<1>2. n \in Nat /\ DOMAIN plan = 1..n
  BY ListType
\* The rows of the list so far, and rows that were there before.
<1> DEFINE T == {i \in 0..n :
                   /\ \A j \in 1..i : RowOf(plan, j) \in rows[i]
                   /\ \A g \in rows[i] :
                        \/ \E j \in 1..i : g = RowOf(plan, j)
                        \/ g \in base /\ \A j \in 1..i : g.id # RowOf(plan, j).id}
<1>3. 0 \in T
  BY <1>1, <1>2
<1>4. ASSUME NEW i \in 1..n, i - 1 \in T PROVE i \in T
  <2>0. i \in Nat /\ i - 1 \in 0..n /\ 1..i = 1..(i - 1) \cup {i}
    BY <1>2
  <2>1. rows[i] = {g \in rows[i - 1] : /\ g.id # RowOf(plan, i).id
                                      /\ g.name # RowOf(plan, i).name
                                      /\ g.place # RowOf(plan, i).place} \cup {RowOf(plan, i)}
    BY <1>1 DEF Replace
  <2>2. ASSUME NEW j \in 1..(i - 1)
        PROVE  /\ RowOf(plan, j).id # RowOf(plan, i).id
               /\ RowOf(plan, j).name # RowOf(plan, i).name
               /\ RowOf(plan, j).place # RowOf(plan, i).place
    <3>1. j \in 1..n /\ j # i
      BY <1>2
    <3>2. RowOf(plan, j).place # RowOf(plan, i).place
      BY <3>1 DEF RowOf
    <3> QED BY <3>1, <3>2, RowsDiffer
  <2>3. \A j \in 1..(i - 1) : RowOf(plan, j) \in rows[i - 1]
    BY <1>4
  <2>4. \A j \in 1..i : RowOf(plan, j) \in rows[i]
    BY <2>0, <2>1, <2>2, <2>3
  <2>5. ASSUME NEW g \in rows[i]
        PROVE  \/ \E j \in 1..i : g = RowOf(plan, j)
               \/ g \in base /\ \A j \in 1..i : g.id # RowOf(plan, j).id
    <3>1. CASE g = RowOf(plan, i)
      BY <2>0, <3>1
    <3>2. CASE g \in rows[i - 1] /\ g.id # RowOf(plan, i).id
      <4>1. \/ \E j \in 1..(i - 1) : g = RowOf(plan, j)
            \/ g \in base /\ \A j \in 1..(i - 1) : g.id # RowOf(plan, j).id
        BY <1>4, <3>2
      <4> HIDE DEF base
      <4> QED BY <2>0, <3>2, <4>1
    <3> QED BY <2>1, <3>1, <3>2
  <2> QED BY <2>0, <2>4, <2>5
<1>5. n \in T
  <2>1. \A i \in 0..n : i \in T
    <3> HIDE DEF T, n
    <3> QED BY <1>2, <1>3, <1>4, UpTo
  <2> HIDE DEF T
  <2> QED BY <1>2, <2>1
<1>6. ASSUME NEW g \in base PROVE \E j \in 1..n : g.id = RowOf(plan, j).id
  <2>1. g.id \in IdsOf(plan) /\ g.id # 0
    BY DEF Missing, FieldRow
  <2>2. PICK j \in 1..n : plan[j].id = g.id
    BY <1>2, <2>1 DEF IdsOf
  <2> QED BY <2>1, <2>2 DEF RowOf
<1>7. rows[n] = {RowOf(plan, i) : i \in 1..n}
  <2>1. /\ \A j \in 1..n : RowOf(plan, j) \in rows[n]
        /\ \A g \in rows[n] :
             \/ \E j \in 1..n : g = RowOf(plan, j)
             \/ g \in base /\ \A j \in 1..n : g.id # RowOf(plan, j).id
    BY <1>5
  <2> HIDE DEF base, n
  <2> QED BY <1>6, <2>1
<1> QED BY <1>1, <1>7

-----------------------------------------------------------------------------
(* Requests *)

\* What the kinds of requests are made of.
LEMMA RequestType ==
  ASSUME NEW r \in Request
  PROVE  /\ r.op = "update" =>
              /\ r.plan \in Lists /\ r.gone \in SUBSET (1..MaxFields)
              /\ r.handle \in Handles \cup {NoHandle} /\ r.had \in BOOLEAN
              /\ [r EXCEPT !.raced = TRUE] \in Request
              /\ [r EXCEPT !.raced = TRUE].plan = r.plan
         /\ r.op = "create" =>
              /\ [r EXCEPT !.raced = TRUE] \in Request
              /\ [r EXCEPT !.raced = TRUE].handle = r.handle
         /\ r.op \in {"update", "create"} =>
              /\ [r EXCEPT !.raced = TRUE].raced
              /\ [r EXCEPT !.raced = TRUE].op = r.op
         /\ r.op = "insert" => r.value \in NamedValues
BY DEF Request

LEMMA IdleIsRequest == Idle \in Request /\ Idle.op = "idle"
BY DEF Idle, Request

\* A request that writes nothing but its own state.
LEMMA OneRequest ==
  ASSUME ModulesInv, NEW q \in Requests, NEW r \in Request,
         req' = [req EXCEPT ![q] = r], UNCHANGED rowVars, held' \subseteq NamedValues,
         r.op = "update" => UpdateFound(r),
         r.op = "create" => CreateFound(r)
  PROVE  ModulesInv'
<1>1. ModulesTypeOK'
  BY DEF ModulesInv, ModulesTypeOK, rowVars
<1>2. Numbered'
  BY DEF ModulesInv, Numbered, rowVars
<1>3. ASSUME NEW p \in Requests
      PROVE  /\ req'[p].op = "update" => UpdateFound(req[p])' 
             /\ req'[p].op = "create" => CreateFound(req[p])'
  <2>1. req'[p] = IF p = q THEN r ELSE req[p]
    BY DEF ModulesInv, ModulesTypeOK
  <2>2. /\ req'[p].op = "update" => UpdateFound(req'[p])
        /\ req'[p].op = "create" => CreateFound(req'[p])
    BY <2>1 DEF ModulesInv, RequestsFound
  <2>3. UNCHANGED <<alive, handle, other, fields, lastField>>
    BY DEF rowVars
  <2> QED BY <2>2, <2>3
           DEF UpdateFound, CreateFound, HandleIsFree, OthersHandleIsFree, Missing
<1> QED BY <1>1, <1>2, <1>3 DEF ModulesInv, RequestsFound

\* A request that has written races all others; what it wrote they do not know.
LEMMA OthersAreRaced ==
  ASSUME ModulesTypeOK, RequestsFound, NEW q \in Requests, EndsWriting(q),
         lastField' \in Nat, lastField <= lastField'
  PROVE  req' \in [Requests -> Request] /\ RequestsFound'
<1>1. ASSUME NEW p \in Requests
      PROVE  /\ req'[p] \in Request
             /\ req'[p].op = "update" => UpdateFound(req[p])'
             /\ req'[p].op = "create" => CreateFound(req[p])'
  <2>0. /\ req[p] \in Request /\ lastField \in Nat
        /\ req'[p] = IF p = q THEN Idle
                     ELSE IF req[p].op \in {"update", "create"}
                          THEN [req[p] EXCEPT !.raced = TRUE] ELSE req[p]
    BY ModulesAssumption DEF ModulesTypeOK, EndsWriting
  <2>1. CASE p # q /\ req[p].op = "update"
    <3>1. /\ req'[p] \in Request /\ req'[p].raced /\ req'[p].op = "update"
          /\ req'[p].plan = req[p].plan /\ req[p].plan \in Lists
      BY <2>0, <2>1, RequestType
    <3>2. \A i \in DOMAIN req[p].plan : req[p].plan[i].id <= lastField
      BY <2>1 DEF RequestsFound, UpdateFound
    <3>3. \A i \in DOMAIN req[p].plan : req[p].plan[i].id \in Nat
      BY <3>1, ListType, ModulesAssumption DEF Listed
    <3>4. \A i \in DOMAIN req[p].plan : req[p].plan[i].id <= lastField'
      BY <2>0, <3>2, <3>3
    <3> QED BY <3>1, <3>4 DEF UpdateFound
  <2>2. CASE p # q /\ req[p].op = "create"
    <3>1. /\ req'[p] \in Request /\ req'[p].raced /\ req'[p].op = "create"
          /\ req'[p].handle = req[p].handle
      BY <2>0, <2>2, RequestType
    <3>2. req[p].handle \in Handles
      BY <2>2 DEF RequestsFound, CreateFound
    <3> QED BY <3>1, <3>2 DEF CreateFound
  <2>3. CASE p = q \/ req[p].op \notin {"update", "create"}
    BY <2>0, <2>3, IdleIsRequest
  <2> QED BY <2>1, <2>2, <2>3
<1>2. req' \in [Requests -> Request]
  BY <1>1 DEF EndsWriting
<1> QED BY <1>1, <1>2 DEF RequestsFound

LEMMA BeginUpdateKeeps ==
  ASSUME ModulesInv, NEW q \in Requests, NEW sent, NEW h \in Handles \cup {NoHandle},
         NEW n \in 0..MaxList, NEW list \in [1..n -> Known], BeginUpdate(q, sent, h, list)
  PROVE  ModulesInv'
<1> USE DEF ModulesInv
<1> DEFINE plan == [i \in DOMAIN list |-> Resolved(list[i], held # {})]
           r == [op |-> "update", plan |-> plan, gone |-> Missing(list), handle |-> h,
                 had |-> held # {}, raced |-> FALSE]
<1>1. DOMAIN list = 1..n /\ DOMAIN plan = 1..n /\ n \in Nat
  BY ModulesAssumption
<1>2. ASSUME NEW i \in 1..n
      PROVE  /\ plan[i] \in Listed
             /\ plan[i].id # 0 =>
                  /\ plan[i].id = list[i].id
                  /\ \E e \in fields : /\ e.id = plan[i].id
                                       /\ held # {} => e.name = plan[i].name /\ e.kind = plan[i].kind
             /\ \A e \in fields : e.id = list[i].id => plan[i].id = e.id
  <2> DEFINE f == list[i]
  <2>1. f \in Listed /\ plan[i] = Resolved(f, held # {})
    BY <1>1 DEF Known
  <2>2. \A e \in fields : e.id \in 1..MaxFields /\ e.name \in Names /\ e.kind \in Kinds
    BY DEF ModulesTypeOK, FieldRow
  <2> HIDE DEF f, plan
  <2>3. CASE \E e \in fields : e.id = f.id
    <3>1. PICK e \in fields :
            /\ e.id = f.id
            /\ Resolved(f, held # {}) =
                 IF held # {} THEN [id |-> e.id, name |-> e.name, kind |-> e.kind] ELSE f
      BY <2>3 DEF Resolved
    <3>2. plan[i].id = f.id /\ plan[i] \in Listed
          /\ (held # {} => e.name = plan[i].name /\ e.kind = plan[i].kind)
      BY <2>1, <2>2, <3>1, ModulesAssumption DEF Listed
    <3> QED BY <3>1, <3>2 DEF f
  <2>4. CASE ~ \E e \in fields : e.id = f.id
    <3>1. plan[i] = [f EXCEPT !.id = 0]
      BY <2>1, <2>4 DEF Resolved
    <3>2. plan[i] \in Listed /\ plan[i].id = 0
      BY <2>1, <3>1, ModulesAssumption DEF Listed
    <3> QED BY <2>4, <3>2 DEF f
  <2> QED BY <2>3, <2>4
<1>3. plan \in Lists
  <2>1. plan \in [1..n -> Listed]
    <3>1. plan = [i \in 1..n |-> plan[i]]
      BY <1>1
    <3> HIDE DEF plan
    <3> QED BY <1>2, <3>1
  <2> HIDE DEF plan
  <2> QED BY <2>1 DEF Lists
<1> HIDE DEF plan
<1>4. Missing(list) = Missing(plan) /\ Missing(list) \in SUBSET (1..MaxFields)
  <2>1. \A e \in fields : e.id \in 1..MaxFields /\ e.id # 0
    BY ModulesAssumption DEF ModulesTypeOK, FieldRow
  <2>2. \A e \in fields : e.id \in IdsOf(list) <=> e.id \in IdsOf(plan)
    BY <1>1, <1>2, <2>1 DEF IdsOf
  <2> QED BY <2>1, <2>2 DEF Missing
<1>5. r \in Request /\ r.op = "update" /\ r.plan = plan /\ r.gone = Missing(list)
      /\ r.handle = h /\ r.had = (held # {})
  BY <1>3, <1>4 DEF Request
<1>6. UpdateFound(r)
  <2>1. \A i \in DOMAIN plan : plan[i].id <= lastField
    <3>1. \A e \in fields : e.id <= lastField
      BY DEF Numbered
    <3>2. 0 <= lastField
      BY ModulesAssumption DEF ModulesTypeOK
    <3> QED BY <1>1, <1>2, <3>1, <3>2
  <2>2. HandleIsFree(h)
    BY DEF BeginUpdate
  <2> HIDE DEF r
  <2> QED BY <1>1, <1>2, <1>4, <1>5, <2>1, <2>2 DEF UpdateFound
<1>7. req' = [req EXCEPT ![q] = r] /\ UNCHANGED <<rowVars, held>>
  BY DEF BeginUpdate, Begins, plan
<1>8. held' \subseteq NamedValues /\ r.op # "create"
  BY <1>7 DEF ModulesTypeOK
<1> HIDE DEF r
<1> QED BY <1>5, <1>6, <1>7, <1>8, OneRequest

LEMMA CommitUpdateKeeps ==
  ASSUME ModulesInv, NEW q \in Requests, CommitUpdate(q)
  PROVE  ModulesInv'
<1> USE DEF ModulesInv
<1> DEFINE plan == req[q].plan
           gone == req[q].gone
           top == lastField + NewUpTo(plan, Len(plan))
<1>1. /\ req[q] \in Request /\ req[q].op = "update" /\ plan \in Lists
      /\ req[q].handle \in Handles \cup {NoHandle}
  BY RequestType DEF ModulesTypeOK, CommitUpdate
<1>2. /\ top <= MaxFields /\ alive' = TRUE /\ handle' = req[q].handle
      /\ updated' \in Version..MaxTime /\ fields' = Written(plan, gone)
      /\ lastField' = top /\ EndsWriting(q) /\ UNCHANGED <<other, held>>
  BY DEF CommitUpdate
<1>3. \A i \in DOMAIN plan : plan[i].id <= lastField
  BY <1>1 DEF RequestsFound, UpdateFound
<1>4. lastField \in Nat /\ Len(plan) \in Nat /\ NewUpTo(plan, Len(plan)) \in Nat
  BY <1>1, ListType, NewCounts, ModulesAssumption DEF ModulesTypeOK
<1>5. /\ Written(plan, gone) \subseteq FieldRow /\ Unique(Written(plan, gone))
      /\ \A f \in Written(plan, gone) : f.id <= top
  <2>1. fields \subseteq FieldRow /\ Unique(fields)
    BY DEF ModulesTypeOK, Unique
  <2> HIDE DEF plan, gone
  <2> QED BY <1>1, <1>2, <1>3, <1>4, <2>1, WrittenIsUnique
<1> HIDE DEF plan, gone
<1>6. lastField' \in Nat /\ lastField <= lastField' /\ lastField' \in 0..MaxFields
  BY <1>2, <1>4, ModulesAssumption
<1>7. req' \in [Requests -> Request] /\ RequestsFound'
  BY <1>2, <1>6, OthersAreRaced
<1>8. updated' \in 0..MaxTime
  <2>1. Version \in Nat
    BY ModulesAssumption DEF Version, Created, ModulesTypeOK
  <2> QED BY <1>2, <2>1, ModulesAssumption
<1>9. ModulesTypeOK'
  BY <1>1, <1>2, <1>5, <1>6, <1>7, <1>8 DEF ModulesTypeOK, Unique
<1>10. Numbered'
  BY <1>2, <1>5 DEF Numbered
<1> QED BY <1>7, <1>9, <1>10

LEMMA BeginCreateKeeps ==
  ASSUME ModulesInv, NEW q \in Requests, NEW h \in Handles, BeginCreate(q, h)
  PROVE  ModulesInv'
<1> DEFINE r == [op |-> "create", handle |-> h, raced |-> FALSE]
<1>1. r \in Request /\ r.op = "create"
  BY DEF Request
<1>2. CreateFound(r)
  BY DEF CreateFound, BeginCreate
<1>3. req' = [req EXCEPT ![q] = r] /\ UNCHANGED rowVars /\ held' \subseteq NamedValues
  BY DEF BeginCreate, Begins, ModulesInv, ModulesTypeOK
<1> HIDE DEF r
<1> QED BY <1>1, <1>2, <1>3, OneRequest

\* Fail, BeginDelete and the requests that insert a record
LEMMA OtherRequestsKeep ==
  ASSUME ModulesInv, NEW q \in Requests,
         Fail(q) \/ BeginDelete(q) \/ BeginInsert(q) \/ CommitInsert(q)
  PROVE  ModulesInv'
<1> USE DEF ModulesInv
<1>1. PICK r \in Request :
        /\ r.op \notin {"update", "create"}
        /\ req' = [req EXCEPT ![q] = r] /\ UNCHANGED rowVars /\ held' \subseteq NamedValues
  <2>1. CASE Fail(q)
    BY <2>1, IdleIsRequest DEF Fail, ModulesTypeOK
  <2>2. CASE BeginDelete(q)
    <3>1. PICK o \in {"delete main", "delete other"} : Begins(q, [op |-> o])
      BY <2>2 DEF BeginDelete
    <3>2. [op |-> o] \in Request
      BY DEF Request
    <3> QED BY <3>1, <3>2 DEF Begins, ModulesTypeOK
  <2>3. CASE BeginInsert(q)
    <3>1. PICK f \in fields : Begins(q, [op |-> "insert", value |-> <<f.name, f.kind>>])
      BY <2>3 DEF BeginInsert
    <3>2. <<f.name, f.kind>> \in NamedValues
      BY DEF ModulesTypeOK, FieldRow, NamedValues
    <3>3. [op |-> "insert", value |-> <<f.name, f.kind>>] \in Request
      BY <3>2 DEF Request
    <3> QED BY <3>1, <3>3 DEF Begins, ModulesTypeOK
  <2>4. CASE CommitInsert(q)
    <3>1. req[q].value \in NamedValues
      BY <2>4, RequestType DEF CommitInsert, ModulesTypeOK
    <3> QED BY <2>4, <3>1, IdleIsRequest DEF CommitInsert, ModulesTypeOK
  <2> QED BY <2>1, <2>2, <2>3, <2>4
<1> QED BY <1>1, OneRequest

\* CommitCreate and CommitDelete: fields and their ids stay.
LEMMA OtherWritesKeep ==
  ASSUME ModulesInv, NEW q \in Requests, CommitCreate(q) \/ CommitDelete(q)
  PROVE  ModulesInv'
<1> USE DEF ModulesInv
<1>1. EndsWriting(q) /\ UNCHANGED <<handle, updated, fields, lastField, held>>
  BY DEF CommitCreate, CommitDelete
<1>2. alive' \in BOOLEAN /\ other' \in Handles \cup {None}
  <2>1. CASE CommitCreate(q)
    <3>1. req[q].handle \in Handles
      BY <2>1 DEF CommitCreate, RequestsFound, CreateFound
    <3> QED BY <2>1, <3>1 DEF CommitCreate, ModulesTypeOK
  <2>2. CASE CommitDelete(q)
    BY <2>2 DEF CommitDelete, ModulesTypeOK
  <2> QED BY <2>1, <2>2
<1>3. req' \in [Requests -> Request] /\ RequestsFound'
  <2>1. lastField' \in Nat /\ lastField <= lastField'
    BY <1>1, ModulesAssumption DEF ModulesTypeOK
  <2> QED BY <1>1, <2>1, OthersAreRaced
<1>4. ModulesTypeOK' /\ Numbered'
  BY <1>1, <1>2, <1>3 DEF ModulesTypeOK, Numbered
<1> QED BY <1>3, <1>4

LEMMA DeleteRecordsKeeps ==
  ASSUME ModulesInv, NEW v \in held, DeleteRecords(v)
  PROVE  ModulesInv'
<1>1. UNCHANGED <<alive, handle, updated, other, fields, lastField, req>> /\ held' \subseteq held
  BY DEF DeleteRecords, rowVars
<1> QED BY <1>1 DEF ModulesInv, ModulesTypeOK, Numbered, RequestsFound, UpdateFound, CreateFound,
                    HandleIsFree, OthersHandleIsFree, Missing

LEMMA ModulesInductive == ModulesSpec => []ModulesInv
<1>1. ModulesInit => ModulesInv
  <2> SUFFICES ASSUME ModulesInit PROVE ModulesInv
    OBVIOUS
  <2>1. ModulesTypeOK
    BY IdleIsRequest, ModulesAssumption DEF ModulesInit, ModulesTypeOK
  <2>2. Numbered /\ RequestsFound
    BY IdleIsRequest DEF ModulesInit, Numbered, RequestsFound
  <2> QED BY <2>1, <2>2 DEF ModulesInv
<1>2. ModulesInv /\ [ModulesNext]_moduleVars => ModulesInv'
  <2> SUFFICES ASSUME ModulesInv, [ModulesNext]_moduleVars PROVE ModulesInv'
    OBVIOUS
  <2>1. CASE UNCHANGED moduleVars
    BY <2>1 DEF moduleVars, rowVars, ModulesInv, ModulesTypeOK, Numbered, RequestsFound,
                UpdateFound, CreateFound, HandleIsFree, OthersHandleIsFree, Missing
  <2>2. ASSUME NEW q \in Requests, Begin(q) PROVE ModulesInv'
    <3>1. ASSUME NEW sent \in 0..Version, NEW h \in Handles \cup {NoHandle},
                 NEW n \in 0..IF q \in Long /\ h = handle THEN MaxList ELSE MaxShort,
                 NEW list \in [1..n -> Known], BeginUpdate(q, sent, h, list)
          PROVE  ModulesInv'
      <4>1. n \in 0..MaxList
        BY ModulesAssumption
      <4> QED BY <3>1, <4>1, BeginUpdateKeeps
    <3>2. ASSUME NEW h \in Handles, BeginCreate(q, h) PROVE ModulesInv'
      BY <3>2, BeginCreateKeeps
    <3> QED BY <2>2, <3>1, <3>2, OtherRequestsKeep DEF Begin
  <2>3. ASSUME NEW q \in Requests, Commit(q) PROVE ModulesInv'
    BY <2>3, CommitUpdateKeeps, OtherRequestsKeep, OtherWritesKeep DEF Commit
  <2>4. ASSUME NEW q \in Requests, Fail(q) PROVE ModulesInv'
    BY <2>4, OtherRequestsKeep
  <2>5. ASSUME NEW v \in held, DeleteRecords(v) PROVE ModulesInv'
    BY <2>5, DeleteRecordsKeeps
  <2> QED BY <2>1, <2>2, <2>3, <2>4, <2>5 DEF ModulesNext
<1> QED BY <1>1, <1>2, PTL DEF ModulesSpec

-----------------------------------------------------------------------------
(* The properties *)

\* Every variable has its type; no two fields of a module come to share an id, a
\* name or a place, whatever updates are written over each other.
THEOREM ModulesTypeCorrect == ModulesSpec => []ModulesTypeOK
BY ModulesInductive, PTL DEF ModulesInv

\* An update that nothing came between stores the fields of its list, in order.
LEMMA ListIsStored ==
  ASSUME ModulesInv, NEW q \in Requests, CommitUpdate(q), ~ req[q].raced,
         NoneTwice(req[q].plan)
  PROVE  /\ req[q].plan \in Lists /\ req[q].gone = Missing(req[q].plan)
         /\ fields' = {RowOf(req[q].plan, i) : i \in 1..Len(req[q].plan)}
         /\ \A i \in 1..Len(req[q].plan), j \in 1..Len(req[q].plan) :
              i # j => RowOf(req[q].plan, i).id # RowOf(req[q].plan, j).id
<1> USE DEF ModulesInv
<1> DEFINE plan == req[q].plan
<1>1. req[q].op = "update" /\ plan \in Lists
  BY RequestType DEF ModulesTypeOK, CommitUpdate
<1>2. /\ req[q].gone = Missing(plan)
      /\ \A i \in DOMAIN plan : plan[i].id <= lastField
  BY <1>1 DEF RequestsFound, UpdateFound
<1>3. fields' = Written(plan, Missing(plan))
  BY <1>2 DEF CommitUpdate
<1>4. lastField \in Nat /\ fields \subseteq FieldRow /\ NoneTwice(plan)
  BY ModulesAssumption DEF ModulesTypeOK
<1> HIDE DEF plan
<1>5. fields' = {RowOf(plan, i) : i \in 1..Len(plan)}
  BY <1>1, <1>2, <1>3, <1>4, WrittenIsTheList
<1>6. \A i \in 1..Len(plan), j \in 1..Len(plan) :
        i # j => RowOf(plan, i).id # RowOf(plan, j).id
  BY <1>1, <1>2, <1>4, RowsDiffer
<1> QED BY <1>1, <1>2, <1>5, <1>6 DEF plan

\* Though each REPLACE may delete rows of other fields of the list, an update that
\* no other one has raced, and whose fields have names of their own, leaves just
\* these fields, each in its place (UpdateFields in repository/module.go).
THEOREM ListsAreStored == ModulesSpec => FieldsAreTheList
<1>1. ASSUME ModulesInv, NEW q \in Requests, CommitUpdate(q), ~ req[q].raced,
             NoneTwice(req[q].plan)
      PROVE  /\ Cardinality(fields') = Len(req[q].plan)
             /\ \A i \in DOMAIN req[q].plan : \E f \in fields' :
                  /\ f.place = i /\ f.name = req[q].plan[i].name /\ f.kind = req[q].plan[i].kind
                  /\ req[q].plan[i].id \in {0, f.id}
  <2> DEFINE plan == req[q].plan
             n == Len(plan)
             F == [i \in 1..n |-> RowOf(plan, i)]
  <2>1. /\ plan \in Lists /\ fields' = {RowOf(plan, i) : i \in 1..n}
        /\ \A i \in 1..n, j \in 1..n : i # j => RowOf(plan, i).id # RowOf(plan, j).id
    BY <1>1, ListIsStored
  <2>2. n \in Nat /\ DOMAIN plan = 1..n
    BY <2>1, ListType
  <2>3. Cardinality(fields') = n
    <3>1. F \in Bijection(1..n, fields')
      BY <2>1 DEF Bijection, Injection, Surjection, IsInjective
    <3> HIDE DEF n
    <3>2. IsFiniteSet(1..n) /\ Cardinality(1..n) = n
      BY <2>2, FS_Interval
    <3>3. ExistsBijection(1..n, fields')
      BY <3>1 DEF ExistsBijection
    <3> QED BY <3>2, <3>3, FS_Bijection
  <2>4. ASSUME NEW i \in DOMAIN plan
        PROVE  \E f \in fields' :
                 /\ f.place = i /\ f.name = plan[i].name /\ f.kind = plan[i].kind
                 /\ plan[i].id \in {0, f.id}
    <3>1. RowOf(plan, i) \in fields'
      BY <2>1, <2>2
    <3>2. /\ RowOf(plan, i).place = i /\ RowOf(plan, i).name = plan[i].name
          /\ RowOf(plan, i).kind = plan[i].kind /\ plan[i].id \in {0, RowOf(plan, i).id}
      BY DEF RowOf
    <3> QED BY <3>1, <3>2
  <2> QED BY <2>3, <2>4
<1>2. ModulesInv =>
        [\A q \in Requests :
           LET plan == req[q].plan
           IN  CommitUpdate(q) /\ ~ req[q].raced /\ NoneTwice(plan) =>
                 /\ Cardinality(fields') = Len(plan)
                 /\ \A i \in DOMAIN plan : \E f \in fields' :
                      /\ f.place = i /\ f.name = plan[i].name /\ f.kind = plan[i].kind
                      /\ plan[i].id \in {0, f.id}]_moduleVars
  BY <1>1
<1> QED BY <1>2, ModulesInductive, PTL DEF FieldsAreTheList

\* The steps that change fields are those of CommitUpdate.
LEMMA OnlyUpdatesWriteFields ==
  ASSUME ModulesNext, fields' # fields
  PROVE  \E q \in Requests : CommitUpdate(q)
BY DEF ModulesNext, Begin, BeginUpdate, BeginCreate, BeginDelete, BeginInsert, Begins, Commit,
       CommitCreate, CommitDelete, CommitInsert, Fail, DeleteRecords, rowVars

\* A value of a record loses its field, or the field its kind, only as the client
\* asked for, or when it was stored after the update had looked for records
\* (isStale, the reset of names and kinds in module.go, UpdateFields).
THEOREM ValuesAreKept == ModulesSpec => ValuesKeepTheirFields
<1>1. ASSUME ModulesInv, [ModulesNext]_moduleVars, NEW v \in held \cap held',
             Fits(v, fields), ~ Fits(v, fields')
      PROVE  \E q \in Requests :
               /\ CommitUpdate(q)
               /\ \/ \E f \in fields : v = <<f.name, f.kind>> /\ f.id \in req[q].gone
                  \/ ~ req[q].had \/ req[q].raced
                  \/ ~ NoneTwice(req[q].plan)
  <2>1. fields' # fields /\ ModulesNext
    BY <1>1 DEF moduleVars, rowVars
  <2>2. PICK q \in Requests : CommitUpdate(q)
    BY <2>1, OnlyUpdatesWriteFields
  <2>3. PICK f \in fields : v = <<f.name, f.kind>>
    BY <1>1 DEF Fits
  <2> SUFFICES ASSUME f.id \notin req[q].gone, req[q].had, ~ req[q].raced, NoneTwice(req[q].plan)
               PROVE  FALSE
    BY <2>2, <2>3
  <2> DEFINE plan == req[q].plan
  <2>4. /\ plan \in Lists /\ req[q].gone = Missing(plan)
        /\ fields' = {RowOf(plan, i) : i \in 1..Len(plan)}
    BY <1>1, <2>2, ListIsStored
  <2>5. PICK i \in DOMAIN plan : plan[i].id = f.id
    BY <2>4 DEF Missing, IdsOf
  <2>6. i \in 1..Len(plan) /\ f.id # 0
    BY <1>1, <2>4, <2>5, ListType, ModulesAssumption DEF ModulesInv, ModulesTypeOK, FieldRow
  <2>7. PICK e \in fields : e.id = f.id /\ e.name = plan[i].name /\ e.kind = plan[i].kind
    BY <1>1, <2>2, <2>5, <2>6 DEF ModulesInv, RequestsFound, UpdateFound, CommitUpdate
  <2>8. e = f
    BY <1>1, <2>7 DEF ModulesInv, ModulesTypeOK
  <2>9. RowOf(plan, i).name = f.name /\ RowOf(plan, i).kind = f.kind
    BY <2>7, <2>8 DEF RowOf
  <2>10. RowOf(plan, i) \in fields'
    BY <2>4, <2>6
  <2> QED BY <1>1, <2>3, <2>9, <2>10 DEF Fits
<1>2. ModulesInv /\ [ModulesNext]_moduleVars =>
        [\A v \in held \cap held' :
           Fits(v, fields) /\ ~ Fits(v, fields') =>
             \E q \in Requests :
               /\ CommitUpdate(q)
               /\ \/ \E f \in fields : v = <<f.name, f.kind>> /\ f.id \in req[q].gone
                  \/ ~ req[q].had \/ req[q].raced
                  \/ ~ NoneTwice(req[q].plan)]_moduleVars
  BY <1>1
<1> QED BY <1>2, ModulesInductive, PTL DEF ValuesKeepTheirFields, ModulesSpec

\* Two live modules come to share a handle only when one was checked before the
\* other was written (UniqueCheck in module.go).
THEOREM HandlesAreShared == ModulesSpec => HandlesAreUnique
<1>1. ASSUME ModulesInv, ModulesNext, ~ Shared, Shared'
      PROVE  \E q \in Requests : /\ req[q].op \in {"update", "create"} /\ req[q].raced
                                 /\ req'[q] = Idle
  <2>1. alive' /\ other' = handle'
    BY <1>1 DEF Shared
  <2>2. UNCHANGED <<alive, other, handle>> => FALSE
    BY <1>1, <2>1 DEF Shared
  <2>3. PICK q \in Requests : CommitUpdate(q) \/ CommitCreate(q) \/ CommitDelete(q)
    BY <1>1, <2>2 DEF ModulesNext, Begin, BeginUpdate, BeginCreate, BeginDelete, BeginInsert,
         Begins, Commit, CommitInsert, Fail, DeleteRecords, rowVars
  <2>4. req'[q] = Idle
    BY <2>3 DEF CommitUpdate, CommitCreate, CommitDelete, EndsWriting
  <2>5. CASE CommitUpdate(q)
    <3>1. req[q].op = "update" /\ handle' = req[q].handle /\ other' = other
          /\ other \in Handles \cup {None}
      BY <1>1, <2>5 DEF CommitUpdate, ModulesInv, ModulesTypeOK
    <3>2. ~ req[q].raced => HandleIsFree(req[q].handle)
      BY <1>1, <3>1 DEF ModulesInv, RequestsFound, UpdateFound
    <3>3. req[q].raced
      BY <2>1, <3>1, <3>2, ModulesAssumption DEF HandleIsFree
    <3> QED BY <2>4, <3>1, <3>3
  <2>6. CASE CommitCreate(q)
    <3>1. req[q].op = "create" /\ other' = req[q].handle /\ UNCHANGED <<alive, handle>>
      BY <2>6 DEF CommitCreate
    <3>2. ~ req[q].raced => OthersHandleIsFree(req[q].handle)
      BY <1>1, <3>1 DEF ModulesInv, RequestsFound, CreateFound
    <3>3. req[q].raced
      BY <2>1, <3>1, <3>2 DEF OthersHandleIsFree
    <3> QED BY <2>4, <3>1, <3>3
  <2>7. CASE CommitDelete(q)
    <3>1. alive' => UNCHANGED alive
      BY <2>7 DEF CommitDelete
    <3>2. other' = None \/ UNCHANGED <<other, handle>>
      BY <2>7 DEF CommitDelete
    <3>3. handle' \in Handles \cup {NoHandle}
      BY <1>1, <2>7 DEF CommitDelete, ModulesInv, ModulesTypeOK
    <3> QED BY <2>1, <2>2, <2>7, <3>1, <3>2, <3>3, ModulesAssumption DEF CommitDelete
  <2> QED BY <2>3, <2>5, <2>6, <2>7
<1>2. ModulesInv /\ [ModulesNext]_moduleVars =>
        [~ Shared /\ Shared' =>
           \E q \in Requests : req[q].op \in {"update", "create"} /\ req[q].raced
                                 /\ req'[q] = Idle]_moduleVars
  BY <1>1
<1> QED BY <1>2, ModulesInductive, PTL DEF HandlesAreUnique, ModulesSpec

-----------------------------------------------------------------------------
(* One request for the modules at a time *)

OneModuleRequest == \A p, q \in Requests : req[p] # Idle /\ req[q] # Idle => p = q

\* Then nobody is raced, and who has found no record finds none when it writes.
SerialModulesInv ==
  \A q \in Requests :
    /\ req[q].op \in {"update", "create"} => ~ req[q].raced
    /\ req[q].op = "update" /\ ~ req[q].had => held = {}

LEMMA ModulesAlone ==
  ASSUME ModulesInv, SerialModulesInv, OneModuleRequest, [ModulesNext]_moduleVars
  PROVE  SerialModulesInv'
<1> USE DEF ModulesInv, ModulesTypeOK, SerialModulesInv
<1>1. CASE UNCHANGED moduleVars
  BY <1>1 DEF moduleVars
<1>2. ASSUME NEW q \in Requests, NEW r, req' = [req EXCEPT ![q] = r],
             r.op \in {"update", "create"} => ~ r.raced,
             r.op = "update" /\ ~ r.had => held = {}, held' = held
      PROVE  SerialModulesInv'
  <2>1. \A p \in Requests : req'[p] = IF p = q THEN r ELSE req[p]
    BY <1>2
  <2> QED BY <1>2, <2>1
<1>3. ASSUME NEW q \in Requests, Begin(q)
      PROVE  SerialModulesInv'
  <2>1. ASSUME NEW sent, NEW h, NEW list, BeginUpdate(q, sent, h, list)
        PROVE  SerialModulesInv'
    <3> DEFINE r == [op   |-> "update",
                     plan |-> [i \in DOMAIN list |-> Resolved(list[i], held # {})],
                     gone |-> Missing(list), handle |-> h,
                     had  |-> held # {}, raced |-> FALSE]
    <3>1. req' = [req EXCEPT ![q] = r] /\ held' = held
      BY <2>1 DEF BeginUpdate, Begins
    <3>2. r.op = "update" /\ ~ r.raced /\ (~ r.had => held = {})
      OBVIOUS
    <3> HIDE DEF r
    <3> QED BY <1>2, <3>1, <3>2
  <2>2. ASSUME NEW h, BeginCreate(q, h)
        PROVE  SerialModulesInv'
    <3> DEFINE r == [op |-> "create", handle |-> h, raced |-> FALSE]
    <3>1. req' = [req EXCEPT ![q] = r] /\ held' = held
      BY <2>2 DEF BeginCreate, Begins
    <3>2. r.op = "create" /\ ~ r.raced
      OBVIOUS
    <3> HIDE DEF r
    <3> QED BY <1>2, <3>1, <3>2
  <2>3. CASE BeginDelete(q) \/ BeginInsert(q)
    <3>1. PICK r : /\ req' = [req EXCEPT ![q] = r] /\ held' = held
                   /\ r.op \in {"delete main", "delete other", "insert"}
      <4>1. CASE BeginDelete(q)
        <5>1. PICK o \in {"delete main", "delete other"} : Begins(q, [op |-> o])
          BY <4>1 DEF BeginDelete
        <5> DEFINE r == [op |-> o]
        <5>2. req' = [req EXCEPT ![q] = r] /\ held' = held /\ r.op = o
          BY <5>1 DEF Begins
        <5> HIDE DEF r
        <5> QED BY <5>2
      <4>2. CASE BeginInsert(q)
        <5>1. PICK v : Begins(q, [op |-> "insert", value |-> v])
          BY <4>2 DEF BeginInsert
        <5> DEFINE r == [op |-> "insert", value |-> v]
        <5>2. req' = [req EXCEPT ![q] = r] /\ held' = held /\ r.op = "insert"
          BY <5>1 DEF Begins
        <5> HIDE DEF r
        <5> QED BY <5>2
      <4> QED BY <2>3, <4>1, <4>2
    <3> QED BY <1>2, <3>1
  <2> QED BY <1>3, <2>1, <2>2, <2>3 DEF Begin
<1>4. ASSUME NEW q \in Requests, Commit(q)
      PROVE  SerialModulesInv'
  <2>1. req[q] # Idle /\ req'[q] = Idle
    <3>1. req[q].op # "idle"
      BY <1>4 DEF Commit, CommitUpdate, CommitCreate, CommitDelete, CommitInsert
    <3>2. req'[q] = Idle
      BY <1>4 DEF Commit, CommitUpdate, CommitCreate, CommitDelete, CommitInsert, EndsWriting
    <3> QED BY <3>1, <3>2, IdleIsRequest
  <2>2. \A p \in Requests \ {q} : req[p] = Idle /\ req'[p] = Idle
    BY <1>4, <2>1, IdleIsRequest DEF OneModuleRequest, Commit, CommitUpdate, CommitCreate,
                                     CommitDelete, CommitInsert, EndsWriting
  <2> QED BY <2>1, <2>2, IdleIsRequest
<1>5. ASSUME NEW q \in Requests, Fail(q)
      PROVE  SerialModulesInv'
  BY <1>2, <1>5, IdleIsRequest DEF Fail
<1>6. ASSUME NEW v \in held, DeleteRecords(v)
      PROVE  SerialModulesInv'
  BY <1>6 DEF DeleteRecords
<1> HIDE DEF SerialModulesInv
<1> QED BY <1>1, <1>3, <1>4, <1>5, <1>6 DEF ModulesNext

LEMMA SerialModulesInductive == ModulesSpec /\ []OneModuleRequest => []SerialModulesInv
<1>1. ModulesInit => SerialModulesInv
  BY IdleIsRequest DEF ModulesInit, SerialModulesInv
<1>2. ModulesInv /\ SerialModulesInv /\ OneModuleRequest /\ [ModulesNext]_moduleVars
        => SerialModulesInv'
  BY ModulesAlone
<1> QED BY <1>1, <1>2, ModulesInductive, PTL DEF ModulesSpec

\* As long as there is one request at a time, no two live modules have one handle
\* (UniqueCheck in module.go is enough then).
THEOREM SerialHandles == ModulesSpec /\ []OneModuleRequest => []~Shared
<1>1. ModulesInit => ~ Shared
  BY ModulesAssumption DEF ModulesInit, Shared
<1>2. SerialModulesInv /\ ~ Shared
        /\ [~ Shared /\ Shared' =>
              \E q \in Requests : req[q].op \in {"update", "create"} /\ req[q].raced
                                    /\ req'[q] = Idle]_moduleVars
        => ~ Shared'
  BY DEF SerialModulesInv, Shared, moduleVars, rowVars
<1> QED
  BY <1>1, <1>2, SerialModulesInductive, HandlesAreShared, PTL DEF HandlesAreUnique, ModulesSpec

\* Nor does a value lose its field, but by an update that deletes the field on purpose
\* or has two of one name (the resets of names and kinds in module.go).
THEOREM SerialValues ==
  ModulesSpec /\ []OneModuleRequest =>
    [][\A v \in held \cap held' :
         Fits(v, fields) /\ ~ Fits(v, fields') =>
           \E q \in Requests :
             /\ CommitUpdate(q)
             /\ \/ \E f \in fields : v = <<f.name, f.kind>> /\ f.id \in req[q].gone
                \/ ~ NoneTwice(req[q].plan)]_moduleVars
<1>1. SerialModulesInv
        /\ [\A v \in held \cap held' :
              Fits(v, fields) /\ ~ Fits(v, fields') =>
                \E q \in Requests :
                  /\ CommitUpdate(q)
                  /\ \/ \E f \in fields : v = <<f.name, f.kind>> /\ f.id \in req[q].gone
                     \/ ~ req[q].had \/ req[q].raced
                     \/ ~ NoneTwice(req[q].plan)]_moduleVars
        => [\A v \in held \cap held' :
              Fits(v, fields) /\ ~ Fits(v, fields') =>
                \E q \in Requests :
                  /\ CommitUpdate(q)
                  /\ \/ \E f \in fields : v = <<f.name, f.kind>> /\ f.id \in req[q].gone
                     \/ ~ NoneTwice(req[q].plan)]_moduleVars
  <2>1. ASSUME SerialModulesInv, NEW q \in Requests, CommitUpdate(q)
        PROVE  ~ req[q].raced /\ (~ req[q].had => held = {})
    BY <2>1 DEF SerialModulesInv, CommitUpdate
  <2> QED BY <2>1
<1> QED
  BY <1>1, SerialModulesInductive, ValuesAreKept, PTL DEF ValuesKeepTheirFields

=============================================================================
