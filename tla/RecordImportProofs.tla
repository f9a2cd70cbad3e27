-------------------------- MODULE RecordImportProofs --------------------------
(***************************************************************************)
(* For any number of requests and rows: how an import maps the fields is   *)
(* settled when it begins, and no request that comes later can change it;  *)
(* it stops at a failure if all ask it to; no row is imported twice; and   *)
(* what the session reports is what was done.                              *)
(***************************************************************************)
EXTENDS RecordImport, FiniteSetTheorems, TLAPS

\* requests that have given the session a new map, and those that have decoded
\* their mapping into one
Beyond  == {r \in Requests : pc[r] \notin {"idle", "found"}}
Sending == {"idle", "found", "made", "done"}

\* Types of what the property depends on
MapTypes ==
  /\ pc \in [Requests -> Steps]
  /\ fields \in Requests \cup {"header"}
  /\ maps \in [Requests -> SUBSET Requests]
  /\ mapped \in [Requests -> Requests \cup {"header"}]
  /\ arrived \in [Requests -> SUBSET Requests]

\* The map of the session is the one of upload until the first request makes its
\* own; maps hold what was decoded by requests that have made one themselves.
MapsAreMade ==
  /\ Beyond # {} => fields \in Beyond
  /\ \A m \in Requests : maps[m] \subseteq Beyond /\ (maps[m] # {} => m \in Beyond)
  /\ \A r \in Requests : pc[r] \notin Sending => \E m \in Requests : r \in maps[m]

\* The map of an import holds only mappings of requests that were there when it
\* began; and as soon as a later request is about to decode its own, the session
\* has another map.
MapIsHeld ==
  \A r \in Requests : arrived[r] # {} =>
    /\ mapped[r] \in Beyond
    /\ maps[mapped[r]] \subseteq arrived[r]
    /\ arrived[r] = {r} => r \in maps[mapped[r]]
    /\ \A q \in Beyond \ arrived[r] : fields # mapped[r]

IInv == MapTypes /\ MapsAreMade /\ MapIsHeld

\* A step that only moves a request on, past the point where it has sent its
\* mapping or to its end, leaves everything as it is.
LEMMA MovesOn ==
  ASSUME IInv, NEW r \in Requests, NEW p \in Steps \ {"idle", "found", "made"},
         r \in Beyond, p = "done" \/ pc[r] \notin Sending,
         Goto(r, p), UNCHANGED <<fields, maps, mapped, arrived>>
  PROVE  IInv'
<1>1. pc' = [pc EXCEPT ![r] = p]
  BY DEF Goto
<1>2. Beyond' = Beyond
  BY <1>1 DEF Beyond, IInv, MapTypes
<1>3. MapTypes'
  BY <1>1 DEF IInv, MapTypes
<1>4. \A q \in Requests : pc'[q] \notin Sending => pc[q] \notin Sending
  BY <1>1 DEF IInv, MapTypes, Sending
<1>5. MapsAreMade'
  BY <1>2, <1>4 DEF IInv, MapsAreMade
<1>6. MapIsHeld'
  BY <1>2 DEF IInv, MapIsHeld
<1> QED
  BY <1>3, <1>5, <1>6 DEF IInv

LEMMA InitHolds == Init => IInv
<1> SUFFICES ASSUME Init PROVE IInv
  OBVIOUS
<1>1. Beyond = {}
  BY DEF Init, Beyond
<1>2. MapTypes
  BY DEF Init, MapTypes, Steps
<1>3. MapsAreMade
  BY <1>1 DEF Init, MapsAreMade, Sending
<1>4. MapIsHeld
  BY DEF Init, MapIsHeld
<1> QED
  BY <1>2, <1>3, <1>4 DEF IInv

\* A request that comes has sent nothing.
LEMMA FindKeeps ==
  ASSUME IInv, NEW r \in Requests, Find(r)
  PROVE  IInv'
<1>1. pc' = [pc EXCEPT ![r] = "found"] /\ pc[r] = "idle"
  BY DEF Find, Goto
<1>2. UNCHANGED <<fields, maps, mapped, arrived>>
  BY DEF Find, session, local
<1>3. Beyond' = Beyond
  BY <1>1 DEF Beyond, IInv, MapTypes
<1>4. MapTypes'
  BY <1>1, <1>2 DEF IInv, MapTypes, Steps
<1>5. \A q \in Requests : pc'[q] \notin Sending => pc[q] \notin Sending
  BY <1>1 DEF IInv, MapTypes, Sending
<1>6. MapsAreMade'
  BY <1>2, <1>3, <1>5 DEF IInv, MapsAreMade
<1>7. MapIsHeld'
  BY <1>2, <1>3 DEF IInv, MapIsHeld
<1> QED
  BY <1>4, <1>6, <1>7 DEF IInv

\* The new map of a request is no import's: those are of requests that had made
\* theirs.
LEMMA MakeFieldsKeeps ==
  ASSUME IInv, NEW r \in Requests, MakeFields(r)
  PROVE  IInv'
<1>1. pc' = [pc EXCEPT ![r] = "made"] /\ pc[r] = "found" /\ fields' = r
  BY DEF MakeFields, Goto
<1>2. UNCHANGED <<maps, mapped, arrived>>
  BY DEF MakeFields, local, history
<1>3. Beyond' = Beyond \cup {r} /\ r \notin Beyond
  BY <1>1 DEF Beyond, IInv, MapTypes
<1>4. MapTypes'
  BY <1>1, <1>2 DEF IInv, MapTypes, Steps
<1>5. \A q \in Requests : pc'[q] \notin Sending => pc[q] \notin Sending
  BY <1>1 DEF IInv, MapTypes, Sending
<1>6. MapsAreMade'
  BY <1>1, <1>2, <1>3, <1>5 DEF IInv, MapsAreMade
<1>7. MapIsHeld'
  BY <1>1, <1>2, <1>3 DEF IInv, MapIsHeld
<1> QED
  BY <1>4, <1>6, <1>7 DEF IInv

\* A mapping is decoded into the map the session has: not one of an import that
\* began before the request came.
LEMMA FillFieldsKeeps ==
  ASSUME IInv, NEW r \in Requests, FillFields(r)
  PROVE  IInv'
<1>1. PICK p \in {"filled", "done"} :
        /\ pc' = [pc EXCEPT ![r] = p] /\ pc[r] = "made"
        /\ \/ maps' = [maps EXCEPT ![fields] = @ \cup {r}]
           \/ maps' = maps /\ p = "done"
  BY DEF FillFields, Goto
<1>2. UNCHANGED <<fields, mapped, arrived>>
  BY DEF FillFields, local, history
<1>3. Beyond' = Beyond /\ r \in Beyond
  BY <1>1 DEF Beyond, IInv, MapTypes
<1>4. fields \in Beyond /\ fields \in Requests
  BY <1>3 DEF IInv, MapsAreMade, Beyond
<1>5. MapTypes'
  BY <1>1, <1>2, <1>4 DEF IInv, MapTypes, Steps
<1>6. \A m \in Requests : /\ maps[m] \subseteq maps'[m]
                          /\ maps'[m] \subseteq maps[m] \cup {r}
                          /\ m # fields => maps'[m] = maps[m]
  BY <1>1 DEF IInv, MapTypes
<1>7. \A q \in Requests : pc'[q] \notin Sending =>
        pc[q] \notin Sending \/ (q = r /\ r \in maps'[fields])
  BY <1>1, <1>4 DEF IInv, MapTypes, Sending
<1>8. MapsAreMade'
  <2>1. \A m \in Requests : maps'[m] \subseteq Beyond /\ (maps'[m] # {} => m \in Beyond)
    BY <1>3, <1>4, <1>6 DEF IInv, MapsAreMade
  <2>2. ASSUME NEW q \in Requests, pc'[q] \notin Sending
        PROVE  \E m \in Requests : q \in maps'[m]
    <3>1. CASE pc[q] \notin Sending
      BY <3>1, <1>6 DEF IInv, MapsAreMade
    <3>2. CASE q = r /\ r \in maps'[fields]
      BY <3>2, <1>4
    <3> QED
      BY <2>2, <1>7, <3>1, <3>2
  <2> QED
    BY <1>2, <1>3, <1>4, <2>1, <2>2 DEF MapsAreMade
<1>9. MapIsHeld'
  <2> SUFFICES ASSUME NEW q \in Requests, arrived[q] # {}
               PROVE  /\ mapped[q] \in Beyond
                      /\ maps'[mapped[q]] \subseteq arrived[q]
                      /\ arrived[q] = {q} => q \in maps'[mapped[q]]
                      /\ \A x \in Beyond \ arrived[q] : fields # mapped[q]
    BY <1>2, <1>3 DEF MapIsHeld
  <2>1. /\ mapped[q] \in Beyond /\ mapped[q] \in Requests
        /\ maps[mapped[q]] \subseteq arrived[q]
        /\ arrived[q] = {q} => q \in maps[mapped[q]]
        /\ \A x \in Beyond \ arrived[q] : fields # mapped[q]
    BY DEF IInv, MapIsHeld, Beyond
  <2>2. r \in arrived[q] \/ fields # mapped[q]
    BY <1>3, <2>1
  <2> QED
    BY <1>6, <2>1, <2>2
<1> QED
  BY <1>5, <1>8, <1>9 DEF IInv

\* An import takes the map the session has when it begins.
LEMMA BeginKeeps ==
  ASSUME IInv, NEW r \in Requests, Begin(r)
  PROVE  IInv'
<1>1. pc[r] = "started" /\ UNCHANGED <<fields, maps>>
  BY DEF Begin, session
<1>2. r \in Beyond
  BY <1>1 DEF Beyond
<1>3. CASE ~decoder
  <2>1. Goto(r, "panicked") /\ UNCHANGED <<mapped, arrived>>
    BY <1>3 DEF Begin
  <2> QED
    BY <1>1, <1>2, <2>1, MovesOn DEF Steps, Sending
<1>4. CASE decoder
  <2>1. /\ pc' = [pc EXCEPT ![r] = "reading"]
        /\ mapped' = [mapped EXCEPT ![r] = fields]
        /\ arrived' = [arrived EXCEPT ![r] = Here]
    BY <1>4 DEF Begin, Goto
  <2>2. Beyond' = Beyond
    BY <1>1, <2>1 DEF Beyond, IInv, MapTypes
  <2>3. MapTypes'
    BY <1>1, <2>1 DEF IInv, MapTypes, Steps, Here
  <2>4. \A q \in Requests : pc'[q] \notin Sending => pc[q] \notin Sending
    BY <1>1, <2>1 DEF IInv, MapTypes, Sending
  <2>5. MapsAreMade'
    BY <1>1, <2>2, <2>4 DEF IInv, MapsAreMade
  <2>6. fields \in Beyond /\ Beyond \subseteq Here /\ Beyond \subseteq Requests
    BY <1>2 DEF IInv, MapsAreMade, Beyond, Here
  <2>7. Here = {r} => r \in maps[fields]
    <3>1. PICK m \in Requests : r \in maps[m]
      BY <1>1 DEF IInv, MapsAreMade, Sending
    <3>2. m \in Beyond
      BY <3>1 DEF IInv, MapsAreMade
    <3> QED
      BY <2>6, <3>1, <3>2
  <2>8. maps[fields] \subseteq Here
    BY <2>6 DEF IInv, MapsAreMade
  <2>9. ASSUME NEW q \in Requests, arrived'[q] # {}
        PROVE  /\ mapped'[q] \in Beyond
               /\ maps[mapped'[q]] \subseteq arrived'[q]
               /\ arrived'[q] = {q} => q \in maps[mapped'[q]]
               /\ \A x \in Beyond \ arrived'[q] : fields # mapped'[q]
    <3>1. CASE q = r
      <4>1. mapped'[q] = fields /\ arrived'[q] = Here
        BY <2>1, <3>1 DEF IInv, MapTypes
      <4> QED
        BY <3>1, <4>1, <2>6, <2>7, <2>8
    <3>2. CASE q # r
      <4>1. mapped'[q] = mapped[q] /\ arrived'[q] = arrived[q]
        BY <2>1, <3>2 DEF IInv, MapTypes
      <4> QED
        BY <2>9, <4>1 DEF IInv, MapIsHeld
    <3> QED
      BY <3>1, <3>2
  <2>10. MapIsHeld'
    BY <1>1, <2>2, <2>9 DEF MapIsHeld
  <2> QED
    BY <2>3, <2>5, <2>10 DEF IInv
<1> QED
  BY <1>3, <1>4

\* All other steps of a request move it on.
LEMMA RunKeeps ==
  ASSUME IInv, NEW r \in Requests, Run(r)
  PROVE  IInv'
<1> USE DEF session, local, history, Steps, Sending, Beyond
<1>1. CASE SetOnError(r)
  BY <1>1, MovesOn DEF SetOnError
<1>2. CASE CheckDecoder(r)
  BY <1>2, MovesOn DEF CheckDecoder
<1>3. CASE CheckStarted(r)
  BY <1>3, MovesOn DEF CheckStarted
<1>4. CASE Start(r)
  BY <1>4, MovesOn DEF Start
<1>5. CASE TakeBuffered(r) \/ ReadRow(r) \/ ReadEnds(r)
  BY <1>5, MovesOn DEF TakeBuffered, ReadRow, ReadEnds
<1>6. CASE ConvertFails(r)
  BY <1>6, MovesOn DEF ConvertFails, Returns
<1>7. CASE Create(r)
  BY <1>7, MovesOn DEF Create
<1>8. CASE LoadCount(r)
  BY <1>8, MovesOn DEF LoadCount
<1>9. CASE StoreCompleted(r)
  BY <1>9, MovesOn DEF StoreCompleted, Returns
<1>10. CASE StoreFailed(r)
  BY <1>10, MovesOn DEF StoreFailed
<1>11. CASE AfterFailure(r)
  BY <1>11, MovesOn DEF AfterFailure, Returns
<1>12. CASE Finish(r)
  BY <1>12, MovesOn DEF Finish
<1> QED
  BY <1>1, <1>2, <1>3, <1>4, <1>5, <1>6, <1>7, <1>8, <1>9, <1>10, <1>11, <1>12,
     MakeFieldsKeeps, FillFieldsKeeps, BeginKeeps DEF Run

LEMMA StutterKeeps == IInv /\ UNCHANGED vars => IInv'
  BY DEF IInv, MapTypes, MapsAreMade, MapIsHeld, Beyond, vars, session, local, history

\* The inductive invariant holds of every behaviour.
THEOREM Inductive == Spec => []IInv
<1>1. IInv /\ [Next]_vars => IInv'
  BY FindKeeps, RunKeeps, StutterKeeps DEF Next
<1> QED
  BY InitHolds, <1>1, PTL DEF Spec

\* For any requests and rows: what an import does with the fields was settled by the
\* requests that were there when it began.
THEOREM ImportKeepsItsMapping == Spec => []MappingHolds
<1>1. IInv => MappingHolds
  <2> SUFFICES ASSUME IInv, NEW r \in Imports, arrived[r] # {}
               PROVE  /\ maps[mapped[r]] \subseteq arrived[r]
                      /\ arrived[r] = {r} => maps[mapped[r]] = {r}
    BY DEF MappingHolds
  <2>1. r \in Requests
    BY DEF Imports
  <2> QED
    BY <2>1 DEF IInv, MapIsHeld
<1> QED
  BY Inductive, <1>1, PTL

-----------------------------------------------------------------------------
(* Stopping at a failure *)

InRow    == {"row", "created", "refused", "completing", "failing", "failed"}
Refusing == {"refused", "failing", "failed"}
Asked    == Steps \ {"idle", "found", "made", "filled", "done"}

\* All requests want to stop, and r has failed on a row whose error is not dropped.
AllStop    == \A q \in Here : ask[q] = "FAIL"
Stopped(r) == \E x \in failures[r] : ~(buffered /\ x = 1)

\* What an import holds of the buffer is the first row.
BufferHolds ==
  /\ pc \in [Requests -> Steps]
  /\ buf \in [Requests -> BOOLEAN] /\ row \in [Requests -> 0..Size]
  /\ read \in 0..Size /\ buffered \in BOOLEAN
  /\ \A r \in Requests : /\ buf[r] => buffered
                         /\ pc[r] \in InRow /\ buf[r] => row[r] = 1

\* The session does what one of those who are there has asked for; so an import
\* that has failed is on its way to ask it, or has ended.
StopInv ==
  /\ BufferHolds
  /\ failures \in [Requests -> SUBSET (0..Size)]
  /\ \A r \in Requests : pc[r] \in Asked => \E q \in Here : onError = ask[q]
  /\ AllStop => \A r \in Requests : Stopped(r) =>
                  (pc[r] \in Refusing /\ ~buf[r]) \/ pc[r] \in {"ending", "done"}

LEMMA BufferInit == Init => BufferHolds
BY ImportAssumption DEF Init, BufferHolds, Steps, InRow

\* A step of r moves nobody else, and keeps what r holds of the buffer.
LEMMA BufferKeeps ==
  ASSUME BufferHolds, NEW r \in Requests, Find(r) \/ Run(r)
  PROVE  BufferHolds'
<1> USE DEF BufferHolds, Goto, session, local, history, Steps, InRow
<1>1. CASE Find(r)
  BY <1>1 DEF Find
<1>2. CASE MakeFields(r) \/ FillFields(r) \/ SetOnError(r)
  BY <1>2 DEF MakeFields, FillFields, SetOnError
<1>3. CASE CheckDecoder(r) \/ CheckStarted(r) \/ Start(r)
  BY <1>3 DEF CheckDecoder, CheckStarted, Start
<1>4. CASE Begin(r)
  BY <1>4 DEF Begin
<1>5. CASE TakeBuffered(r)
  BY <1>5, ImportAssumption DEF TakeBuffered
<1>6. CASE ReadRow(r)
  BY <1>6, ImportAssumption DEF ReadRow
<1>7. CASE ReadEnds(r) \/ Finish(r)
  BY <1>7 DEF ReadEnds, Finish
<1>8. CASE ConvertFails(r)
  BY <1>8 DEF ConvertFails, Returns
<1>9. CASE Create(r)
  BY <1>9 DEF Create
<1>10. CASE LoadCount(r) \/ StoreFailed(r)
  BY <1>10 DEF LoadCount, StoreFailed
<1>11. CASE StoreCompleted(r)
  BY <1>11 DEF StoreCompleted, Returns
<1>12. CASE AfterFailure(r)
  BY <1>12 DEF AfterFailure, Returns
<1> QED
  BY <1>1, <1>2, <1>3, <1>4, <1>5, <1>6, <1>7, <1>8, <1>9, <1>10, <1>11, <1>12 DEF Run

\* What is written of failures, onError and of pc; and who is there stays there.
LEMMA StopKeeps ==
  ASSUME StopInv, NEW r \in Requests, Find(r) \/ Run(r)
  PROVE  StopInv'
<1>1. BufferHolds /\ BufferHolds' /\ ask' = ask /\ buffered' = buffered
  BY BufferKeeps DEF StopInv, Find, Run, MakeFields, FillFields, SetOnError, CheckDecoder,
       CheckStarted, Start, Begin, TakeBuffered, ReadRow, ReadEnds, ConvertFails, Create,
       LoadCount, StoreCompleted, StoreFailed, AfterFailure, Finish
<1>2. PICK p \in Steps \ {"idle"} : pc' = [pc EXCEPT ![r] = p]
  BY DEF Find, Run, MakeFields, FillFields, SetOnError, CheckDecoder,
       CheckStarted, Start, Begin, TakeBuffered, ReadRow, ReadEnds, ConvertFails, Create,
       LoadCount, StoreCompleted, StoreFailed, AfterFailure, Finish, Returns, Goto, Steps
<1>3. Here' = Here \cup {r}
  BY <1>1, <1>2 DEF Here, BufferHolds
<1>4. \A q \in Requests : pc'[q] = IF q = r THEN p ELSE pc[q]
  BY <1>1, <1>2 DEF BufferHolds
<1>5. \/ UNCHANGED onError /\ (p \in Asked => pc[r] \in Asked)
      \/ onError' = ask[r]
  BY <1>1, <1>2, <1>4 DEF Find, Run, MakeFields, FillFields, SetOnError, CheckDecoder,
       CheckStarted, Start, Begin, TakeBuffered, ReadRow, ReadEnds, ConvertFails, Create,
       LoadCount, StoreCompleted, StoreFailed, AfterFailure, Finish, Returns, Goto, session,
       Asked, BufferHolds, Steps
<1>6. \A q \in Requests : pc'[q] \in Asked => \E x \in Here' : onError' = ask'[x]
  BY <1>1, <1>3, <1>4, <1>5 DEF StopInv
<1>7. AllStop' => AllStop
  BY <1>1, <1>3 DEF AllStop, Here
<1>8. /\ failures' \in [Requests -> SUBSET (0..Size)]
      /\ \A q \in Requests \ {r} : failures'[q] = failures[q]
      /\ \/ failures'[r] = failures[r]
         \/ /\ failures'[r] = failures[r] \cup {row[r]}
            /\ pc[r] = "row" /\ p = "refused" /\ buf'[r] = buf[r]
  <2>1. CASE Create(r)
    BY <1>1, <1>4, <2>1 DEF Create, Goto, StopInv, BufferHolds, local
  <2>2. CASE ~Create(r)
    <3>1. failures' = failures
      BY <2>2 DEF Find, Run, MakeFields, FillFields, SetOnError, CheckDecoder,
           CheckStarted, Start, Begin, TakeBuffered, ReadRow, ReadEnds, ConvertFails,
           LoadCount, StoreCompleted, StoreFailed, AfterFailure, Finish, history
    <3> QED
      BY <3>1 DEF StopInv
  <2> QED
    BY <2>1, <2>2
<1>11. \A q \in Requests \ {r} : buf'[q] = buf[q]
  <2>1. CASE Begin(r) \/ ConvertFails(r) \/ StoreCompleted(r) \/ AfterFailure(r)
    BY <1>1, <2>1 DEF Begin, ConvertFails, StoreCompleted, AfterFailure, Returns, BufferHolds
  <2>2. CASE ~(Begin(r) \/ ConvertFails(r) \/ StoreCompleted(r) \/ AfterFailure(r))
    BY <2>2 DEF Find, Run, MakeFields, FillFields, SetOnError, CheckDecoder,
           CheckStarted, Start, TakeBuffered, ReadRow, ReadEnds, Create,
           LoadCount, StoreFailed, Finish, local
  <2> QED
    BY <2>1, <2>2
<1>9. ASSUME AllStop', Stopped(r)'
      PROVE  (pc'[r] \in Refusing /\ ~buf'[r]) \/ pc'[r] \in {"ending", "done"}
  <2>1. CASE Stopped(r)
    <3>1. (pc[r] \in Refusing /\ ~buf[r]) \/ pc[r] \in {"ending", "done"}
      BY <1>7, <1>9, <2>1 DEF StopInv
    <3>2. CASE pc[r] = "failed"
      <4>1. AfterFailure(r) /\ ~buf[r]
        BY <3>1, <3>2 DEF Find, Run, MakeFields, FillFields, SetOnError, CheckDecoder,
             CheckStarted, Start, Begin, TakeBuffered, ReadRow, ReadEnds, ConvertFails,
             Create, LoadCount, StoreCompleted, StoreFailed, Finish, Refusing
      <4>2. onError = "FAIL"
        BY <1>7, <1>9, <3>2, <1>1 DEF StopInv, AllStop, Asked, Steps
      <4> QED
        BY <1>1, <4>1, <4>2 DEF AfterFailure, Returns, Goto, BufferHolds
    <3>3. CASE pc[r] \in {"refused", "failing"}
      <4>1. LoadCount(r) \/ StoreFailed(r)
        BY <3>3 DEF Find, Run, MakeFields, FillFields, SetOnError, CheckDecoder,
             CheckStarted, Start, Begin, TakeBuffered, ReadRow, ReadEnds, ConvertFails,
             Create, StoreCompleted, AfterFailure, Finish
      <4> QED
        BY <1>1, <3>1, <3>3, <4>1 DEF LoadCount, StoreFailed, Goto, Refusing, BufferHolds
    <3>4. CASE pc[r] \in {"ending", "done"}
      <4>1. Finish(r)
        BY <3>4 DEF Find, Run, MakeFields, FillFields, SetOnError, CheckDecoder,
             CheckStarted, Start, Begin, TakeBuffered, ReadRow, ReadEnds, ConvertFails,
             Create, LoadCount, StoreCompleted, StoreFailed, AfterFailure
      <4> QED
        BY <1>1, <4>1 DEF Finish, Goto, BufferHolds
    <3> QED
      BY <3>1, <3>2, <3>3, <3>4 DEF Refusing
  <2>2. CASE ~Stopped(r)
    <3>1. failures'[r] = failures[r] \cup {row[r]} /\ pc[r] = "row" /\ p = "refused"
          /\ buf'[r] = buf[r] /\ ~(buffered /\ row[r] = 1)
      BY <1>1, <1>8, <1>9, <2>2 DEF Stopped
    <3> QED
      BY <1>1, <1>4, <3>1 DEF BufferHolds, InRow, Refusing
  <2> QED
    BY <2>1, <2>2
<1>10. ASSUME AllStop', NEW q \in Requests, q # r, Stopped(q)'
       PROVE  (pc'[q] \in Refusing /\ ~buf'[q]) \/ pc'[q] \in {"ending", "done"}
  BY <1>1, <1>4, <1>7, <1>8, <1>11, <1>10 DEF StopInv, Stopped
<1> QED
  BY <1>1, <1>6, <1>8, <1>9, <1>10 DEF StopInv

LEMMA StopHolds == Spec => []StopInv
<1>1. Init => StopInv
  <2> SUFFICES ASSUME Init PROVE StopInv
    OBVIOUS
  <2>1. \A r \in Requests : failures[r] = {} /\ pc[r] \notin Asked
    BY DEF Init, Asked
  <2> QED
    BY <2>1, BufferInit DEF Init, StopInv, Stopped
<1>2. StopInv /\ [Next]_vars => StopInv'
  <2>1. StopInv /\ UNCHANGED vars => StopInv'
    BY DEF StopInv, BufferHolds, AllStop, Stopped, Here, vars, session, local, history
  <2> QED
    BY <2>1, StopKeeps DEF Next
<1> QED
  BY <1>1, <1>2, PTL DEF Spec

\* Import takes no further row after a failure that was not dropped, if everybody
\* who has come wants it to stop.
THEOREM ImportStops == Spec => FailStops
<1> DEFINE Stops == \A r \in Requests :
                      /\ \A q \in Here : ask[q] = "FAIL"
                      /\ \E x \in failures[r] : ~(buffered /\ x = 1)
                      => row'[r] = row[r]
<1>1. ASSUME StopInv, NEW q \in Requests, Find(q) \/ Run(q)
      PROVE  \A r \in Requests : row'[r] = row[r] \/ (r = q /\ pc[q] = "reading")
  <2>1. CASE TakeBuffered(q) \/ ReadRow(q)
    BY <1>1, <2>1 DEF TakeBuffered, ReadRow, StopInv, BufferHolds
  <2>2. CASE ~(TakeBuffered(q) \/ ReadRow(q))
    BY <1>1, <2>2 DEF Find, Run, MakeFields, FillFields, SetOnError, CheckDecoder,
         CheckStarted, Start, Begin, ReadEnds, ConvertFails, Create, LoadCount,
         StoreCompleted, StoreFailed, AfterFailure, Finish, local
  <2> QED
    BY <2>1, <2>2
<1>2. ASSUME StopInv, [Next]_vars
      PROVE  Stops
  <2>1. ASSUME NEW r \in Requests, AllStop, Stopped(r)
        PROVE  row'[r] = row[r]
    <3>1. pc[r] # "reading"
      BY <1>2, <2>1 DEF StopInv, Refusing
    <3>2. CASE UNCHANGED vars
      BY <3>2 DEF vars, local
    <3> QED
      BY <1>1, <1>2, <3>1, <3>2 DEF Next
  <2> QED
    BY <2>1 DEF AllStop, Stopped
<1>3. StopInv /\ [Next]_vars => [Stops]_vars
  BY <1>2
<1> QED
  BY <1>3, StopHolds, PTL DEF Spec, FailStops

-----------------------------------------------------------------------------
(* Every row once *)

Before == {"idle", "found", "made", "filled", "ready", "open", "passed", "started"}

\* The row an import has in hand, from the file
Reading(r) == pc[r] = "row" /\ ~buf[r]

\* requests that were early and have made the first row a record from their copy
\* of it, or can no longer do so
Spent == {r \in early : pc[r] \in {"created", "completing"} \/ (pc[r] \notin Before /\ ~buf[r])}

\* Only requests that came before the start are let in.
EarlyInv ==
  /\ early \subseteq Requests /\ IsFiniteSet(early)
  /\ ~started => Here \subseteq early
  /\ \A r \in Requests : r \in early \/ pc[r] \in (Before \ {"passed", "started"}) \cup {"done"}

\* A row of the file is in the hands of one import, and not a record yet; of those
\* that nobody has read there are none.
FileInv ==
  /\ records \in [Rows -> Nat]
  /\ buffered => read >= 1
  /\ \A x \in Rows : x > read => records[x] = 0
  /\ \A r \in Requests : Reading(r) =>
       /\ row[r] \in 1..read /\ records[row[r]] = 0
       /\ buffered => row[r] # 1
       /\ \A q \in Requests \ {r} : Reading(q) => row[q] # row[r]
  /\ \A x \in Rows : ~(buffered /\ x = 1) => records[x] <= 1
  /\ buffered => records[1] <= Cardinality(Spent)

OnceInv == BufferHolds /\ EarlyInv /\ FileInv

LEMMA OnceInit == Init => OnceInv
<1> SUFFICES ASSUME Init PROVE OnceInv
  OBVIOUS
<1>1. EarlyInv
  BY FS_EmptySet DEF Init, EarlyInv, Here, Before
<1>2. FileInv
  <2>1. Spent = {} /\ Cardinality({}) = 0
    BY FS_EmptySet DEF Init, Spent
  <2>2. 1 \in Rows
    BY ImportAssumption DEF Rows
  <2> QED
    BY <2>1, <2>2, ImportAssumption DEF Init, FileInv, Reading, Rows
<1> QED
  BY <1>1, <1>2, BufferInit DEF OnceInv

LEMMA EarlyKeeps ==
  ASSUME OnceInv, NEW r \in Requests, Find(r) \/ Run(r)
  PROVE  EarlyInv'
<1> USE DEF OnceInv, BufferHolds, EarlyInv, Before, Here, Goto
<1>1. CASE Find(r)
  <2>1. IsFiniteSet(early \cup {r})
    BY FS_AddElement
  <2>2. IsFiniteSet(early') /\ early \subseteq early' /\ early' \subseteq Requests
    BY <1>1, <2>1 DEF Find
  <2> QED
    BY <1>1, <2>2 DEF Find, session
<1>2. CASE CheckStarted(r)
  <2>1. UNCHANGED <<early, started>> /\ pc[r] = "open"
    BY <1>2 DEF CheckStarted, session, history
  <2>2. \/ started /\ pc' = [pc EXCEPT ![r] = "done"]
        \/ ~started /\ pc' = [pc EXCEPT ![r] = "passed"]
    BY <1>2 DEF CheckStarted
  <2>3. \A q \in Requests : pc[q] # "idle" <=> pc'[q] # "idle"
    BY <2>1, <2>2
  <2>4. Here' = Here
    BY <2>3
  <2>5. ~started => r \in early
    BY <2>1
  <2>6. \A q \in Requests : q \in early \/ pc'[q] \in (Before \ {"passed", "started"}) \cup {"done"}
    BY <2>1, <2>2, <2>5
  <2> HIDE DEF Here
  <2> QED
    BY <2>1, <2>4, <2>6
<1>3. CASE Start(r)
  BY <1>3 DEF Start, history
<1>4. ASSUME Run(r), ~CheckStarted(r), ~Start(r)
      PROVE  EarlyInv'
  <2>1. UNCHANGED <<early, started>>
    BY <1>4 DEF Run, MakeFields, FillFields, SetOnError, CheckDecoder, Begin, TakeBuffered,
         ReadRow, ReadEnds, ConvertFails, Create, LoadCount, StoreCompleted, StoreFailed,
         AfterFailure, Finish, session, history
  <2>2. PICK p \in Steps \ {"idle", "passed", "started"} :
          /\ pc' = [pc EXCEPT ![r] = p] /\ pc[r] # "idle"
          /\ p \in Before \cup {"done"} \/ pc[r] \notin (Before \ {"started"}) \cup {"done"}
    BY <1>4 DEF Run, MakeFields, FillFields, SetOnError, CheckDecoder, Begin, TakeBuffered,
         ReadRow, ReadEnds, ConvertFails, Create, LoadCount, StoreCompleted, StoreFailed,
         AfterFailure, Finish, Returns, Steps
  <2>3. \A q \in Requests : pc'[q] = IF q = r THEN p ELSE pc[q]
    BY <2>2
  <2>4. r \in early \/ pc[r] \in (Before \ {"passed", "started"}) \cup {"done"}
    OBVIOUS
  <2>5. r \in early \/ p \in (Before \ {"passed", "started"}) \cup {"done"}
    BY <2>2, <2>4
  <2> QED
    BY <2>1, <2>2, <2>3, <2>5
<1> QED
  BY <1>1, <1>2, <1>3, <1>4

\* Who is spent stays so.
LEMMA SpentGrows ==
  ASSUME OnceInv, NEW r \in Requests, Find(r) \/ Run(r)
  PROVE  Spent \subseteq Spent'
<1>1. BufferHolds
  BY DEF OnceInv
<1>2. early \subseteq early'
  BY DEF Find, Run, MakeFields, FillFields, SetOnError, CheckDecoder, CheckStarted, Start,
       Begin, TakeBuffered, ReadRow, ReadEnds, ConvertFails, Create, LoadCount,
       StoreCompleted, StoreFailed, AfterFailure, Finish, history
<1>3. \A q \in Requests \ {r} : pc'[q] = pc[q] /\ buf'[q] = buf[q]
  <2>1. CASE Begin(r) \/ ConvertFails(r) \/ StoreCompleted(r) \/ AfterFailure(r)
    BY <1>1, <2>1 DEF Begin, ConvertFails, StoreCompleted, AfterFailure, Returns, BufferHolds, Goto
  <2>2. CASE ~(Begin(r) \/ ConvertFails(r) \/ StoreCompleted(r) \/ AfterFailure(r))
    BY <1>1, <2>2 DEF Find, Run, MakeFields, FillFields, SetOnError, CheckDecoder,
         CheckStarted, Start, TakeBuffered, ReadRow, ReadEnds, Create,
         LoadCount, StoreFailed, Finish, local, BufferHolds, Goto
  <2> QED
    BY <2>1, <2>2
<1>4. ASSUME r \in Spent
      PROVE  r \in Spent'
  <2>1. r \in early /\ r \in early'
    BY <1>2, <1>4 DEF Spent
  <2>2. CASE pc[r] = "created"
    BY <1>1, <2>1, <2>2 DEF Spent, Find, Run, MakeFields, FillFields, SetOnError, CheckDecoder,
         CheckStarted, Start, Begin, TakeBuffered, ReadRow, ReadEnds, ConvertFails, Create,
         LoadCount, StoreCompleted, StoreFailed, AfterFailure, Finish, BufferHolds, Goto
  <2>3. CASE pc[r] = "completing"
    BY <1>1, <2>1, <2>3 DEF Spent, Find, Run, MakeFields, FillFields, SetOnError, CheckDecoder,
         CheckStarted, Start, Begin, TakeBuffered, ReadRow, ReadEnds, ConvertFails, Create,
         LoadCount, StoreCompleted, StoreFailed, AfterFailure, Finish, BufferHolds, Goto,
         Returns, Before
  <2>4. CASE pc[r] \notin Before /\ ~buf[r]
    <3>1. ~buf'[r]
      BY <1>1, <2>4 DEF Find, Run, MakeFields, FillFields, SetOnError, CheckDecoder,
         CheckStarted, Start, Begin, TakeBuffered, ReadRow, ReadEnds, ConvertFails, Create,
         LoadCount, StoreCompleted, StoreFailed, AfterFailure, Finish, Returns, BufferHolds,
         local, Before
    <3>2. pc'[r] \notin Before
      BY <1>1, <2>4 DEF Find, Run, MakeFields, FillFields, SetOnError, CheckDecoder,
         CheckStarted, Start, Begin, TakeBuffered, ReadRow, ReadEnds, ConvertFails, Create,
         LoadCount, StoreCompleted, StoreFailed, AfterFailure, Finish, Returns, BufferHolds,
         Goto, Before
    <3> QED
      BY <2>1, <3>1, <3>2 DEF Spent
  <2> QED
    BY <1>4, <2>2, <2>3, <2>4 DEF Spent
<1> QED
  BY <1>2, <1>3, <1>4 DEF Spent, OnceInv, EarlyInv

\* As long as early is finite, more requests can be spent, and never fewer.
LEMMA MoreSpent ==
  ASSUME OnceInv, NEW r \in Requests, Find(r) \/ Run(r)
  PROVE  /\ IsFiniteSet(Spent') /\ Cardinality(Spent) \in Nat /\ Cardinality(Spent') \in Nat
         /\ Cardinality(Spent) <= Cardinality(Spent')
         /\ \A q \in Spent' \ Spent : Cardinality(Spent) + 1 <= Cardinality(Spent')
<1>1. IsFiniteSet(early') /\ Spent' \subseteq early'
  BY EarlyKeeps DEF EarlyInv, Spent
<1>2. IsFiniteSet(Spent')
  BY <1>1, FS_Subset
<1>3. Spent \subseteq Spent'
  BY SpentGrows
<1>4. IsFiniteSet(Spent) /\ Cardinality(Spent) <= Cardinality(Spent')
  BY <1>2, <1>3, FS_Subset
<1>5. ASSUME NEW q \in Spent' \ Spent
      PROVE  Cardinality(Spent) + 1 <= Cardinality(Spent')
  <2>1. IsFiniteSet(Spent \cup {q}) /\ Cardinality(Spent \cup {q}) = Cardinality(Spent) + 1
    BY <1>4, FS_AddElement
  <2>2. Spent \cup {q} \subseteq Spent'
    BY <1>3
  <2> QED
    BY <1>2, <2>1, <2>2, FS_Subset
<1> QED
  BY <1>2, <1>4, <1>5, FS_CardinalityType

\* A step that creates no record and takes no row.
LEMMA FileUntouched ==
  ASSUME OnceInv, NEW r \in Requests, Find(r) \/ Run(r),
         UNCHANGED <<records, read, buffered, row>>,
         \A q \in Requests : Reading(q)' => Reading(q)
  PROVE  FileInv'
BY MoreSpent, ImportAssumption DEF OnceInv, FileInv, Rows

LEMMA ReadRowKeeps ==
  ASSUME OnceInv, NEW r \in Requests, ReadRow(r)
  PROVE  FileInv'
<1>1. BufferHolds /\ FileInv
  BY DEF OnceInv
<1>2. /\ read < Size /\ read \in 0..Size /\ read' = read + 1 /\ row' = [row EXCEPT ![r] = read + 1]
      /\ UNCHANGED <<records, buffered, buf>>
  BY <1>1 DEF ReadRow, BufferHolds, local
<1>3. pc' = [pc EXCEPT ![r] = "row"] /\ Size \in Nat
  BY ImportAssumption DEF ReadRow, Goto
<1>4. \A q \in Requests : row'[q] = IF q = r THEN read + 1 ELSE row[q]
  BY <1>1, <1>2 DEF BufferHolds
<1>5. \A q \in Requests : Reading(q)' => q = r \/ Reading(q)
  BY <1>1, <1>2, <1>3 DEF BufferHolds, Reading
<1>6. \A q \in Requests : q # r /\ Reading(q)' => /\ row'[q] \in 1..read /\ records[row'[q]] = 0
                                                  /\ buffered => row'[q] # 1
  BY <1>1, <1>4, <1>5 DEF FileInv
<1>7. read + 1 \in Rows /\ records[read + 1] = 0 /\ (buffered => read + 1 # 1)
  BY <1>1, <1>2, <1>3 DEF FileInv, Rows
<1>8. \A q \in Requests : Reading(q)' =>
        /\ row'[q] \in 1..read' /\ records'[row'[q]] = 0
        /\ buffered' => row'[q] # 1
        /\ \A x \in Requests \ {q} : Reading(x)' => row'[x] # row'[q]
  <2> SUFFICES ASSUME NEW q \in Requests, Reading(q)'
               PROVE  /\ row'[q] \in 1..read' /\ records'[row'[q]] = 0
                      /\ buffered' => row'[q] # 1
                      /\ \A x \in Requests \ {q} : Reading(x)' => row'[x] # row'[q]
    OBVIOUS
  <2>1. CASE q = r
    BY <1>2, <1>4, <1>6, <1>7, <2>1
  <2>2. CASE q # r
    BY <1>1, <1>2, <1>4, <1>5, <1>6, <2>2 DEF FileInv
  <2> QED
    BY <2>1, <2>2
<1>9. buffered => records[1] <= Cardinality(Spent')
  <2>1. Run(r)
    BY DEF Run
  <2>2. buffered => records[1] <= Cardinality(Spent) /\ records[1] \in Nat
    BY <1>1, ImportAssumption DEF FileInv, Rows
  <2> QED
    BY <2>1, <2>2, MoreSpent
<1>10. (buffered => read' >= 1) /\ \A x \in Rows : x > read' => records[x] = 0
  BY <1>1, <1>2, <1>3 DEF FileInv, Rows
<1> QED
  BY <1>1, <1>2, <1>8, <1>9, <1>10 DEF FileInv

LEMMA CreateKeeps ==
  ASSUME OnceInv, NEW r \in Requests, Create(r)
  PROVE  FileInv'
<1>1. BufferHolds /\ FileInv /\ Run(r)
  BY DEF OnceInv, Run
<1>2. pc[r] = "row" /\ UNCHANGED <<read, buffered, row, buf>>
  BY DEF Create, local
<1>3. \A q \in Requests : Reading(q)' => Reading(q) /\ q # r
  BY <1>1, <1>2 DEF Create, Goto, BufferHolds, Reading
<1>4. CASE records' = records
  BY <1>1, <1>2, <1>3, <1>4, FileUntouched
<1>5. CASE records' # records
  <2>1. records' = [records EXCEPT ![row[r]] = @ + 1] /\ pc' = [pc EXCEPT ![r] = "created"]
    BY <1>5 DEF Create, Goto
  <2>2. CASE buf[r]
    <3>1. row[r] = 1 /\ buffered /\ 1 \in Rows
      BY <1>1, <1>2, <2>2, ImportAssumption DEF BufferHolds, InRow, Rows
    <3>2. r \in Spent' \ Spent
      BY <1>1, <1>2, <2>1, <2>2 DEF Create, Spent, OnceInv, EarlyInv, Before, BufferHolds, history
    <3>3. records[1] + 1 <= Cardinality(Spent')
      BY <1>1, <3>1, <3>2, MoreSpent DEF FileInv
    <3>4. records' \in [Rows -> Nat] /\ \A x \in Rows : records'[x] = IF x = 1 THEN records[1] + 1 ELSE records[x]
      BY <1>1, <2>1, <3>1 DEF FileInv
    <3>5. \A q \in Requests : Reading(q) => row[q] \in Rows /\ row[q] # 1
      BY <1>1, <3>1, ImportAssumption DEF FileInv, BufferHolds, Rows
    <3>6. \A x \in Rows : x > read => records'[x] = 0
      BY <1>1, <3>1, <3>4 DEF FileInv, BufferHolds
    <3>7. \A q \in Requests : Reading(q)' => records'[row'[q]] = 0
      BY <1>1, <1>2, <1>3, <3>4, <3>5 DEF FileInv
    <3> QED
      BY <1>1, <1>2, <1>3, <3>1, <3>3, <3>4, <3>6, <3>7 DEF FileInv
  <2>3. CASE ~buf[r]
    <3>1. /\ Reading(r) /\ row[r] \in Rows /\ row[r] <= read /\ records[row[r]] = 0
          /\ buffered => row[r] # 1
      BY <1>1, <1>2, <2>3, ImportAssumption DEF FileInv, Reading, Rows, BufferHolds
    <3>2. records' \in [Rows -> Nat] /\ \A x \in Rows : records'[x] = IF x = row[r] THEN 1 ELSE records[x]
      BY <1>1, <2>1, <3>1 DEF FileInv
    <3>3. \A x \in Rows : x > read => records'[x] = 0
      BY <1>1, <3>1, <3>2 DEF FileInv, Rows, BufferHolds
    <3>4. \A q \in Requests : Reading(q)' => row[q] \in Rows /\ row[q] # row[r]
      BY <1>1, <1>3, <3>1, ImportAssumption DEF FileInv, BufferHolds, Rows
    <3>5. \A q \in Requests : Reading(q)' => records'[row'[q]] = 0
      BY <1>1, <1>2, <1>3, <3>2, <3>4 DEF FileInv
    <3>6. buffered => records'[1] <= Cardinality(Spent')
      BY <1>1, <3>1, <3>2, MoreSpent, ImportAssumption DEF FileInv, Rows
    <3> QED
      BY <1>1, <1>2, <1>3, <3>2, <3>3, <3>5, <3>6 DEF FileInv
  <2> QED
    BY <2>2, <2>3
<1> QED
  BY <1>4, <1>5

LEMMA OnceKeeps ==
  ASSUME OnceInv, NEW r \in Requests, Find(r) \/ Run(r)
  PROVE  OnceInv'
<1>1. BufferHolds
  BY DEF OnceInv
<1>2. CASE TakeBuffered(r)
  <2>1. \A q \in Requests : Reading(q)' => Reading(q) /\ q # r
    BY <1>1, <1>2 DEF TakeBuffered, Reading, Goto, BufferHolds, local
  <2>2. /\ UNCHANGED <<records, read, buffered>>
        /\ \A q \in Requests : Reading(q)' => row'[q] = row[q]
    BY <1>1, <1>2, <2>1 DEF TakeBuffered, BufferHolds
  <2>3. buffered => records[1] <= Cardinality(Spent')
    BY <1>2, MoreSpent, ImportAssumption DEF OnceInv, FileInv, Rows, Run
  <2>4. FileInv'
    BY <2>1, <2>2, <2>3 DEF OnceInv, FileInv
  <2> QED
    BY <1>1, <2>4, EarlyKeeps, BufferKeeps DEF OnceInv
<1>3. ASSUME Find(r) \/ Run(r), ~TakeBuffered(r), ~ReadRow(r), ~Create(r)
      PROVE  FileInv'
  <2>1. UNCHANGED <<records, read, buffered, row>>
    BY <1>3 DEF Find, Run, MakeFields, FillFields, SetOnError, CheckDecoder, CheckStarted,
         Start, Begin, ReadEnds, ConvertFails, LoadCount, StoreCompleted, StoreFailed,
         AfterFailure, Finish, local
  <2>2. \A q \in Requests : Reading(q)' => Reading(q)
    BY <1>1, <1>3 DEF Find, Run, MakeFields, FillFields, SetOnError, CheckDecoder, CheckStarted,
         Start, Begin, ReadEnds, ConvertFails, LoadCount, StoreCompleted, StoreFailed,
         AfterFailure, Finish, local, Returns, Goto, Reading, BufferHolds
  <2> QED
    BY <2>1, <2>2, FileUntouched
<1> QED
  BY <1>1, <1>2, <1>3, ReadRowKeeps, CreateKeeps, EarlyKeeps, BufferKeeps DEF OnceInv

LEMMA OnceHolds == Spec => []OnceInv
<1>1. OnceInv /\ UNCHANGED vars => OnceInv'
  BY DEF OnceInv, BufferHolds, EarlyInv, FileInv, Reading, Spent, Here, vars, session, local,
         history
<1>2. OnceInv /\ [Next]_vars => OnceInv'
  BY <1>1, OnceKeeps DEF Next
<1> QED
  BY OnceInit, <1>2, PTL DEF Spec

\* No row becomes two records, whatever the requests do, but the first of a
\* structured file: one for each request that was there before the start.
THEOREM RowsAreImportedOnce == Spec => []ImportedOnce
<1>1. OnceInv => ImportedOnce
  <2> SUFFICES ASSUME OnceInv, NEW x \in Rows, ~(records[x] <= 1)
               PROVE  x = 1 /\ buffered /\ records[x] <= Cardinality(early)
    BY DEF ImportedOnce
  <2>1. x = 1 /\ buffered /\ records[x] <= Cardinality(Spent) /\ records[x] \in Nat
    BY DEF OnceInv, FileInv
  <2>2. IsFiniteSet(early) /\ Spent \subseteq early
    BY DEF OnceInv, EarlyInv, Spent
  <2>3. /\ Cardinality(Spent) \in Nat /\ Cardinality(early) \in Nat
        /\ Cardinality(Spent) <= Cardinality(early)
    BY <2>2, FS_Subset, FS_CardinalityType
  <2> QED
    BY <2>1, <2>3
<1> QED
  BY <1>1, OnceHolds, PTL

-----------------------------------------------------------------------------
(* What is counted *)

Working == {"reading", "row", "created", "refused", "completing", "failing", "failed",
            "ending"}

\* Rows that are records, and those the import of r has dealt with
Imported == {x \in Rows : records[x] > 0}
Seen(r)  == Imported \cup failures[r]

\* Nothing was imported; and the file is as the upload has left it.
Untouched ==
  /\ Imported = {} /\ completed = 0 /\ failed = 0
  /\ read = IF buffered THEN 1 ELSE 0

CountTypes ==
  /\ BufferHolds
  /\ completed \in Nat /\ failed \in Nat
  /\ tmp \in [Requests -> Nat] /\ err \in [Requests -> BOOLEAN]
  /\ records \in [Rows -> Nat]
  /\ arrived \in [Requests -> SUBSET Requests]
  /\ failures \in [Requests -> SUBSET Rows]
  /\ \A r \in Requests : pc[r] = "row" => row[r] \in Rows

\* An import that has begun is known by those who were there, and whoever has not
\* begun has done nothing.
BegunInv ==
  \A r \in Requests :
    /\ arrived[r] # {} => pc[r] \in Working \cup {"done"}
    /\ pc[r] \in Working => arrived[r] # {}
    /\ arrived[r] = {} => failures[r] = {} /\ ~ err[r]

\* The counters of the only import r: what it has in hand is not counted yet.
Counts(r) ==
  /\ Imported \cap failures[r] = {}
  /\ completed + (IF pc[r] \in {"created", "completing"} THEN 1 ELSE 0) = Cardinality(Imported)
  /\ failed + (IF pc[r] \in {"refused", "failing"} THEN 1 ELSE 0) = Cardinality(failures[r])
  /\ pc[r] = "completing" => tmp[r] = completed
  /\ pc[r] = "failing" => tmp[r] = failed

\* It has dealt with all that was read, but with the row in hand, and the first
\* of a structured file, which could not be converted or is still in its buffer.
Covers(r) ==
  /\ Seen(r) \subseteq 1..read
  /\ pc[r] = "row" => row[r] \in (1..read) \ Seen(r)
  /\ buf[r] => /\ read = 1 /\ pc[r] \notin {"ending", "done"}
               /\ pc[r] = "reading" => Seen(r) = {}
  /\ ~ buf[r] /\ ~ err[r] => \A x \in 1..read :
       x \in Seen(r) \/ (pc[r] = "row" /\ x = row[r]) \/ (buffered /\ x = 1)
  /\ pc[r] \in {"ending", "done"} => err[r] \/ read = Size

CountInv ==
  /\ CountTypes /\ BegunInv
  /\ Imports = {} => Untouched
  /\ \A r \in Requests : Imports = {r} =>
       IF arrived[r] = {} THEN Untouched ELSE Counts(r) /\ Covers(r)

\* Only who takes a row gets to have one in hand.
LEMMA RowInHand ==
  ASSUME CountTypes, NEW r \in Requests, Find(r) \/ Run(r), NEW q \in Requests
  PROVE  pc'[q] = "row" => row'[q] \in Rows
<1> USE DEF CountTypes, BufferHolds
<1>1. CASE TakeBuffered(r) \/ ReadRow(r)
  <2>1. 1 \in Rows /\ (read < Size => read + 1 \in Rows)
    BY ImportAssumption DEF Rows
  <2>2. CASE q = r
    BY <1>1, <2>1, <2>2 DEF TakeBuffered, ReadRow
  <2>3. CASE q # r
    BY <1>1, <2>3 DEF TakeBuffered, ReadRow, Goto
  <2> QED
    BY <2>2, <2>3
<1>2. ASSUME Find(r) \/ Run(r), ~(TakeBuffered(r) \/ ReadRow(r))
      PROVE  pc'[q] = "row" => row'[q] \in Rows
  <2>1. row' = row
    BY <1>2 DEF Find, Run, MakeFields, FillFields, SetOnError, CheckDecoder, CheckStarted,
         Start, Begin, ReadEnds, ConvertFails, Create, LoadCount, StoreCompleted, StoreFailed,
         AfterFailure, Finish, local
  <2>2. pc'[q] = "row" => pc[q] = "row"
    BY <1>2 DEF Find, Run, MakeFields, FillFields, SetOnError, CheckDecoder, CheckStarted,
         Start, Begin, ReadEnds, ConvertFails, Create, LoadCount, StoreCompleted, StoreFailed,
         AfterFailure, Finish, Returns, Goto
  <2> QED
    BY <2>1, <2>2
<1> QED
  BY <1>1, <1>2

LEMMA CountTypesKept ==
  ASSUME CountTypes, NEW r \in Requests, Find(r) \/ Run(r)
  PROVE  CountTypes'
<1>1. BufferHolds' /\ \A q \in Requests : pc'[q] = "row" => row'[q] \in Rows
  BY BufferKeeps, RowInHand DEF CountTypes
<1> USE DEF CountTypes
<1>2. CASE Find(r) \/ MakeFields(r) \/ FillFields(r) \/ SetOnError(r)
  BY <1>1, <1>2 DEF Find, MakeFields, FillFields, SetOnError, session, local, history
<1>3. CASE CheckDecoder(r) \/ CheckStarted(r) \/ Start(r) \/ Begin(r)
  BY <1>1, <1>3 DEF CheckDecoder, CheckStarted, Start, Begin, Here, session, local, history
<1>4. CASE TakeBuffered(r) \/ ReadRow(r) \/ ReadEnds(r)
  BY <1>1, <1>4 DEF TakeBuffered, ReadRow, ReadEnds, session, history
<1>5. CASE ConvertFails(r)
  BY <1>1, <1>5 DEF ConvertFails, Returns, session, history
<1>6. CASE Create(r)
  <2>1. row[r] \in Rows
    BY <1>6 DEF Create
  <2>2. records' \in [Rows -> Nat] /\ failures' \in [Requests -> SUBSET Rows]
    BY <1>6, <2>1 DEF Create
  <2> QED
    BY <1>1, <1>6, <2>2 DEF Create, session, local, history
<1>7. CASE LoadCount(r) \/ StoreFailed(r)
  BY <1>1, <1>7 DEF LoadCount, StoreFailed, session, history
<1>8. CASE StoreCompleted(r)
  <2>1. completed' \in Nat /\ tmp' \in [Requests -> Nat]
    BY <1>8 DEF StoreCompleted
  <2> QED
    BY <1>1, <1>8, <2>1 DEF StoreCompleted, Returns, history
<1>9. CASE AfterFailure(r)
  <2>1. err' \in [Requests -> BOOLEAN]
    BY <1>9 DEF AfterFailure, Returns
  <2> QED
    BY <1>1, <1>9, <2>1 DEF AfterFailure, history
<1>10. CASE Finish(r)
  BY <1>1, <1>10 DEF Finish, local, history
<1> QED
  BY <1>2, <1>3, <1>4, <1>5, <1>6, <1>7, <1>8, <1>9, <1>10 DEF Run

\* A step of r changes nothing that belongs to another request.
LEMMA NobodyElse ==
  ASSUME CountTypes, NEW r \in Requests, Find(r) \/ Run(r), NEW q \in Requests \ {r}
  PROVE  /\ pc'[q] = pc[q] /\ buf'[q] = buf[q] /\ row'[q] = row[q] /\ tmp'[q] = tmp[q]
         /\ err'[q] = err[q] /\ arrived'[q] = arrived[q] /\ failures'[q] = failures[q]
<1> USE DEF CountTypes, BufferHolds
<1>1. CASE Find(r) \/ MakeFields(r) \/ FillFields(r) \/ SetOnError(r)
  BY <1>1 DEF Find, MakeFields, FillFields, SetOnError, Goto, local, history
<1>2. CASE CheckDecoder(r) \/ CheckStarted(r) \/ Start(r) \/ Begin(r)
  BY <1>2 DEF CheckDecoder, CheckStarted, Start, Begin, Goto, local, history
<1>3. CASE TakeBuffered(r) \/ ReadRow(r) \/ ReadEnds(r)
  BY <1>3 DEF TakeBuffered, ReadRow, ReadEnds, Goto, history
<1>4. CASE ConvertFails(r) \/ StoreCompleted(r) \/ AfterFailure(r)
  BY <1>4 DEF ConvertFails, StoreCompleted, AfterFailure, Returns, Goto, history
<1>5. CASE Create(r) \/ LoadCount(r) \/ StoreFailed(r) \/ Finish(r)
  BY <1>5 DEF Create, LoadCount, StoreFailed, Finish, Goto, local, history
<1> QED
  BY <1>1, <1>2, <1>3, <1>4, <1>5 DEF Run

LEMMA BegunKept ==
  ASSUME CountTypes, BegunInv, NEW r \in Requests, Find(r) \/ Run(r)
  PROVE  BegunInv'
<1>1. /\ arrived'[r] # {} => pc'[r] \in Working \cup {"done"}
      /\ pc'[r] \in Working => arrived'[r] # {}
      /\ arrived'[r] = {} => failures'[r] = {} /\ ~ err'[r]
  <2> USE DEF CountTypes, BufferHolds, BegunInv, Working, Goto
  <2>1. CASE Begin(r)
    <3>1. r \in Here
      BY <2>1 DEF Begin, Here
    <3> QED
      BY <2>1, <3>1 DEF Begin, history
  <2>2. CASE Find(r) \/ MakeFields(r) \/ FillFields(r) \/ SetOnError(r)
    BY <2>2 DEF Find, MakeFields, FillFields, SetOnError, local, history
  <2>3. CASE CheckDecoder(r) \/ CheckStarted(r) \/ Start(r)
    BY <2>3 DEF CheckDecoder, CheckStarted, Start, local, history
  <2>4. CASE TakeBuffered(r) \/ ReadRow(r) \/ ReadEnds(r)
    BY <2>4 DEF TakeBuffered, ReadRow, ReadEnds, history
  <2>5. CASE ConvertFails(r) \/ StoreCompleted(r) \/ AfterFailure(r)
    BY <2>5 DEF ConvertFails, StoreCompleted, AfterFailure, Returns, history
  <2>6. CASE Create(r) \/ LoadCount(r) \/ StoreFailed(r) \/ Finish(r)
    BY <2>6 DEF Create, LoadCount, StoreFailed, Finish, local, history
  <2> QED
    BY <2>1, <2>2, <2>3, <2>4, <2>5, <2>6 DEF Run
<1> QED
  BY <1>1, NobodyElse DEF BegunInv

\* Who was let in stays so; and a step of another request, or of one that is not let
\* in by it, imports nothing.
LEMMA ImportsKept ==
  ASSUME CountTypes, BegunInv, NEW r \in Requests, Find(r) \/ Run(r)
  PROVE  /\ Imports \subseteq Imports'
         /\ Imports' \subseteq Imports \cup {r}
         /\ r \notin Imports' =>
              UNCHANGED <<completed, failed, records, read, buffered>>
         /\ r \in Imports' \ Imports => Start(r)
<1> USE DEF CountTypes, BufferHolds, BegunInv, Working, Goto
<1>1. \A q \in Requests \ {r} : q \in Imports <=> q \in Imports'
  BY NobodyElse DEF Imports
<1>2. CASE Find(r) \/ MakeFields(r) \/ FillFields(r) \/ SetOnError(r)
  BY <1>1, <1>2 DEF Find, MakeFields, FillFields, SetOnError, session, history, Imports
<1>3. CASE CheckDecoder(r) \/ CheckStarted(r)
  BY <1>1, <1>3 DEF CheckDecoder, CheckStarted, session, history, Imports
<1>4. CASE Start(r)
  BY <1>1, <1>4 DEF Start, history, Imports
<1>5. CASE Begin(r)
  BY <1>1, <1>5 DEF Begin, Imports
<1>6. CASE TakeBuffered(r) \/ ReadRow(r) \/ ReadEnds(r)
  BY <1>1, <1>6 DEF TakeBuffered, ReadRow, ReadEnds, Imports
<1>7. CASE ConvertFails(r) \/ StoreCompleted(r) \/ AfterFailure(r)
  BY <1>1, <1>7 DEF ConvertFails, StoreCompleted, AfterFailure, Returns, Imports
<1>8. CASE Create(r) \/ LoadCount(r) \/ StoreFailed(r)
  BY <1>1, <1>8 DEF Create, LoadCount, StoreFailed, Imports
<1>9. CASE Finish(r)
  BY <1>1, <1>9 DEF Finish, history, Imports
<1> QED
  BY <1>2, <1>3, <1>4, <1>5, <1>6, <1>7, <1>8, <1>9 DEF Run

\* The import that begins finds what the upload has left.
LEMMA BeginCounts ==
  ASSUME CountTypes, BegunInv, NEW r \in Requests, Begin(r), Untouched, arrived[r] = {}
  PROVE  (IF arrived[r] = {} THEN Untouched ELSE Counts(r) /\ Covers(r))'
<1>1. Imported' = Imported /\ Imported = {} /\ failures[r] = {} /\ ~ err[r] /\ 0 = Cardinality({})
  BY FS_EmptySet DEF Begin, Untouched, Imported, BegunInv
<1>2. CASE decoder
  <2>1. /\ pc'[r] = "reading" /\ buf'[r] = buffered /\ failures' = failures /\ err' = err
        /\ completed' = 0 /\ failed' = 0 /\ read' = read /\ buffered' = buffered
    BY <1>2 DEF Begin, CountTypes, BufferHolds, Goto, session, Untouched
  <2>2. Counts(r)'
    BY <1>1, <2>1 DEF Counts
  <2>3. Covers(r)'
    BY <1>1, <2>1 DEF Covers, Seen, Untouched, CountTypes, BufferHolds
  <2>4. arrived'[r] # {}
    BY <1>2 DEF Begin, CountTypes, Here
  <2> QED
    BY <2>2, <2>3, <2>4
<1>3. CASE ~decoder
  BY <1>1, <1>3 DEF Begin, Untouched, session
<1> QED
  BY <1>2, <1>3

\* The row in hand becomes a record, or a failure: one more of its kind.
LEMMA CreateCounts ==
  ASSUME CountTypes, NEW r \in Requests, Create(r), Counts(r), Covers(r)
  PROVE  Counts(r)' /\ Covers(r)'
<1>1. /\ pc[r] = "row" /\ row[r] \in 1..read /\ row[r] \notin Seen(r) /\ row[r] \in Rows
      /\ UNCHANGED <<completed, failed, read, buffered, buf, row, err>>
  BY DEF Create, Covers, CountTypes, session, local
<1>2. IsFiniteSet(Rows)
  BY ImportAssumption, FS_Interval DEF Rows
<1>3. /\ IsFiniteSet(Imported) /\ IsFiniteSet(failures[r])
      /\ Cardinality(Imported) \in Nat /\ Cardinality(failures[r]) \in Nat
  BY <1>2, FS_Subset, FS_CardinalityType DEF Imported, CountTypes
<1>4. CASE records' = [records EXCEPT ![row[r]] = @ + 1] /\ pc' = [pc EXCEPT ![r] = "created"]
           /\ failures' = failures
  <2>1. Imported' = Imported \cup {row[r]} /\ row[r] \notin Imported
    BY <1>1, <1>4 DEF Imported, CountTypes, Seen
  <2>2. Cardinality(Imported') = Cardinality(Imported) + 1
    BY <1>3, <2>1, FS_AddElement
  <2>3. Seen(r)' = Seen(r) \cup {row[r]} /\ pc'[r] = "created"
    BY <1>4, <2>1 DEF Seen, CountTypes, BufferHolds
  <2>4. Counts(r)'
    BY <1>1, <1>3, <1>4, <2>1, <2>2, <2>3 DEF Counts, Seen, CountTypes
  <2>5. Covers(r)'
    BY <1>1, <2>3 DEF Covers
  <2> QED
    BY <2>4, <2>5
<1>5. CASE failures' = [failures EXCEPT ![r] = @ \cup {row[r]}] /\ records' = records
           /\ pc' = [pc EXCEPT ![r] = "refused"]
  <2>1. failures'[r] = failures[r] \cup {row[r]} /\ row[r] \notin failures[r]
    BY <1>1, <1>5 DEF Seen, CountTypes
  <2>2. Cardinality(failures'[r]) = Cardinality(failures[r]) + 1
    BY <1>3, <2>1, FS_AddElement
  <2>3. Seen(r)' = Seen(r) \cup {row[r]} /\ pc'[r] = "refused" /\ Imported' = Imported
    BY <1>5, <2>1 DEF Seen, Imported, CountTypes, BufferHolds
  <2>4. Counts(r)'
    BY <1>1, <1>3, <2>1, <2>2, <2>3 DEF Counts, Seen, CountTypes
  <2>5. Covers(r)'
    BY <1>1, <2>3 DEF Covers
  <2> QED
    BY <2>4, <2>5
<1> QED
  BY <1>4, <1>5 DEF Create, Goto

\* Every other step of an import at work
LEMMA WorkCounts ==
  ASSUME CountTypes, NEW r \in Requests, Run(r), pc[r] \in Working, Counts(r), Covers(r)
  PROVE  Counts(r)' /\ Covers(r)'
<1> USE DEF CountTypes, BufferHolds, Goto
<1>1. CASE Create(r)
  BY <1>1, CreateCounts
<1>2. ASSUME ~Create(r)
      PROVE  UNCHANGED <<records, failures, buffered>>
  BY <1>2 DEF Run, MakeFields, FillFields, SetOnError, CheckDecoder, CheckStarted, Start,
       Begin, TakeBuffered, ReadRow, ReadEnds, ConvertFails, LoadCount, StoreCompleted,
       StoreFailed, AfterFailure, Finish, history
<1>3. ~Create(r) => Imported' = Imported /\ Seen(r)' = Seen(r)
  BY <1>2 DEF Imported, Seen
<1>4. CASE TakeBuffered(r)
  <2>1. Counts(r)'
    BY <1>2, <1>3, <1>4 DEF TakeBuffered, Create, Counts, session
  <2>2. Covers(r)'
    BY <1>2, <1>3, <1>4 DEF TakeBuffered, Create, Covers
  <2> QED
    BY <2>1, <2>2
<1>5. CASE ReadRow(r)
  <2>1. Counts(r)'
    BY <1>2, <1>3, <1>5 DEF ReadRow, Create, Counts, session
  <2>2. Covers(r)'
    <3>1. read + 1 \notin Seen(r) /\ Seen(r) \subseteq 1..(read + 1) /\ read + 1 \in 1..(read + 1)
      BY DEF Covers
    <3>2. pc'[r] = "row" /\ row'[r] = read + 1 /\ read' = read + 1 /\ ~buf[r] /\ buf' = buf /\ err' = err
      BY <1>5 DEF ReadRow, local
    <3>3. ~ err[r] => \A x \in 1..read : x \in Seen(r) \/ (buffered /\ x = 1)
      BY <1>5 DEF ReadRow, Covers
    <3> QED
      BY <1>2, <1>3, <1>5, <3>1, <3>2, <3>3 DEF ReadRow, Create, Covers
  <2> QED
    BY <2>1, <2>2
<1>6. CASE ReadEnds(r)
  <2>1. Counts(r)'
    BY <1>2, <1>3, <1>6 DEF ReadEnds, Create, Counts, session
  <2>2. Covers(r)'
    BY <1>2, <1>3, <1>6 DEF ReadEnds, Create, Covers
  <2> QED
    BY <2>1, <2>2
<1>7. CASE ConvertFails(r)
  <2>1. Imported' = Imported /\ Seen(r)' = Seen(r) /\ UNCHANGED <<failures, buffered>>
    BY <1>7 DEF ConvertFails, Imported, Seen, history
  <2>2. Counts(r)'
    BY <1>7, <2>1 DEF ConvertFails, Returns, Counts, session
  <2>3. Covers(r)'
    BY <1>7, <2>1 DEF ConvertFails, Returns, Covers
  <2> QED
    BY <2>2, <2>3
<1>8. CASE LoadCount(r)
  <2>1. Counts(r)'
    BY <1>2, <1>3, <1>8 DEF LoadCount, Create, Counts, session
  <2>2. Covers(r)'
    BY <1>2, <1>3, <1>8 DEF LoadCount, Create, Covers
  <2> QED
    BY <2>1, <2>2
<1>9. CASE StoreCompleted(r)
  <2>1. Counts(r)'
    BY <1>2, <1>3, <1>9 DEF StoreCompleted, Create, Returns, Counts
  <2>2. Covers(r)'
    BY <1>2, <1>3, <1>9 DEF StoreCompleted, Create, Returns, Covers
  <2> QED
    BY <2>1, <2>2
<1>10. CASE StoreFailed(r)
  <2>1. Counts(r)'
    BY <1>2, <1>3, <1>10 DEF StoreFailed, Create, Counts
  <2>2. Covers(r)'
    BY <1>2, <1>3, <1>10 DEF StoreFailed, Create, Covers
  <2> QED
    BY <2>1, <2>2
<1>11. CASE AfterFailure(r)
  <2>1. Counts(r)'
    BY <1>2, <1>3, <1>11 DEF AfterFailure, Create, Returns, Counts
  <2>2. Covers(r)'
    BY <1>2, <1>3, <1>11 DEF AfterFailure, Create, Returns, Covers
  <2> QED
    BY <2>1, <2>2
<1>12. CASE Finish(r)
  <2>1. Counts(r)'
    BY <1>2, <1>3, <1>12 DEF Finish, Create, Counts
  <2>2. Covers(r)'
    BY <1>2, <1>3, <1>12 DEF Finish, Create, Covers, local
  <2> QED
    BY <2>1, <2>2
<1> QED
  BY <1>1, <1>4, <1>5, <1>6, <1>7, <1>8, <1>9, <1>10, <1>11, <1>12
     DEF Run, Working, MakeFields, FillFields, SetOnError, CheckDecoder, CheckStarted, Start, Begin

LEMMA CountInit == Init => CountInv
<1> SUFFICES ASSUME Init PROVE CountInv
  OBVIOUS
<1>1. CountTypes
  BY BufferInit DEF Init, CountTypes
<1>2. BegunInv /\ Imports = {}
  BY DEF Init, BegunInv, Working, Imports
<1>3. Untouched
  BY DEF Init, Untouched, Imported
<1> QED
  BY <1>1, <1>2, <1>3 DEF CountInv

LEMMA CountKeeps ==
  ASSUME CountInv, NEW q \in Requests, Find(q) \/ Run(q)
  PROVE  CountInv'
<1>1. CountTypes /\ BegunInv /\ CountTypes' /\ BegunInv'
  BY CountTypesKept, BegunKept DEF CountInv
<1>2. /\ Imports \subseteq Imports' /\ Imports' \subseteq Imports \cup {q}
      /\ q \notin Imports' => UNCHANGED <<completed, failed, records, read, buffered>>
      /\ q \in Imports' \ Imports => Start(q)
  BY <1>1, ImportsKept
<1>3. UNCHANGED <<completed, failed, records, read, buffered>> /\ Untouched => Untouched'
  BY DEF Untouched, Imported
<1>4. Imports' = {} => Untouched'
  BY <1>2, <1>3 DEF CountInv
<1>5. ASSUME NEW r \in Requests, Imports' = {r}
      PROVE  (IF arrived[r] = {} THEN Untouched ELSE Counts(r) /\ Covers(r))'
  <2>1. CASE q # r
    <3>1. q \notin Imports' /\ Imports = {r}
      BY <1>2, <1>5, <2>1 DEF Start, Imports, Goto
    <3>2. UNCHANGED <<completed, failed, records, read, buffered>>
      BY <1>2, <3>1
    <3>3. /\ pc'[r] = pc[r] /\ buf'[r] = buf[r] /\ row'[r] = row[r] /\ tmp'[r] = tmp[r]
          /\ err'[r] = err[r] /\ arrived'[r] = arrived[r] /\ failures'[r] = failures[r]
      BY <1>1, <2>1, NobodyElse
    <3>4. Imported' = Imported /\ Seen(r)' = Seen(r)
      BY <3>2, <3>3 DEF Imported, Seen
    <3>5. Counts(r) /\ Covers(r) => Counts(r)' /\ Covers(r)'
      BY <3>2, <3>3, <3>4 DEF Counts, Covers
    <3> QED
      BY <1>3, <3>1, <3>2, <3>3, <3>5 DEF CountInv
  <2>2. CASE q = r /\ r \notin Imports
    <3>1. Start(r) /\ Imports = {}
      BY <1>2, <1>5, <2>2
    <3>2. Untouched' /\ arrived'[r] = arrived[r] /\ pc[r] = "passed"
      BY <1>3, <3>1 DEF Start, CountInv, history
    <3>3. arrived[r] = {}
      BY <1>1, <3>2 DEF BegunInv, Working
    <3> QED
      BY <3>2, <3>3
  <2>3. CASE q = r /\ r \in Imports
    <3>1. Imports = {r} /\ Run(r)
      BY <1>2, <1>5, <2>3 DEF Find, Imports
    <3>2. CASE arrived[r] = {}
      <4>1. Begin(r) /\ Untouched
        BY <1>1, <3>1, <3>2 DEF CountInv, BegunInv, Working, Imports, Run, MakeFields, FillFields,
             SetOnError, CheckDecoder, CheckStarted, Start, TakeBuffered, ReadRow, ReadEnds,
             ConvertFails, Create, LoadCount, StoreCompleted, StoreFailed, AfterFailure, Finish
      <4> QED
        BY <1>1, <3>2, <4>1, BeginCounts
    <3>3. CASE arrived[r] # {}
      <4>1. pc[r] \in Working /\ Counts(r) /\ Covers(r)
        BY <1>1, <3>1, <3>3 DEF CountInv, BegunInv, Working, Run, MakeFields, FillFields,
             SetOnError, CheckDecoder, CheckStarted, Start, Begin, TakeBuffered, ReadRow, ReadEnds,
             ConvertFails, Create, LoadCount, StoreCompleted, StoreFailed, AfterFailure, Finish
      <4>2. Counts(r)' /\ Covers(r)'
        BY <1>1, <3>1, <4>1, WorkCounts
      <4>3. arrived' = arrived
        BY <3>1, <4>1 DEF Working, Run, MakeFields, FillFields,
             SetOnError, CheckDecoder, CheckStarted, Start, Begin, TakeBuffered, ReadRow, ReadEnds,
             ConvertFails, Create, LoadCount, StoreCompleted, StoreFailed, AfterFailure, Finish,
             history
      <4> QED
        BY <3>3, <4>2, <4>3
    <3> QED
      BY <3>2, <3>3
  <2> QED
    BY <2>1, <2>2, <2>3
<1> QED
  BY <1>1, <1>4, <1>5 DEF CountInv

\* At its end the counters tell how many rows there are of each kind.
LEMMA CountsAtTheEnd == CountInv => EveryRowIsCounted
<1> SUFFICES ASSUME CountInv, NEW r \in Requests, Imports = {r}, pc[r] = "done"
             PROVE  /\ completed = Cardinality({x \in Rows : records[x] > 0})
                    /\ \/ err[r]
                       \/ completed + failed = Size
                       \/ buffered /\ records[1] = 0 /\ completed + failed = Size - 1
  BY DEF EveryRowIsCounted
<1>1. Counts(r) /\ Covers(r) /\ CountTypes
  BY DEF CountInv, Imports
<1>2. completed = Cardinality(Imported) /\ failed = Cardinality(failures[r])
  BY <1>1 DEF Counts, CountTypes
<1>3. SUFFICES ASSUME ~ err[r]
               PROVE  \/ completed + failed = Size
                      \/ buffered /\ records[1] = 0 /\ completed + failed = Size - 1
  BY <1>2 DEF Imported
<1>4. /\ Seen(r) \subseteq 1..Size
      /\ \A x \in 1..Size : x \in Seen(r) \/ (buffered /\ x = 1)
  BY <1>1, <1>3 DEF Covers, CountTypes, BufferHolds
<1>5. Cardinality(Seen(r)) = completed + failed
  <2>1. IsFiniteSet(Rows)
    BY ImportAssumption, FS_Interval DEF Rows
  <2>2. IsFiniteSet(Rows) /\ Imported \subseteq Rows /\ failures[r] \subseteq Rows
    BY <1>1, <2>1 DEF Imported, CountTypes
  <2>3. IsFiniteSet(Imported) /\ IsFiniteSet(failures[r]) /\ Imported \cap failures[r] = {}
    BY <1>1, <2>2, FS_Subset DEF Counts
  <2>4. /\ Cardinality(Imported \cup failures[r]) =
             Cardinality(Imported) + Cardinality(failures[r]) - Cardinality(Imported \cap failures[r])
        /\ Cardinality(Imported \cap failures[r]) = 0
    BY <2>3, FS_Union, FS_EmptySet
  <2> QED
    BY <1>1, <1>2, <2>4 DEF Seen, CountTypes
<1>6. IsFiniteSet(1..Size) /\ Cardinality(1..Size) = Size
  BY ImportAssumption, FS_Interval
<1>7. CASE 1 \in Seen(r)
  <2>1. Seen(r) = 1..Size
    BY <1>4, <1>7
  <2> QED
    BY <1>5, <1>6, <2>1
<1>8. CASE 1 \notin Seen(r)
  <2>1. 1 \in 1..Size /\ 1 \in Rows
    BY ImportAssumption DEF Rows
  <2>2. buffered /\ Seen(r) = (1..Size) \ {1}
    BY <1>4, <1>8, <2>1
  <2>3. Cardinality(Seen(r)) = Size - 1
    BY <1>6, <2>1, <2>2, FS_RemoveElement
  <2>4. records[1] = 0
    BY <1>1, <1>8, <2>1 DEF Seen, Imported, CountTypes
  <2> QED
    BY <1>5, <2>2, <2>3, <2>4
<1> QED
  BY <1>7, <1>8

LEMMA CountHolds == Spec => []CountInv
<1>1. CountInv /\ UNCHANGED vars => CountInv'
  <2> SUFFICES ASSUME CountInv, UNCHANGED vars PROVE CountInv'
    OBVIOUS
  <2> USE DEF vars, session, local, history
  <2>1. CountTypes' /\ BegunInv'
    BY DEF CountInv, CountTypes, BufferHolds, BegunInv
  <2>2. Imports' = Imports /\ Imported' = Imported /\ \A r : Seen(r)' = Seen(r)
    BY DEF Imports, Imported, Seen
  <2>3. Untouched <=> Untouched'
    BY <2>2 DEF Untouched
  <2>4. \A r \in Requests : Counts(r) /\ Covers(r) => Counts(r)' /\ Covers(r)'
    BY <2>2 DEF Counts, Covers
  <2> QED
    BY <2>1, <2>2, <2>3, <2>4 DEF CountInv
<1>2. CountInv /\ [Next]_vars => CountInv'
  BY <1>1, CountKeeps DEF Next
<1> QED
  BY CountInit, <1>2, PTL DEF Spec

\* What the session reports at the end of its only import is what was done.
THEOREM ReportIsTrue == Spec => []EveryRowIsCounted
BY CountHolds, CountsAtTheEnd, PTL

-----------------------------------------------------------------------------
(* Every import comes to an end *)

\* steps up to the end of a row, or of the request; a row takes 5 more
Rank(p) ==
  CASE p = "idle"    -> 10 [] p = "found"   -> 9  [] p = "made"    -> 8
    [] p = "filled"  -> 7  [] p = "ready"   -> 6  [] p = "open"    -> 5
    [] p = "passed"  -> 4  [] p = "started" -> 3
    [] p = "row"     -> 6
    [] p \in {"created", "refused"}    -> 5
    [] p \in {"completing", "failing"} -> 4
    [] p = "failed"  -> 3  [] p = "reading" -> 2  [] p = "ending"  -> 1
    [] OTHER -> 0

\* the first row of a structured file is, or may come to be, still in its buffer
HasBuffered(r) == pc[r] \in Before \/ (pc[r] = "reading" /\ buf[r])

\* a bound on the steps that r can still take, whatever the others do
StepsLeft(r) ==
  5 * (Size - read) + (IF HasBuffered(r) THEN 5 ELSE 0) + Rank(pc[r])

\* The more is read, the less is left.
LEMMA MoreRead ==
  ASSUME NEW m \in 0..Size, NEW n \in 0..Size, m <= n, NEW d \in Nat
  PROVE  5 * (Size - n) + d <= 5 * (Size - m) + d
<1>1. Size \in Int /\ m \in Int /\ n \in Int
  BY ImportAssumption
<1> QED
  BY <1>1

LEMMA StepsLeftType ==
  ASSUME BufferHolds, NEW r \in Requests
  PROVE  StepsLeft(r) \in Nat
BY ImportAssumption DEF BufferHolds, StepsLeft, Rank, Steps

\* A step reads no row twice, moves nobody else, and uses up one of its own.
LEMMA StepsRunOut ==
  ASSUME BufferHolds, NEW r \in Requests, Find(r) \/ Run(r)
  PROVE  /\ read <= read' /\ StepsLeft(r)' < StepsLeft(r)
         /\ \A q \in Requests \ {r} : pc'[q] = pc[q] /\ buf'[q] = buf[q]
<1> USE ImportAssumption DEF BufferHolds, StepsLeft, HasBuffered, Before, Rank, Steps, Goto,
                             session, local, history
<1>1. CASE Find(r)
  BY <1>1 DEF Find
<1>2. CASE MakeFields(r) \/ FillFields(r) \/ SetOnError(r)
  BY <1>2 DEF MakeFields, FillFields, SetOnError
<1>3. CASE CheckDecoder(r) \/ CheckStarted(r) \/ Start(r)
  BY <1>3 DEF CheckDecoder, CheckStarted, Start
<1>4. CASE Begin(r)
  <2>1. CASE decoder
    BY <1>4, <2>1 DEF Begin
  <2>2. CASE ~decoder
    BY <1>4, <2>2 DEF Begin
  <2> QED
    BY <2>1, <2>2
<1>5. CASE TakeBuffered(r)
  BY <1>5 DEF TakeBuffered
<1>6. CASE ReadRow(r)
  BY <1>6 DEF ReadRow
<1>7. CASE ReadEnds(r) \/ Finish(r)
  <2>1. CASE ReadEnds(r)
    BY <2>1 DEF ReadEnds
  <2>2. CASE Finish(r)
    BY <2>2 DEF Finish
  <2> QED
    BY <1>7, <2>1, <2>2
<1>8. CASE ConvertFails(r)
  BY <1>8 DEF ConvertFails, Returns
<1>9. CASE Create(r)
  BY <1>9 DEF Create
<1>10. CASE LoadCount(r) \/ StoreFailed(r)
  BY <1>10 DEF LoadCount, StoreFailed
<1>11. CASE StoreCompleted(r)
  BY <1>11 DEF StoreCompleted, Returns
<1>12. CASE AfterFailure(r)
  BY <1>12 DEF AfterFailure, Returns
<1> QED
  BY <1>1, <1>2, <1>3, <1>4, <1>5, <1>6, <1>7, <1>8, <1>9, <1>10, <1>11, <1>12 DEF Run

\* Nobody imports for ever: each step of a request takes one from the number of those
\* it has left, which nobody else adds to and which is never negative (Import and the
\* loops of the decoders).  That it takes them is fairness, and left to TLC.
THEOREM ImportsRunOut ==
  Spec =>
    /\ [](\A r \in Requests : StepsLeft(r) \in Nat)
    /\ [][\A r \in Requests : /\ StepsLeft(r)' <= StepsLeft(r)
                              /\ Find(r) \/ Run(r) => StepsLeft(r)' < StepsLeft(r)]_vars
<1>1. BufferHolds => \A r \in Requests : StepsLeft(r) \in Nat
  BY StepsLeftType
<1>2. ASSUME BufferHolds, NEW q \in Requests, Find(q) \/ Run(q), NEW r \in Requests
      PROVE  StepsLeft(r)' <= StepsLeft(r) /\ (Find(r) \/ Run(r) => StepsLeft(r)' < StepsLeft(r))
  <2> BufferHolds
    BY <1>2
  <2>1. StepsLeft(r) \in Nat /\ StepsLeft(r)' \in Nat
    <3>1. BufferHolds'
      BY <1>2, BufferKeeps
    <3>2. StepsLeft(r)' \in Nat
      BY <3>1, ImportAssumption DEF BufferHolds, StepsLeft, Rank, Steps
    <3> QED
      BY <3>2, StepsLeftType
  <2>2. CASE r = q
    <3>1. StepsLeft(r)' < StepsLeft(r)
      BY <1>2, <2>2, StepsRunOut
    <3> QED
      BY <2>1, <3>1
  <2>3. CASE r # q
    <3>1. read <= read' /\ pc'[r] = pc[r] /\ buf'[r] = buf[r]
      BY <1>2, <2>3, StepsRunOut
    <3>2. read \in 0..Size /\ read' \in 0..Size
      BY <1>2, BufferKeeps DEF BufferHolds
    <3>3. StepsLeft(r)' <= StepsLeft(r)
      <4> DEFINE rest == (IF HasBuffered(r) THEN 5 ELSE 0) + Rank(pc[r])
      <4>1. rest' = rest /\ rest \in Nat
        BY <1>2, <3>1 DEF BufferHolds, HasBuffered, Rank, Steps
      <4>2. StepsLeft(r) = 5 * (Size - read) + rest
            /\ StepsLeft(r)' = 5 * (Size - read') + rest'
        BY <3>2, <1>2, ImportAssumption DEF StepsLeft, BufferHolds, Rank, Steps
      <4> HIDE DEF rest
      <4>3. read <= read'
        BY <3>1
      <4>4. 5 * (Size - read') + rest <= 5 * (Size - read) + rest
        BY <3>2, <4>1, <4>3, MoreRead
      <4> QED
        BY <4>1, <4>2, <4>4
    <3>4. Find(r) \/ Run(r) => StepsLeft(r)' < StepsLeft(r)
      BY <1>2, StepsRunOut
    <3> QED
      BY <3>3, <3>4
  <2> QED
    BY <2>2, <2>3
<1>3. BufferHolds /\ [Next]_vars =>
        [\A r \in Requests : /\ StepsLeft(r)' <= StepsLeft(r)
                             /\ Find(r) \/ Run(r) => StepsLeft(r)' < StepsLeft(r)]_vars
  BY <1>2 DEF Next
<1>4. Spec => []BufferHolds
  BY OnceHolds, PTL DEF OnceInv
<1> QED
  BY <1>1, <1>3, <1>4, PTL DEF Spec

-----------------------------------------------------------------------------
(* Requests that do not overlap *)

Under == {r \in Requests : pc[r] \notin {"idle", "done", "panicked"}}
OneAtATime == \A p, q \in Under : p = q

Sent == {"filled", "ready", "open", "passed", "started"}

\* Then whoever is to start the session is the first, and works with its own map.
SerialInv ==
  /\ \A p, q \in Imports : p = q
  /\ \A x \in Rows : records[x] <= 1
  /\ ~started => decoder /\ ~finished /\ Imports = {}
  /\ \A r \in Requests :
       /\ pc[r] # "panicked"
       /\ pc[r] = "passed" => ~started
       /\ pc[r] = "started" => decoder
       /\ pc[r] \in Sent \cup {"made"} => fields = r
       /\ pc[r] \in Sent => r \in maps[r]
       /\ maps[r] \subseteq {r}
       /\ arrived[r] # {} => mapped[r] = r /\ maps[r] = {r}

\* What the steps before a request is let in do
LEMMA AskingSerial ==
  ASSUME IInv, CountInv, SerialInv, OneAtATime, NEW r \in Requests,
         Find(r) \/ MakeFields(r) \/ FillFields(r) \/ SetOnError(r)
           \/ CheckDecoder(r) \/ CheckStarted(r)
  PROVE  SerialInv'
<1> USE DEF IInv, MapTypes, CountInv, BegunInv, SerialInv, Sent, Under, Working, Goto, Imports
<1>1. UNCHANGED <<decoder, started, finished, records, mapped, arrived>>
  BY DEF Find, MakeFields, FillFields, SetOnError, CheckDecoder, CheckStarted,
         session, local, history
<1>2. pc[r] \in {"idle", "found", "made", "filled", "ready", "open"} /\ arrived[r] = {}
      /\ pc'[r] \notin {"started", "panicked"} \cup Working
      /\ \A q \in Requests \ {r} : pc'[q] = pc[q]
  BY DEF Find, MakeFields, FillFields, SetOnError, CheckDecoder, CheckStarted
<1>3. Imports' = Imports
  BY <1>1, <1>2
<1>4. CASE Find(r)
  BY <1>1, <1>2, <1>3, <1>4 DEF Find, session
<1>5. CASE MakeFields(r)
  <2>1. fields' = r /\ maps' = maps /\ pc'[r] = "made"
    BY <1>5 DEF MakeFields
  <2>2. \A q \in Requests \ {r} : pc[q] \notin Sent \cup {"made"}
    BY <1>5 DEF MakeFields, OneAtATime
  <2> QED
    BY <1>1, <1>2, <1>3, <2>1, <2>2
<1>6. CASE FillFields(r)
  <2>1. fields' = fields /\ fields = r
    BY <1>6 DEF FillFields
  <2>2. /\ \A q \in Requests \ {r} : maps'[q] = maps[q]
        /\ maps'[r] \subseteq {r}
        /\ pc'[r] = "filled" => r \in maps'[r]
        /\ pc'[r] \in {"filled", "done"}
    BY <1>6, <2>1 DEF FillFields
  <2> QED
    BY <1>1, <1>2, <1>3, <2>1, <2>2
<1>7. CASE SetOnError(r)
  BY <1>1, <1>2, <1>3, <1>7 DEF SetOnError
<1>8. CASE CheckDecoder(r)
  BY <1>1, <1>2, <1>3, <1>8 DEF CheckDecoder, session
<1>9. CASE CheckStarted(r)
  BY <1>1, <1>2, <1>3, <1>9 DEF CheckStarted, session
<1> QED
  BY <1>4, <1>5, <1>6, <1>7, <1>8, <1>9

\* Who is let in is alone, and finds the decoder.
LEMMA StartsSerial ==
  ASSUME IInv, CountInv, SerialInv, OneAtATime, NEW r \in Requests, Start(r) \/ Begin(r)
  PROVE  SerialInv'
<1> USE DEF IInv, MapTypes, CountInv, BegunInv, SerialInv, Sent, Under, Working, Goto
<1>1. \A q \in Requests \ {r} : pc[q] \in {"idle", "done"} /\ pc'[q] = pc[q]
  BY DEF Start, Begin, OneAtATime
<1>2. CASE Start(r)
  <2>1. decoder' /\ started' /\ Imports = {} /\ pc'[r] = "started"
    BY <1>2 DEF Start, SetByID
  <2>2. UNCHANGED <<fields, maps, records, mapped, arrived>>
    BY <1>2 DEF Start, local, history
  <2>3. Imports' \subseteq {r}
    BY <1>1, <2>1, <2>2 DEF Imports
  <2> QED
    BY <1>1, <1>2, <2>1, <2>2, <2>3 DEF Start
<1>3. CASE Begin(r)
  <2>1. decoder /\ pc[r] = "started" /\ pc'[r] = "reading" /\ started
    BY <1>3 DEF Begin, Imports
  <2>2. /\ UNCHANGED <<decoder, started, fields, maps, records>>
        /\ mapped' = [mapped EXCEPT ![r] = fields]
        /\ \A q \in Requests \ {r} : arrived'[q] = arrived[q]
    BY <1>3, <2>1 DEF Begin, session
  <2>3. Imports' = Imports
    BY <1>1, <2>1, <2>2 DEF Imports
  <2>4. mapped'[r] = r /\ maps[r] = {r}
    BY <2>1, <2>2
  <2> QED
    BY <1>1, <2>1, <2>2, <2>3, <2>4
<1> QED
  BY <1>2, <1>3

\* The import only moves on; and it makes a record of no row twice.
LEMMA WorkSerial ==
  ASSUME IInv, CountInv, SerialInv, OneAtATime, NEW r \in Requests,
         TakeBuffered(r) \/ ReadRow(r) \/ ReadEnds(r) \/ ConvertFails(r) \/ Create(r)
           \/ LoadCount(r) \/ StoreCompleted(r) \/ StoreFailed(r) \/ AfterFailure(r)
           \/ Finish(r)
  PROVE  SerialInv'
<1> USE DEF IInv, MapTypes, CountInv, BegunInv, SerialInv, Working
<1>1. UNCHANGED <<started, fields, maps, mapped, arrived>>
  BY DEF TakeBuffered, ReadRow, ReadEnds, ConvertFails, Create, LoadCount, StoreCompleted,
         StoreFailed, AfterFailure, Finish, session, local, history
<1>2. pc[r] \in Working /\ pc'[r] \in Working \cup {"done"}
      /\ \A q \in Requests \ {r} : pc'[q] = pc[q]
  BY DEF TakeBuffered, ReadRow, ReadEnds, ConvertFails, Create, LoadCount, StoreCompleted,
         StoreFailed, AfterFailure, Finish, Returns, Goto
<1>3. arrived[r] # {} /\ r \in Imports /\ Imports = {r} /\ started
  BY <1>2 DEF Imports
<1>4. Imports' = Imports
  BY <1>1, <1>2, <1>3 DEF Imports
<1>5. \A q \in Requests \ {r} : pc[q] \in {"idle", "done"}
  BY <1>2 DEF Under, OneAtATime
<1>6. \A x \in Rows : records'[x] <= 1
  <2>1. CASE Create(r)
    <3>1. row[r] \in Rows /\ records[row[r]] = 0
      BY <1>3, <2>1 DEF Create, Covers, Seen, Imported, CountTypes
    <3> QED
      BY <2>1, <3>1 DEF Create, CountTypes
  <2>2. CASE records' = records
    BY <2>2
  <2> QED
    BY <2>1, <2>2 DEF TakeBuffered, ReadRow, ReadEnds, ConvertFails, LoadCount, StoreCompleted,
         StoreFailed, AfterFailure, Finish
<1> QED
  BY <1>1, <1>2, <1>3, <1>4, <1>5, <1>6 DEF Sent

LEMMA SerialInit == Init => SerialInv
<1> SUFFICES ASSUME Init PROVE SerialInv
  OBVIOUS
<1>1. Imports = {}
  BY DEF Init, Imports
<1> QED
  BY <1>1 DEF Init, SerialInv, Sent

LEMMA SerialStep ==
  ASSUME IInv, CountInv, SerialInv, OneAtATime, [Next]_vars
  PROVE  SerialInv'
<1>1. CASE UNCHANGED vars
  BY <1>1 DEF vars, session, local, history, SerialInv, Imports
<1>2. CASE Next
  BY <1>2, AskingSerial, StartsSerial, WorkSerial DEF Next, Run
<1> QED
  BY <1>1, <1>2

\* As long as the requests to run a session do not overlap, only one of them imports,
\* none panics, no row becomes two records, not even the buffered one, and the
\* import uses the mapping it was sent (ImportRun in rest/record.go, Import in
\* service/record.go): whatever else happens takes two at once.
THEOREM SerialImports ==
  Spec /\ []OneAtATime =>
    [](/\ \A p, q \in Imports : p = q
       /\ \A x \in Rows : records[x] <= 1
       /\ \A r \in Requests : /\ pc[r] # "panicked"
                              /\ arrived[r] # {} => maps[mapped[r]] = {r})
<1>1. IInv /\ CountInv /\ SerialInv /\ OneAtATime /\ [Next]_vars => SerialInv'
  BY SerialStep
<1>2. SerialInv =>
        /\ \A p, q \in Imports : p = q
        /\ \A x \in Rows : records[x] <= 1
        /\ \A r \in Requests : /\ pc[r] # "panicked"
                               /\ arrived[r] # {} => maps[mapped[r]] = {r}
  BY DEF SerialInv
<1> QED
  BY <1>1, <1>2, SerialInit, Inductive, CountHolds, PTL DEF Spec

\* And whenever an import is done, whatever was asked since, the session reports what
\* it did.
THEOREM SerialReport ==
  Spec /\ []OneAtATime =>
    [](\A r \in Imports : pc[r] = "done" =>
         /\ completed = Cardinality({x \in Rows : records[x] > 0})
         /\ \/ err[r]
            \/ completed + failed = Size
            \/ buffered /\ records[1] = 0 /\ completed + failed = Size - 1)
<1>1. IInv /\ CountInv /\ SerialInv /\ OneAtATime /\ [Next]_vars => SerialInv'
  BY SerialStep
<1>2. SerialInv => \A r \in Imports : Imports = {r} /\ r \in Requests
  BY DEF SerialInv, Imports
<1>3. SerialInv /\ EveryRowIsCounted =>
        \A r \in Imports : pc[r] = "done" =>
          /\ completed = Cardinality({x \in Rows : records[x] > 0})
          /\ \/ err[r]
             \/ completed + failed = Size
             \/ buffered /\ records[1] = 0 /\ completed + failed = Size - 1
  BY <1>2 DEF EveryRowIsCounted
<1> QED
  BY <1>1, <1>3, SerialInit, Inductive, CountHolds, ReportIsTrue, PTL DEF Spec

=============================================================================
