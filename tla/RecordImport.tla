----------------------------- MODULE RecordImport -----------------------------
(***************************************************************************)
(* The import of records from an uploaded file (compose/service/record.go, *)
(* import_session.go, compose/rest/record.go, compose/decoder).  An upload *)
(* makes a session with a decoder of the file; requests to run it find the *)
(* session by its id, set on it how fields are mapped and what is to be    *)
(* done about errors, and call Import, which creates a record for each row *)
(* and keeps count in the session.  The session is one object in memory;   *)
(* the lock of importSession covers the search for it, and nothing that is *)
(* done with it afterwards.                                                *)
(*                                                                         *)
(* One session, whose requests are of the one user who may find it.  A map *)
(* of fields is named after the request that made it and holds the         *)
(* mappings that were decoded into it.  Sessions are never removed: no     *)
(* code calls DeleteByID or clean.  Two goroutines that use the reader of  *)
(* the file at once take turns here; whether two decodings into one map    *)
(* end the process (Go may notice) is left out.                            *)
(***************************************************************************)
EXTENDS Naturals, FiniteSets

CONSTANTS
  Requests,   \* to run the session
  Size        \* rows in the file

ASSUME ImportAssumption == Size \in Nat \ {0} /\ "header" \notin Requests

VARIABLES
  \* the session
  decoder,    \* whether it has one
  fields,     \* the map that is its Fields: the request that made it, or "header"
  maps,       \* what is in the map of each request
  onError,
  started, finished,     \* Progress.StartedAt and FinishedAt are set
  completed, failed,     \* of Progress
  \* the decoder
  buffered,   \* Header has read the first row and keeps it (structured files)
  read,       \* rows that have been read from the file
  \* the requests
  pc, ask,    \* how far each is, and its onError
  mapped,     \* the map its import uses
  buf,        \* its copy of the decoder still has the first row
  row,        \* the row in hand
  tmp,        \* the counter it has read and will write
  err,        \* Records has returned an error
  \* the database
  records,    \* how often each row was made a record
  \* history
  early,      \* requests that were there before the session was started
  arrived,    \* for each import, the requests that were there when it began
  failures    \* for each import, the rows whose creation failed

session == <<decoder, fields, maps, onError, started, finished, completed, failed>>
local   == <<mapped, buf, row, tmp, err>>
history == <<early, arrived, failures>>
vars    == <<session, buffered, read, pc, ask, local, records, history>>

Rows    == 1..Size
OnError == {"SKIP", "FAIL"}   \* anything but FAIL is as good as SKIP

Steps == {"idle", "found", "made", "filled", "ready", "open", "passed", "started",
          "reading", "row", "created", "refused", "completing", "failing", "failed",
          "ending", "done", "panicked"}

TypeOK ==
  /\ decoder \in BOOLEAN /\ started \in BOOLEAN /\ finished \in BOOLEAN
  /\ fields \in Requests \cup {"header"}
  /\ maps \in [Requests -> SUBSET Requests]
  /\ onError \in OnError /\ ask \in [Requests -> OnError]
  /\ completed \in Nat /\ failed \in Nat
  /\ buffered \in BOOLEAN /\ read \in 0..Size
  /\ pc \in [Requests -> Steps]
  /\ mapped \in [Requests -> Requests \cup {"header"}]
  /\ buf \in [Requests -> BOOLEAN] /\ row \in [Requests -> 0..Size]
  /\ tmp \in [Requests -> Nat] /\ err \in [Requests -> BOOLEAN]
  /\ records \in [Rows -> Nat]
  /\ early \subseteq Requests /\ arrived \in [Requests -> SUBSET Requests]
  /\ failures \in [Requests -> SUBSET Rows]

-----------------------------------------------------------------------------
\* ImportInit has made the session: a decoder whose header has been read, and no
\* field mapped.  Of a structured file the first row was read for its keys.
Init ==
  /\ decoder = TRUE /\ fields = "header" /\ maps = [r \in Requests |-> {}]
  /\ onError = "SKIP" /\ started = FALSE /\ finished = FALSE
  /\ completed = 0 /\ failed = 0
  /\ buffered \in BOOLEAN /\ read = IF buffered THEN 1 ELSE 0
  /\ pc = [r \in Requests |-> "idle"] /\ ask \in [Requests -> OnError]
  /\ mapped = [r \in Requests |-> "header"]
  /\ buf = [r \in Requests |-> FALSE] /\ row = [r \in Requests |-> 0]
  /\ tmp = [r \in Requests |-> 0] /\ err = [r \in Requests |-> FALSE]
  /\ records = [x \in Rows |-> 0]
  /\ early = {} /\ arrived = [r \in Requests |-> {}]
  /\ failures = [r \in Requests |-> {}]

Goto(r, p) == pc' = [pc EXCEPT ![r] = p]
Here       == {r \in Requests : pc[r] # "idle"}

(* Faults *)

\* SetByID leaves the decoder to the next call that brings one
SetByIDKeeps == decoder' = decoder

\* the map is made only once, by whoever comes first
MakeFieldsOnce(r) ==
  /\ pc[r] = "found" /\ Goto(r, "made")
  /\ fields' = IF fields = "header" THEN r ELSE fields
  /\ UNCHANGED <<decoder, maps, onError, started, finished, completed, failed,
                 buffered, read, ask, local, records, history>>

\* whether the session was started is not asked
CheckStartedNot(r) ==
  /\ pc[r] = "open" /\ Goto(r, "passed")
  /\ UNCHANGED <<session, buffered, read, ask, local, records, history>>

-----------------------------------------------------------------------------
\* Every SetByID of the import comes after a change of Progress: the decoder is let
\* go as soon as the import has finished.
SetByID == decoder' = (decoder /\ ~finished')

(* ImportRun *)

\* FindByID
Find(r) ==
  /\ pc[r] = "idle" /\ Goto(r, "found")
  /\ early' = IF started THEN early ELSE early \cup {r}
  /\ UNCHANGED <<session, buffered, read, ask, local, records, arrived, failures>>

\* ses.Fields = make(...)
MakeFields(r) ==
  /\ pc[r] = "found" /\ Goto(r, "made")
  /\ fields' = r
  /\ UNCHANGED <<decoder, maps, onError, started, finished, completed, failed,
                 buffered, read, ask, local, records, history>>

\* json.Unmarshal into the map the session has by now; with an error, before or after
\* it has filled the map, the request ends
FillFields(r) ==
  /\ pc[r] = "made"
  /\ \/ Goto(r, "filled") /\ maps' = [maps EXCEPT ![fields] = @ \cup {r}]
     \/ Goto(r, "done") /\ maps' \in {maps, [maps EXCEPT ![fields] = @ \cup {r}]}
  /\ UNCHANGED <<decoder, fields, onError, started, finished, completed, failed,
                 buffered, read, ask, local, records, history>>

SetOnError(r) ==
  /\ pc[r] = "filled" /\ Goto(r, "ready")
  /\ onError' = ask[r]
  /\ UNCHANGED <<decoder, fields, maps, started, finished, completed, failed,
                 buffered, read, ask, local, records, history>>

(* Import *)

\* Without a decoder the import is over, and the request has nothing to do.
CheckDecoder(r) ==
  /\ pc[r] = "ready" /\ Goto(r, IF decoder THEN "open" ELSE "done")
  /\ UNCHANGED <<session, buffered, read, ask, local, records, history>>

\* Import session already active
CheckStarted(r) ==
  /\ pc[r] = "open" /\ Goto(r, IF started THEN "done" ELSE "passed")
  /\ UNCHANGED <<session, buffered, read, ask, local, records, history>>

Start(r) ==
  /\ pc[r] = "passed" /\ Goto(r, "started")
  /\ started' = TRUE /\ finished' = finished /\ SetByID
  /\ UNCHANGED <<fields, maps, onError, completed, failed,
                 buffered, read, ask, local, records, history>>

\* ses.Decoder.Records(ses.Fields, ...): Records works on a copy of the decoder,
\* with its buffer; the reader of the file is the same for all copies.
Begin(r) ==
  /\ pc[r] = "started"
  /\ IF decoder
     THEN /\ Goto(r, "reading")
          /\ mapped' = [mapped EXCEPT ![r] = fields]
          /\ buf' = [buf EXCEPT ![r] = buffered]
          /\ arrived' = [arrived EXCEPT ![r] = Here]
     ELSE Goto(r, "panicked") /\ UNCHANGED <<mapped, buf, arrived>>
  /\ UNCHANGED <<session, buffered, read, ask, row, tmp, err, records, early, failures>>

(* Records *)

\* exhaustBuffer
TakeBuffered(r) ==
  /\ pc[r] = "reading" /\ buf[r] /\ Goto(r, "row")
  /\ row' = [row EXCEPT ![r] = 1]
  /\ UNCHANGED <<session, buffered, read, ask, mapped, buf, tmp, err, records, history>>

ReadRow(r) ==
  /\ pc[r] = "reading" /\ ~buf[r] /\ read < Size /\ Goto(r, "row")
  /\ read' = read + 1 /\ row' = [row EXCEPT ![r] = read + 1]
  /\ UNCHANGED <<session, buffered, ask, mapped, buf, tmp, err, records, history>>

\* The end of the file, or a row that cannot be read
ReadEnds(r) ==
  /\ pc[r] = "reading" /\ ~buf[r] /\ Goto(r, "ending")
  /\ \/ read = Size /\ err' = err
     \/ read < Size /\ err' = [err EXCEPT ![r] = TRUE]
  /\ UNCHANGED <<session, buffered, read, ask, mapped, buf, row, tmp, records, history>>

\* A fault: errors of the callback are dropped on every row, as they are on the
\* buffered one.
ReturnsRegardless(r, e) ==
  /\ buf' = [buf EXCEPT ![r] = FALSE]
  /\ Goto(r, "reading") /\ err' = err

\* What happens when the callback returns: exhaustBuffer does not look at the error,
\* the walk over the rest of the file ends with it.
Returns(r, e) ==
  /\ buf' = [buf EXCEPT ![r] = FALSE]
  /\ IF e /\ ~buf[r] THEN Goto(r, "ending") /\ err' = [err EXCEPT ![r] = TRUE]
     ELSE Goto(r, "reading") /\ err' = err

\* A value that is no id or time, or a field without a mapping
ConvertFails(r) ==
  /\ pc[r] = "row" /\ Returns(r, TRUE)
  /\ UNCHANGED <<session, buffered, read, ask, mapped, row, tmp, records, history>>

Create(r) ==
  /\ pc[r] = "row"
  /\ \/ /\ Goto(r, "created")
        /\ records' = [records EXCEPT ![row[r]] = @ + 1] /\ UNCHANGED failures
     \/ /\ Goto(r, "refused")
        /\ failures' = [failures EXCEPT ![r] = @ \cup {row[r]}] /\ UNCHANGED records
  /\ UNCHANGED <<session, buffered, read, ask, local, early, arrived>>

\* Completed++ and Failed++ read and write without a lock.
LoadCount(r) ==
  /\ \/ /\ pc[r] = "created" /\ Goto(r, "completing")
        /\ tmp' = [tmp EXCEPT ![r] = completed]
     \/ /\ pc[r] = "refused" /\ Goto(r, "failing")
        /\ tmp' = [tmp EXCEPT ![r] = failed]
  /\ UNCHANGED <<session, buffered, read, ask, mapped, buf, row, err, records, history>>

StoreCompleted(r) ==
  /\ pc[r] = "completing" /\ Returns(r, FALSE)
  /\ completed' = tmp[r] + 1 /\ tmp' = [tmp EXCEPT ![r] = 0]
  /\ UNCHANGED <<decoder, fields, maps, onError, started, finished, failed,
                 buffered, read, ask, mapped, row, records, history>>

StoreFailed(r) ==
  /\ pc[r] = "failing" /\ Goto(r, "failed")
  /\ failed' = tmp[r] + 1 /\ tmp' = [tmp EXCEPT ![r] = 0]
  /\ UNCHANGED <<decoder, fields, maps, onError, started, finished, completed,
                 buffered, read, ask, mapped, buf, row, err, records, history>>

\* The session is asked what to do about the failure: stop or go on.
AfterFailure(r) ==
  /\ pc[r] = "failed"
  /\ finished' = (finished \/ onError = "FAIL")
  /\ IF onError = "FAIL" THEN SetByID ELSE UNCHANGED decoder
  /\ Returns(r, onError = "FAIL")
  /\ UNCHANGED <<fields, maps, onError, started, completed, failed,
                 buffered, read, ask, mapped, row, tmp, records, history>>

\* Records has returned, with or without an error.
Finish(r) ==
  /\ pc[r] = "ending" /\ Goto(r, "done")
  /\ finished' = TRUE /\ SetByID
  /\ UNCHANGED <<fields, maps, onError, started, completed, failed,
                 buffered, read, ask, local, records, history>>

-----------------------------------------------------------------------------
Run(r) ==
  \/ MakeFields(r) \/ FillFields(r) \/ SetOnError(r)
  \/ CheckDecoder(r) \/ CheckStarted(r) \/ Start(r) \/ Begin(r)
  \/ TakeBuffered(r) \/ ReadRow(r) \/ ReadEnds(r)
  \/ ConvertFails(r) \/ Create(r) \/ LoadCount(r)
  \/ StoreCompleted(r) \/ StoreFailed(r) \/ AfterFailure(r) \/ Finish(r)

Next == \E r \in Requests : Find(r) \/ Run(r)

Spec == Init /\ [][Next]_vars

\* The goroutine of a request runs, and the database answers.
FairSpec == Spec /\ \A r \in Requests : WF_vars(Run(r))

-----------------------------------------------------------------------------
\* requests that have been let in by both checks
Imports == {r \in Requests : pc[r] \in {"started", "reading", "row", "created",
              "refused", "completing", "failing", "failed", "ending", "panicked"}
              \/ (pc[r] = "done" /\ arrived[r] # {})}

\* No row becomes two records, however the requests race, but for one: requests that
\* were there before the import was started may all be let in, and each of them
\* has its own copy of the first row of a structured file.
ImportedOnce ==
  \A x \in Rows :
    \/ records[x] <= 1
    \/ x = 1 /\ buffered /\ records[x] <= Cardinality(early)

\* What the session reports at the end of its only import is what was done: a
\* record for each row completed; and every row was either completed or failed,
\* unless an error ended the import, or the first row of a structured file could
\* not be converted, which nobody is told.
EveryRowIsCounted ==
  \A r \in Requests :
    Imports = {r} /\ pc[r] = "done" =>
      /\ completed = Cardinality({x \in Rows : records[x] > 0})
      /\ \/ err[r]
         \/ completed + failed = Size
         \/ buffered /\ records[1] = 0 /\ completed + failed = Size - 1

\* Once an import has begun, no request that comes later changes how it maps the
\* fields, though all of them set the fields of the session before they are turned
\* away; and an import with no other request before it uses the mapping it was
\* sent.
MappingHolds ==
  \A r \in Imports : arrived[r] # {} =>
    /\ maps[mapped[r]] \subseteq arrived[r]
    /\ arrived[r] = {r} => maps[mapped[r]] = {r}

\* An import that is to stop at the first failure takes no further row after one,
\* unless another request has asked for something else, even one that was turned
\* away; or the row was the first of a structured file, whose error is dropped.
FailStops ==
  [][\A r \in Requests :
       /\ \A q \in Here : ask[q] = "FAIL"
       /\ \E x \in failures[r] : ~(buffered /\ x = 1)
       => row'[r] = row[r]]_vars

\* Every import that was let in comes to its end, and then the session has let go
\* of the file.
ImportsEnd ==
  \A r \in Requests :
    pc[r] = "started" ~> pc[r] \in {"done", "panicked"} /\ ~decoder
=============================================================================
