----------------------------- MODULE ScriptReload -----------------------------
(***************************************************************************)
(* The Corredor service (pkg/corredor) on top of the event bus.  Corredor, *)
(* another process, serves a list of scripts; Load fetches it, with        *)
(* if-modified-since, and registerServerScripts replaces every handler it  *)
(* has registered on the bus, one Unregister or Register at a time, while  *)
(* events go on being fired.                                               *)
(*                                                                         *)
(* A handler is a script as of one revision of Corredor's list.  Revisions *)
(* count its changes and stand for the time on its clock and on ours.      *)
(***************************************************************************)
EXTENDS EventBus

CONSTANTS
  Scripts,       \* names of server scripts
  MaxRevision,   \* bound: how often Corredor's scripts change
  Loader         \* the goroutine holding sScriptsL

ASSUME ScriptsAssumption ==
  /\ MaxRevision \in Nat \ {0}
  /\ Writers = {Loader}
  /\ Handlers = Scripts \X (1..MaxRevision)

VARIABLES
  served,       \* Corredor: the scripts it has
  revision,     \* Corredor: the last change of its list
  since,        \* service.sScriptsTS, 0: never loaded
  phase,        \* where the loader is
  response,     \* ServerScriptListResponse, what is left to register
  current,      \* the script being registered
  registered,   \* service.registered: handlers by script
  permissions,  \* service.permissions: the scripts whose security is in it
  explicit,     \* service.explicit
  sScripts      \* service.sScripts, with or without errors

loaderVars ==
  <<since, phase, response, current, registered, permissions, explicit, sScripts>>
corredorVars == <<served, revision>>
vars == <<busVars, loaderVars, corredorVars>>

TypeOK ==
  /\ BusTypeOK
  /\ served \subseteq Scripts
  /\ revision \in 1..MaxRevision
  /\ since \in 0..MaxRevision
  /\ phase \in {"idle", "listing", "answered", "unregistering",
                "registering", "securing"}
  /\ response \subseteq Handlers /\ current \subseteq Handlers
  /\ registered \subseteq Handlers
  /\ permissions \subseteq Handlers
  /\ explicit \subseteq Handlers
  /\ sScripts \subseteq Handlers

Init ==
  /\ BusInit
  /\ served \in SUBSET Scripts
  /\ revision = 1
  /\ since = 0
  /\ phase = "idle"
  /\ response = {} /\ current = {} /\ registered = {}
  /\ permissions = {} /\ explicit = {} /\ sScripts = {}

-----------------------------------------------------------------------------
(* Faults *)

\* only the indexes are reset
ResetIndexesOnly ==
  /\ phase = "unregistering"
  /\ registered' = {} /\ permissions' = {} /\ explicit' = {}
  /\ phase' = "registering"
  /\ UNCHANGED <<busVars, corredorVars, since, response, current, sScripts>>

\* the security rules are left for later
SecureScriptLater ==
  /\ phase = "registering"
  /\ \E h \in response :
       /\ current' = {h}
       /\ response' = response \ {h}
       /\ permissions' = permissions \cup current
       /\ explicit' = explicit \cup {h}
  /\ phase' = "securing"
  /\ UNCHANGED <<busVars, corredorVars, since, registered, sScripts>>

-----------------------------------------------------------------------------
\* A script is added, edited or removed.
CorredorChanges ==
  /\ revision < MaxRevision
  /\ revision' = revision + 1
  /\ served' \in SUBSET Scripts
  /\ UNCHANGED <<busVars, loaderVars>>

\* Load, of the boot or of the ticker of Watch: one loader at a time.
LoadStarts ==
  /\ phase = "idle"
  /\ phase' = "listing"
  /\ UNCHANGED <<busVars, corredorVars, since, response, current, registered,
                 permissions, explicit, sScripts>>

\* Corredor answers with all its scripts, or with none when nothing has changed
\* since the time the request names.
CorredorAnswers ==
  /\ phase = "listing"
  /\ response' = IF since = 0 \/ revision > since
                 THEN served \X {revision} ELSE {}
  /\ phase' = "answered"
  /\ UNCHANGED <<busVars, corredorVars, since, current, registered, permissions,
                 explicit, sScripts>>

\* List fails or times out.
ListFails ==
  /\ phase = "listing"
  /\ phase' = "idle"
  /\ UNCHANGED <<busVars, corredorVars, since, response, current, registered,
                 permissions, explicit, sScripts>>

\* sScriptsTS is the time the answer is looked at; an empty list is no list.
AnswerArrives ==
  /\ phase = "answered"
  /\ since' = revision
  /\ IF response = {}
     THEN phase' = "idle" /\ UNCHANGED sScripts
     ELSE phase' = "unregistering" /\ sScripts' = {}
  /\ UNCHANGED <<busVars, corredorVars, response, current, registered, permissions,
                 explicit>>

\* The loader asks for the bus's lock, for its next Unregister or Register.
LoaderLocks ==
  /\ \/ phase = "unregistering" /\ registered \cap handlers # {}
     \/ phase = "securing"
  /\ Announce(Loader)
  /\ UNCHANGED <<loaderVars, corredorVars>>

\* The handlers of one script, and the next one in no particular order (a map).
UnregisterScript ==
  /\ phase = "unregistering"
  /\ \E h \in registered \cap handlers : Unregister(Loader, {h})
  /\ UNCHANGED <<loaderVars, corredorVars>>

\* All handlers are gone: the indexes and the security rules are reset.
ResetIndexes ==
  /\ phase = "unregistering" /\ registered \cap handlers = {}
  /\ registered' = {} /\ permissions' = {} /\ explicit' = {}
  /\ phase' = "registering"
  /\ UNCHANGED <<busVars, corredorVars, since, response, current, sScripts>>

\* One script of the list: first its security and its explicit triggers ...
SecureScript ==
  /\ phase = "registering"
  /\ \E h \in response :
       /\ current' = {h}
       /\ response' = response \ {h}
       /\ permissions' = permissions \cup {h}
       /\ explicit' = explicit \cup {h}
  /\ phase' = "securing"
  /\ UNCHANGED <<busVars, corredorVars, since, registered, sScripts>>

\* ... then its triggers, and the script is listed.
RegisterScript ==
  /\ phase = "securing"
  /\ \E h \in current : Register(Loader, h)
  /\ registered' = registered \cup current
  /\ sScripts' = sScripts \cup current
  /\ current' = {}
  /\ phase' = "registering"
  /\ UNCHANGED <<corredorVars, since, response, permissions, explicit>>

\* A script with errors, or whose run-as user or roles are not found, is listed
\* and nothing else.
ListScriptWithErrors ==
  /\ phase = "registering"
  /\ \E h \in response :
       /\ sScripts' = sScripts \cup {h}
       /\ response' = response \ {h}
  /\ UNCHANGED <<busVars, corredorVars, since, phase, current, registered,
                 permissions, explicit>>

LoadEnds ==
  /\ phase = "registering" /\ response = {}
  /\ phase' = "idle"
  /\ UNCHANGED <<busVars, corredorVars, since, response, current, registered,
                 permissions, explicit, sScripts>>

BusStep ==
  /\ \E f \in Firers : Fires(f) \/ Runs(f)
  /\ UNCHANGED <<loaderVars, corredorVars>>

LoaderStep ==
  \/ CorredorAnswers
  \/ AnswerArrives
  \/ LoaderLocks
  \/ UnregisterScript
  \/ ResetIndexes
  \/ SecureScript
  \/ RegisterScript
  \/ LoadEnds

Next ==
  \/ BusStep
  \/ LoaderStep
  \/ CorredorChanges
  \/ LoadStarts
  \/ ListFails
  \/ ListScriptWithErrors

Spec == Init /\ [][Next]_vars

\* The loader goes on, Corredor answers in the end, the ticker of Watch fires;
\* a handler ends or its script times out, and WaitFor then returns.
Fairness ==
  /\ WF_vars(LoaderStep)
  /\ SF_vars(CorredorAnswers)
  /\ WF_vars(LoadStarts)
  /\ \A f \in Firers :
       /\ WF_vars(BusStep /\ (HandlerReturns(f) \/ HandlerFails(f)))
       /\ WF_vars(BusStep /\ HandlerTimesOut(f))
       /\ WF_vars(BusStep /\ Return(f))

FairSpec == Spec /\ Fairness

-----------------------------------------------------------------------------
\* However reloads and events interleave, the bus never offers the handlers of
\* two revisions together, and no event runs two: every old handler is gone
\* before the first new one comes.
OneRevision ==
  /\ \A g, h \in handlers : g[2] = h[2]
  /\ \A f \in Firers : \A g, h \in todo[f] : g[2] = h[2]

\* Exec looks at explicit, sScripts and permissions without a lock.  In every
\* state of a reload, a script it finds in both lists has its security rules.
ExecutableIsSecured ==
  \A h \in explicit \cap sScripts : h \in permissions

\* A WaitFor returns, even if its handlers call back and a reload is waiting.
WaitForReturns ==
  \A f \in Firers : state[f] \in {"blocked", "running"} ~> state[f] = "idle"

\* A reload that has begun ends, even if events keep being fired.
ReloadEnds == phase = "unregistering" ~> phase = "idle"

=============================================================================
