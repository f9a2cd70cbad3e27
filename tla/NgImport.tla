------------------------------- MODULE NgImport -------------------------------
(***************************************************************************)
(* The importer of foreign data (pkg/ngimporter): sources become nodes of  *)
(* a graph, one for each module, with an edge to every module its record   *)
(* fields refer to; cycles are removed by splicing copies of nodes in; and *)
(* nodes are imported from the leaves up, in one transaction, each handing *)
(* the ids of its records to the nodes that wait for them.                 *)
(*                                                                         *)
(* Orders that come from maps and lists of edges are any order here.  Each *)
(* source is imported whole, and its references are told apart by what     *)
(* they name: a record that the import creates ("row"), or something else  *)
(* ("other"), which may be a record of an earlier import.  Users, joins,   *)
(* the mapping of values and the repair of legacy ids (RefFixup) are left  *)
(* out, and so are modules that cannot be found, which are skipped.        *)
(***************************************************************************)
EXTENDS Naturals, Sequences

CONSTANTS
  Modules,
  Sources,    \* import sources, after they have been mapped
  None        \* no reader

ASSUME SourcesAssumption == None \notin Sources

VARIABLES
  to, filled,   \* the module of each source; sources with rows to import
  refs,         \* record fields: <<m, x>>, one of m for records of x
  pending,      \* sources that are not yet in the graph
  nodes, edges, \* of the graph; an edge leads from a parent to its child
  reader,       \* of each module's node, and of the copy of it
  path,         \* SeekCycles under way: nodes with the children still to visit
  visited,
  leafs,        \* nodes to be imported in this round
  touched,      \* parents of those that have been
  idMap,        \* whose ids each node has been given
  kept,         \* modules whose records wait in the node for their references
  phase,
  imported,     \* nodes that have been
  created,      \* how often the rows of each source became records
  saved         \* what the references of each field became in the table

input == <<to, filled, refs>>
graph == <<nodes, edges, reader>>
seek  == <<path, visited>>
rest  == <<leafs, touched, idMap, kept, imported, created, saved>>
vars  == <<input, pending, graph, seek, phase, rest>>

\* A node is a module and whether it is the copy spliced in for it.
Node       == Modules \X BOOLEAN
Original(m) == <<m, FALSE>>
Spliced(m)  == <<m, TRUE>>

Kinds  == {"row", "other"}
Fields == Modules \X Modules \X Kinds

TypeOK ==
  /\ to \in [Sources -> Modules] /\ filled \subseteq Sources
  /\ refs \subseteq Modules \X Modules
  /\ pending \subseteq Sources
  /\ nodes \subseteq Node /\ edges \subseteq nodes \X nodes
  /\ reader \in [Modules -> Sources \cup {None}]
  /\ path \in Seq([node : Node, todo : SUBSET Node]) /\ visited \subseteq Modules
  /\ leafs \subseteq nodes /\ touched \subseteq nodes
  /\ idMap \in [Node -> SUBSET Modules] /\ kept \subseteq Modules
  /\ phase \in {"build", "seek", "import", "done", "failed"}
  /\ imported \subseteq nodes
  /\ created \in [Sources -> Nat]
  /\ saved \in [Fields -> {"none", "record", "dropped", "legacy"}]

-----------------------------------------------------------------------------
Init ==
  /\ to \in [Sources -> Modules] /\ filled \in SUBSET Sources
  /\ refs \in SUBSET ({to[s] : s \in Sources} \X Modules)
  /\ pending = Sources
  /\ nodes = {} /\ edges = {} /\ reader = [m \in Modules |-> None]
  /\ path = <<>> /\ visited = {}
  /\ leafs = {} /\ touched = {}
  /\ idMap = [n \in Node |-> {}] /\ kept = {}
  /\ phase = "build"
  /\ imported = {} /\ created = [s \in Sources |-> 0]
  /\ saved = [f \in Fields |-> "none"]

(* The graph *)

\* Nodes know each other as parent and child; a link is there once.
LinkAdd(es, n, x)    == es \cup {<<n, x>>}
LinkRemove(es, n, x) == es \ {<<n, x>>}

\* AddNode for the module and for all modules it refers to.  Nodes of one name are
\* merged: of two sources of one module the later one stays.
AddSource(s) ==
  /\ phase = "build" /\ s \in pending
  /\ pending' = pending \ {s}
  /\ LET m  == to[s]
         xs == {x \in Modules : <<m, x>> \in refs}
     IN  /\ nodes' = nodes \cup {Original(x) : x \in xs \cup {m}}
         /\ edges' = edges \cup {<<Original(m), Original(x)>> : x \in xs}
         /\ reader' = [reader EXCEPT ![m] = s]
  /\ UNCHANGED <<input, seek, phase, rest>>

\* All sources have been added.
Built ==
  /\ phase = "build" /\ pending = {}
  /\ phase' = "seek"
  /\ UNCHANGED <<input, pending, graph, seek, rest>>

Children(n) == {x \in nodes : <<n, x>> \in edges}
Parents(n)  == {x \in nodes : <<x, n>> \in edges}
InPath(n)   == \E i \in DOMAIN path : path[i].node = n

(* Faults *)

\* the cycle is not cut
SpliceKeeps(n, from) ==
  /\ nodes' = nodes \cup {Spliced(from[1])}
  /\ edges' = LinkAdd(LinkAdd(edges, from, Spliced(from[1])), n, Spliced(from[1]))

\* n is not linked to the copy
SpliceCuts(n, from) ==
  /\ nodes' = nodes \cup {Spliced(from[1])}
  /\ edges' = LinkAdd(LinkRemove(edges, n, from), from, Spliced(from[1]))

\* leaves are looked for among all nodes, as they are at first
ReadyAll == {p \in nodes : Children(p) = {}}

-----------------------------------------------------------------------------
(* RemoveCycles *)

\* The copy of from, made for the first cycle that ends in it, takes its place as a
\* child of n.
Splice(n, from) ==
  /\ nodes' = nodes \cup {Spliced(from[1])}
  /\ LET copy == Spliced(from[1])
     IN  edges' = LinkAdd(LinkRemove(LinkAdd(edges, from, copy), n, from), n, copy)

Frame(n) == [node |-> n, todo |-> Children(n)]

\* The next node of the list that has not been visited
SeekFrom(m) ==
  /\ phase = "seek" /\ path = <<>>
  /\ Original(m) \in nodes /\ m \notin visited
  /\ visited' = visited \cup {m} /\ path' = <<Frame(Original(m))>>
  /\ UNCHANGED <<input, pending, graph, phase, rest>>

Top    == path[Len(path)]
Popped == SubSeq(path, 1, Len(path) - 1)
Without(x) == Append(Popped, [Top EXCEPT !.todo = @ \ {x}])

\* A child in the path closes a cycle.  Any other is sought from, visited or not.
SeekChild(x) ==
  /\ phase = "seek" /\ path # <<>> /\ x \in Top.todo
  /\ IF InPath(x)
     THEN Splice(Top.node, x) /\ path' = Without(x) /\ UNCHANGED visited
     ELSE /\ path' = Append(Without(x), Frame(x))
          /\ visited' = visited \cup {x[1]}
          /\ UNCHANGED <<nodes, edges>>
  /\ UNCHANGED <<input, pending, reader, phase, rest>>

SeekReturns ==
  /\ phase = "seek" /\ path # <<>> /\ Top.todo = {}
  /\ path' = Popped
  /\ UNCHANGED <<input, pending, graph, visited, phase, rest>>

\* All nodes have been visited: the leaves are taken note of.
Prepared ==
  /\ phase = "seek" /\ path = <<>>
  /\ \A m \in Modules : Original(m) \in nodes => m \in visited
  /\ phase' = "import"
  /\ leafs' = {n \in nodes : Children(n) = {}}
  /\ UNCHANGED <<input, pending, graph, seek, touched, idMap, kept, imported,
                 created, saved>>

-----------------------------------------------------------------------------
(* Import *)

\* The node and its copy share one reader of the source.
Unread(m) == reader[m] # None /\ created[reader[m]] = 0

\* The module's source has rows, which have not been read.
HasRows(m) == Unread(m) /\ reader[m] \in filled

\* The copy leaves its records to the node it was made for.
Keeps(n) == IF n[2] /\ HasRows(n[1]) THEN kept \cup {n[1]} ELSE kept

\* The fields of the records that a node saves: those it creates, or has kept.
Saving(n) ==
  IF ~n[2] /\ (n[1] \in kept \/ HasRows(n[1]))
  THEN {f \in Fields : f[1] = n[1] /\ <<f[1], f[2]>> \in refs} ELSE {}

\* fetchRemoteRef: which of them name something that is in the table already.
Found(n) == SUBSET Saving(n)

\* A reference becomes the id that the node has been given for it, or one that is
\* found in the table; failing that, it is left out of a new record, and left as
\* it is in a kept one.
\* A "row" of a module without rows names nothing, and counts as found.
Saves(n) ==
  \E found \in Found(n) :
    saved' = [f \in Fields |->
      IF f \notin Saving(n) THEN saved[f]
      ELSE IF f \in found \/ (f[3] = "row" /\ f[2] \in idMap[n]) THEN "record"
      ELSE IF n[1] \in kept THEN "legacy" ELSE "dropped"]

\* Whether a node hands on the ids of all its records: those it creates, those of
\* its copy, or, when it has no row, none.
HandsOn(n) ==
  \/ Unread(n[1])
  \/ ~n[2] /\ n[1] \in kept /\ n[1] \in idMap[n]
  \/ reader[n[1]] \notin filled

ImportNode(n) ==
  /\ phase = "import" /\ n \in leafs
  /\ leafs' = leafs \ {n} /\ touched' = touched \cup Parents(n)
  /\ imported' = imported \cup {n}
  /\ kept' = Keeps(n)
  /\ created' = IF (n[2] \/ n[1] \notin kept) /\ HasRows(n[1])
                THEN [created EXCEPT ![reader[n[1]]] = @ + 1] ELSE created
  /\ Saves(n)
  /\ idMap' = [p \in Node |->
                 IF p \notin Parents(n) THEN idMap[p]
                 ELSE IF HandsOn(n) THEN idMap[p] \cup {n[1]} ELSE idMap[p] \ {n[1]}]
  /\ edges' = {e \in edges : e[2] # n}
  /\ UNCHANGED <<input, pending, nodes, reader, seek, phase>>

\* A statement or the commit fails: the nodes of the round are still walked, then
\* everything is rolled back.
ImportFails ==
  /\ phase = "import"
  /\ phase' = "failed"
  /\ leafs' = {} /\ created' = [s \in Sources |-> 0]
  /\ saved' = [f \in Fields |-> "none"]
  /\ UNCHANGED <<input, pending, graph, seek, touched, idMap, kept, imported>>

\* Of the parents of the round those that wait for nothing more
Ready == {p \in touched : Children(p) = {}}

\* The next round; without a leaf the import is over, and is committed.
NextRound ==
  /\ phase = "import" /\ leafs = {}
  /\ leafs' = Ready /\ touched' = {}
  /\ phase' = IF leafs' = {} THEN "done" ELSE "import"
  /\ UNCHANGED <<input, pending, graph, seek, idMap, kept, imported, created, saved>>

-----------------------------------------------------------------------------
Steps ==
  \/ \E s \in Sources : AddSource(s)
  \/ Built
  \/ \E m \in Modules : SeekFrom(m)
  \/ \E x \in Node : SeekChild(x)
  \/ SeekReturns
  \/ Prepared
  \/ \E n \in Node : ImportNode(n)
  \/ NextRound

Next == Steps \/ ImportFails

Spec == Init /\ [][Next]_vars

\* The program runs.
FairSpec == Spec /\ WF_vars(Steps)

-----------------------------------------------------------------------------
\* No set of nodes is left in which every node waits for another of the set.
CyclesAreRemoved ==
  phase = "import" =>
    \A X \in (SUBSET nodes) \ {{}} : \E n \in X : Children(n) \cap X = {}

\* A node waits for every module it refers to, or for the copy of it, until it has
\* been handed the ids of its records; so nothing is imported before what it
\* refers to, and removing cycles loses no reference.
WaitsForReferences ==
  phase \in {"seek", "import", "done"} =>
    \A r \in refs :
      \/ Original(r[2]) \in Children(Original(r[1]))
      \/ Spliced(r[2]) \in Children(Original(r[1]))
      \/ r[2] \in idMap[Original(r[1])]

\* A copy waits for nothing: it would be handed ids and unlinked under its lock,
\* which a clone does not have.
CopiesWaitForNothing == \A n \in nodes : n[2] => Children(n) = {}

\* An import that is committed has imported every node of the graph, and made each
\* row a record once; but of several sources of one module all but the last are
\* forgotten.
ImportIsComplete ==
  phase = "done" =>
    /\ imported = nodes
    /\ \A s \in Sources :
         created[s] = IF reader[to[s]] = s /\ s \in filled THEN 1 ELSE 0

\* Once the records of a module have been imported, and for modules in a cycle
\* corrected, every reference to a row of the import is one to its record.
ReferencesResolve ==
  phase # "failed" =>
    \A f \in Fields :
      /\ Original(f[1]) \in imported
      /\ <<f[1], f[2]>> \in refs /\ f[3] = "row"
      /\ reader[f[1]] \in filled
      => saved[f] = "record"

\* Seeking cycles ends, and so does the import.
Ends == <>(phase \in {"done", "failed"})

=============================================================================
