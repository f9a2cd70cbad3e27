---------------------------- MODULE NgImportProofs ----------------------------
(***************************************************************************)
(* For any modules and sources, and whatever graph they make: seeking      *)
(* leaves no cycle and loses no reference, and an import that ends without *)
(* an error has imported every node, each row once, and has resolved every *)
(* reference between rows.                                                 *)
(***************************************************************************)
EXTENDS NgImport, TLAPS

\* The reader of a module's node reads a source of the module.
Readers ==
  \A m \in Modules : reader[m] # None =>
    reader[m] \in Sources /\ to[reader[m]] = m /\ Original(m) \in nodes

\* Nothing has been imported before the graph is prepared.
Before ==
  /\ phase \in {"build", "seek"} =>
       /\ leafs = {} /\ touched = {} /\ imported = {} /\ kept = {}
       /\ created = [s \in Sources |-> 0]
  /\ phase = "build" => path = <<>> /\ visited = {}

\* A copy has no children, and the node that it was made for waits for it.
Copies ==
  /\ \A e \in edges : ~e[1][2]
  /\ \A m \in Modules : Spliced(m) \in nodes =>
       /\ m \in visited
       /\ Spliced(m) \in imported \/ <<Original(m), Spliced(m)>> \in edges

\* A copy in the path is its end, and nothing is sought from there.
PathShape ==
  \A i \in DOMAIN path :
    /\ path[i].node \in nodes /\ path[i].todo \subseteq nodes
    /\ path[i].node[1] \in visited
    /\ path[i].node[2] => i = Len(path) /\ path[i].todo = {}

\* No node waits for itself, through others of D.
NoCycleIn(D) ==
  \A X \in SUBSET D : X # {} => \E n \in X : \A x \in X : <<n, x>> \notin edges

\* What has been sought from: nodes without a cycle that only lead to each other and
\* to copies.  From a node in the path there are, beside these, the children that
\* are still to be visited and the next node of the path.
Settled(D) ==
  /\ \A e \in edges : e[1] \in D => e[2] \in D \/ e[2][2]
  /\ NoCycleIn(D)
  /\ \A i \in DOMAIN path : \A e \in edges :
       e[1] = path[i].node =>
         \/ e[2] \in D \/ e[2][2]
         \/ e[2] \in path[i].todo
         \/ i < Len(path) /\ e[2] = path[i + 1].node
  /\ \A m \in visited : Original(m) \in nodes =>
       Original(m) \in D \/ InPath(Original(m))

Originals == {Original(m) : m \in Modules}
Sought    == phase = "seek" => \E D \in SUBSET Originals : Settled(D)

Waits ==
  \A r \in refs :
    \/ phase = "build" /\ \E s \in pending : to[s] = r[1]
    \/ <<Original(r[1]), Original(r[2])>> \in edges
    \/ <<Original(r[1]), Spliced(r[2])>> \in edges
    \/ r[2] \in idMap[Original(r[1])]

\* Leaves and what has been imported wait for nothing, and nothing waits any more for
\* what has been imported; who else waits for nothing is a leaf now, or will be in
\* the next round.
Rounds ==
  /\ \A e \in edges : e[1] \notin leafs \cup imported
  /\ \A e \in edges : e[2] \notin imported
  /\ leafs \cap imported = {}
  /\ touched \cap (leafs \cup imported) = {}
  /\ phase = "import" => \A n \in nodes :
       n \in leafs \cup imported \cup touched \/ \E e \in edges : e[1] = n

\* The rows of a source have become records once the node or its copy was imported.
Counts ==
  phase # "failed" =>
    /\ \A s \in Sources :
         \/ created[s] = 0
         \/ /\ created[s] = 1 /\ s \in filled /\ reader[to[s]] = s
            /\ Original(to[s]) \in imported \/ Spliced(to[s]) \in imported
    /\ \A m \in Modules : Original(m) \in imported /\ reader[m] \in filled =>
         created[reader[m]] = 1

\* An imported copy has left its records, and their ids, to the node.
Handed ==
  phase # "failed" =>
    /\ \A m \in Modules : Spliced(m) \in imported =>
         m \in idMap[Original(m)] /\ (reader[m] \in filled => m \in kept)
    /\ \A m \in kept : reader[m] \in filled /\ created[reader[m]] = 1

AllImported == phase = "done" => imported = nodes

IInv ==
  /\ TypeOK /\ Readers /\ Before /\ Copies /\ PathShape /\ Sought
  /\ CyclesAreRemoved /\ Waits /\ Rounds /\ Counts /\ Handed /\ AllImported
  /\ ReferencesResolve

-----------------------------------------------------------------------------
LEMMA Nodes ==
  /\ \A n \in Node : /\ n[1] \in Modules /\ n[2] \in BOOLEAN
                     /\ n[2] => n = Spliced(n[1])
                     /\ ~n[2] => n = Original(n[1])
  /\ \A m \in Modules : /\ Original(m) \in Node /\ Spliced(m) \in Node
                        /\ Original(m)[1] = m /\ Spliced(m)[1] = m
                        /\ ~Original(m)[2] /\ Spliced(m)[2]
<1>1. ASSUME NEW n \in Node
      PROVE  /\ n[1] \in Modules /\ n[2] \in BOOLEAN
             /\ n[2] => n = Spliced(n[1])
             /\ ~n[2] => n = Original(n[1])
  <2>1. n[1] \in Modules /\ n[2] \in BOOLEAN /\ n = <<n[1], n[2]>>
    BY DEF Node
  <2>2. CASE n[2] = TRUE
    BY <2>1, <2>2, Zenon DEF Spliced
  <2>3. CASE n[2] = FALSE
    BY <2>1, <2>3, Zenon DEF Original
  <2> QED
    BY <2>1, <2>2, <2>3
<1>2. ASSUME NEW m \in Modules
      PROVE  /\ Original(m) \in Node /\ Spliced(m) \in Node
             /\ Original(m)[1] = m /\ Spliced(m)[1] = m
             /\ ~Original(m)[2] /\ Spliced(m)[2]
  BY DEF Node, Original, Spliced
<1> QED
  BY <1>1, <1>2

LEMMA Pairs ==
  ASSUME TypeOK
  PROVE  /\ \A e \in edges : /\ e = <<e[1], e[2]>> /\ e[1] \in nodes /\ e[2] \in nodes
                             /\ e[1] \in Node /\ e[2] \in Node
         /\ \A r \in refs : r = <<r[1], r[2]>> /\ r[1] \in Modules /\ r[2] \in Modules
BY DEF TypeOK

LEMMA InitHolds == Init => IInv
<1> SUFFICES ASSUME Init PROVE IInv
  OBVIOUS
<1> USE DEF Init
<1>1. TypeOK
  BY DEF TypeOK
<1>2. Readers /\ Before /\ Copies /\ PathShape /\ Sought /\ CyclesAreRemoved /\ Rounds
      /\ Handed /\ AllImported
  BY DEF Readers, Before, Copies, PathShape, Sought, CyclesAreRemoved, Rounds,
         Handed, AllImported
<1>3. Waits
  BY DEF Waits
<1>4. Counts /\ ReferencesResolve
  BY DEF Counts, ReferencesResolve
<1> QED
  BY <1>1, <1>2, <1>3, <1>4 DEF IInv

-----------------------------------------------------------------------------
(* Building the graph *)

LEMMA AddSourceHolds == ASSUME IInv, NEW s \in Sources, AddSource(s) PROVE IInv'
<1> DEFINE m  == to[s]
           xs == {x \in Modules : <<m, x>> \in refs}
<1>1. /\ phase = "build" /\ s \in pending /\ pending' = pending \ {s}
      /\ nodes' = nodes \cup {Original(x) : x \in xs \cup {m}}
      /\ edges' = edges \cup {<<Original(m), Original(x)>> : x \in xs}
      /\ reader' = [reader EXCEPT ![m] = s]
      /\ UNCHANGED <<input, seek, phase, rest>>
  BY DEF AddSource
<1>2. m \in Modules /\ xs \subseteq Modules
  BY DEF IInv, TypeOK
<1>3. TypeOK'
  <2>1. nodes' \subseteq Node /\ edges' \subseteq nodes' \X nodes'
    <3>1. Original(m) \in nodes' /\ \A x \in xs : Original(x) \in nodes'
      BY <1>1
    <3>2. \A n \in nodes' : n \in nodes \/ \E x \in Modules : n = Original(x)
      BY <1>1, <1>2
    <3>3. \A e \in edges' : e \in edges \/ \E x \in xs : e = <<Original(m), Original(x)>>
      BY <1>1
    <3>4. nodes' \subseteq Node
      BY <3>2, Nodes DEF IInv, TypeOK
    <3>5. edges \subseteq nodes \X nodes /\ nodes \subseteq nodes'
      BY <1>1 DEF IInv, TypeOK
    <3>6. \A e \in edges' : e \in nodes' \X nodes'
      <4> TAKE e \in edges'
      <4>1. CASE e \in edges
        BY <4>1, <3>5
      <4>2. ASSUME NEW x \in xs, e = <<Original(m), Original(x)>>
            PROVE  e \in nodes' \X nodes'
        BY <4>2, <3>1
      <4> QED
        BY <3>3, <4>1, <4>2
    <3> QED
      BY <3>4, <3>6
  <2>2. reader' \in [Modules -> Sources \cup {None}] /\ pending' \subseteq Sources
    BY <1>1, <1>2 DEF IInv, TypeOK
  <2> QED
    BY <1>1, <2>1, <2>2 DEF IInv, TypeOK, input, seek, rest
<1>4. Readers'
  BY <1>1, <1>2, SourcesAssumption DEF IInv, TypeOK, Readers, input
<1>5. Before' /\ PathShape' /\ Sought' /\ CyclesAreRemoved' /\ AllImported'
  BY <1>1 DEF IInv, Before, PathShape, Sought, CyclesAreRemoved, AllImported, seek, rest
<1>6. Copies'
  <2>1. \A n \in nodes' : n \in nodes \/ \E x \in Modules : n = Original(x)
    BY <1>1, <1>2
  <2>2. \A x \in Modules : Spliced(x) \in nodes' => Spliced(x) \in nodes
    BY <2>1, Nodes
  <2>3. \A e \in edges' : ~e[1][2]
    <3> TAKE e \in edges'
    <3>1. e \in edges => ~e[1][2]
      BY DEF IInv, Copies
    <3>2. ASSUME NEW x \in xs, e = <<Original(m), Original(x)>>
          PROVE  ~e[1][2]
      <4>1. e[1] = Original(m)
        BY <3>2
      <4> QED
        BY <4>1, <1>2, Nodes
    <3> QED
      BY <1>1, <3>1, <3>2
  <2> QED
    BY <1>1, <2>2, <2>3 DEF IInv, Copies, seek, rest
<1>7. Waits'
  <2> SUFFICES ASSUME NEW r \in refs
               PROVE  \/ \E q \in pending' : to[q] = r[1]
                      \/ <<Original(r[1]), Original(r[2])>> \in edges'
                      \/ <<Original(r[1]), Spliced(r[2])>> \in edges'
                      \/ r[2] \in idMap[Original(r[1])]
    BY <1>1 DEF Waits, input, rest
  <2>1. CASE r[1] = m
    <3>1. r[2] \in xs
      BY <2>1, Pairs DEF IInv
    <3> QED
      BY <1>1, <2>1, <3>1
  <2>2. CASE r[1] # m
    BY <1>1, <2>2 DEF IInv, Waits
  <2> QED
    BY <2>1, <2>2
<1>8. Rounds' /\ Counts' /\ Handed' /\ ReferencesResolve'
  BY <1>1 DEF IInv, Before, Rounds, Counts, Handed, ReferencesResolve, rest, input
<1> QED
  BY <1>3, <1>4, <1>5, <1>6, <1>7, <1>8 DEF IInv

LEMMA BuiltHolds == ASSUME IInv, Built PROVE IInv'
<1> USE DEF Built, input, graph, seek, rest
<1>1. TypeOK' /\ Readers' /\ Before' /\ Copies' /\ PathShape'
  BY DEF IInv, TypeOK, Readers, Before, Copies, PathShape
<1>2. Sought'
  <2>1. Settled({})'
    BY DEF IInv, Before, Settled, NoCycleIn
  <2> QED
    BY <2>1 DEF Sought
<1>3. CyclesAreRemoved' /\ AllImported' /\ Waits' /\ Rounds'
  BY DEF IInv, Before, CyclesAreRemoved, AllImported, Waits, Rounds
<1>4. Counts' /\ Handed' /\ ReferencesResolve'
  BY DEF IInv, Counts, Handed, ReferencesResolve
<1> QED
  BY <1>1, <1>2, <1>3, <1>4 DEF IInv
-----------------------------------------------------------------------------
(* Seeking cycles *)

FrameType == [node : Node, todo : SUBSET Node]

LEMMA PathFacts ==
  ASSUME path \in Seq(FrameType), path # <<>>
  PROVE  /\ Len(path) \in Nat \ {0} /\ DOMAIN path = 1 .. Len(path)
         /\ Top \in FrameType
         /\ Popped \in Seq(FrameType) /\ Len(Popped) = Len(path) - 1
         /\ DOMAIN Popped = 1 .. (Len(path) - 1)
         /\ \A i \in 1 .. (Len(path) - 1) : Popped[i] = path[i]
<1>1. Len(path) \in Nat \ {0} /\ DOMAIN path = 1 .. Len(path)
  OBVIOUS
<1>2. Top \in FrameType
  BY <1>1 DEF Top
<1>3. Popped \in Seq(FrameType) /\ Len(Popped) = Len(path) - 1
      /\ \A i \in 1 .. (Len(path) - 1) : Popped[i] = path[i]
  BY <1>1 DEF Popped
<1> QED
  BY <1>1, <1>2, <1>3

LEMMA WithoutFacts ==
  ASSUME path \in Seq(FrameType), path # <<>>, NEW x
  PROVE  /\ Without(x) \in Seq(FrameType) /\ Len(Without(x)) = Len(path)
         /\ DOMAIN Without(x) = 1 .. Len(path)
         /\ \A i \in 1 .. (Len(path) - 1) : Without(x)[i] = path[i]
         /\ Without(x)[Len(path)].node = Top.node
         /\ Without(x)[Len(path)].todo = Top.todo \ {x}
<1> DEFINE t == [Top EXCEPT !.todo = @ \ {x}]
<1>1. t \in FrameType /\ t.node = Top.node /\ t.todo = Top.todo \ {x}
  BY PathFacts DEF FrameType
<1>2. Without(x) = Append(Popped, t)
  BY DEF Without
<1> HIDE DEF t
<1>3. Len(path) \in Nat \ {0} /\ Popped \in Seq(FrameType) /\ Len(Popped) = Len(path) - 1
  BY PathFacts
<1>4. Without(x) \in Seq(FrameType) /\ Len(Without(x)) = Len(path)
      /\ DOMAIN Without(x) = 1 .. Len(path)
  BY <1>1, <1>2, <1>3
<1>5. \A i \in 1 .. (Len(path) - 1) : Without(x)[i] = path[i]
  BY <1>2, <1>3, PathFacts
<1>6. Without(x)[Len(path)] = t
  BY <1>1, <1>2, <1>3
<1> QED
  BY <1>1, <1>4, <1>5, <1>6

LEMMA SeekFromHolds == ASSUME IInv, NEW m \in Modules, SeekFrom(m) PROVE IInv'
<1>1. /\ phase = "seek" /\ path = <<>> /\ Original(m) \in nodes
      /\ visited' = visited \cup {m} /\ path' = <<Frame(Original(m))>>
      /\ UNCHANGED <<input, pending, graph, phase, rest>>
  BY DEF SeekFrom
<1> USE DEF input, graph, rest
<1>2. Original(m) \in Node /\ Original(m)[1] = m /\ ~Original(m)[2]
  BY Nodes
<1>3. path' \in Seq(FrameType) /\ DOMAIN path' = {1} /\ Len(path') = 1
      /\ path'[1].node = Original(m) /\ path'[1].todo = Children(Original(m))
  BY <1>1, <1>2 DEF Frame, FrameType, Children, IInv, TypeOK
<1>4. TypeOK'
  BY <1>1, <1>3 DEF IInv, TypeOK, FrameType
<1>5. Readers' /\ Before' /\ Copies' /\ CyclesAreRemoved' /\ AllImported'
  BY <1>1 DEF IInv, Readers, Before, Copies, CyclesAreRemoved, AllImported, Children
<1>6. PathShape'
  BY <1>1, <1>2, <1>3 DEF PathShape, Children
<1>7. Sought'
  <2>1. PICK D \in SUBSET Originals : Settled(D)
    BY <1>1 DEF IInv, Sought
  <2>2. \A i \in DOMAIN path' : \A e \in edges :
          e[1] = path'[i].node => e[2] \in path'[i].todo
    BY <1>3, Pairs DEF IInv, Children
  <2>3. \A x \in Modules : InPath(Original(x))' <=> x = m
    BY <1>3, Nodes DEF InPath
  <2>4. \A x \in Modules : ~InPath(Original(x))
    BY <1>1 DEF InPath
  <2>5. Settled(D)'
    BY <1>1, <2>1, <2>2, <2>3, <2>4 DEF Settled, NoCycleIn, IInv, TypeOK
  <2> QED
    BY <2>5 DEF Sought
<1>8. Waits' /\ Rounds' /\ Counts' /\ Handed' /\ ReferencesResolve'
  BY <1>1 DEF IInv, Waits, Rounds, Counts, Handed, ReferencesResolve
<1> QED
  BY <1>4, <1>5, <1>6, <1>7, <1>8 DEF IInv

LEMMA SeekReturnsHolds == ASSUME IInv, SeekReturns PROVE IInv'
<1>1. /\ phase = "seek" /\ path # <<>> /\ Top.todo = {} /\ path' = Popped
      /\ UNCHANGED <<input, pending, graph, visited, phase, rest>>
  BY DEF SeekReturns
<1> USE DEF input, graph, rest
<1>2. path \in Seq(FrameType)
  BY DEF IInv, TypeOK, FrameType
<1> DEFINE k == Len(path)
           n == Top.node
<1>3. /\ k \in Nat \ {0} /\ DOMAIN path = 1 .. k /\ path[k] = Top /\ n \in Node
      /\ path' \in Seq(FrameType) /\ Len(path') = k - 1 /\ DOMAIN path' = 1 .. (k - 1)
      /\ \A i \in 1 .. (k - 1) : path'[i] = path[i]
  BY <1>1, <1>2, PathFacts DEF Top, FrameType
<1> HIDE DEF k, n
<1>4. TypeOK'
  BY <1>1, <1>3 DEF IInv, TypeOK, FrameType
<1>5. Readers' /\ Before' /\ Copies' /\ CyclesAreRemoved' /\ AllImported'
  BY <1>1 DEF IInv, Readers, Before, Copies, CyclesAreRemoved, AllImported, Children
<1>6. PathShape'
  BY <1>1, <1>3 DEF IInv, PathShape, k
<1>7. Sought'
  <2>1. PICK D \in SUBSET Originals : Settled(D)
    BY <1>1 DEF IInv, Sought
  <2> PICK D2 : D2 = IF n[2] THEN D ELSE D \cup {n}
    OBVIOUS
  <2>2. D2 \in SUBSET Originals
    BY <1>3, Nodes DEF Originals
  <2>3. \A e \in edges : e[1] = n => e[2] \in D \/ e[2][2]
    BY <1>1, <1>3, <2>1 DEF Settled, n
  <2>4. \A e \in edges : e[1] \in D2 => e[2] \in D2 \/ e[2][2]
    BY <2>1, <2>3 DEF Settled
  <2>5. NoCycleIn(D2)
    <3> SUFFICES ASSUME NEW X \in SUBSET D2, X # {}
                 PROVE  \E y \in X : \A x \in X : <<y, x>> \notin edges
      BY DEF NoCycleIn
    <3>1. CASE X \subseteq D
      BY <2>1, <3>1 DEF Settled, NoCycleIn
    <3>2. CASE ~(X \subseteq D)
      <4>1. n \in X /\ n \notin D /\ ~n[2] /\ X \ {n} \subseteq D
        BY <3>2
      <4>2. \A x \in D \cup {n} : <<x, n>> \notin edges
        <5> SUFFICES ASSUME NEW x \in D \cup {n}, <<x, n>> \in edges PROVE FALSE
          OBVIOUS
        <5>1. n \in D \/ n[2]
          BY <2>1, <2>3 DEF Settled
        <5> QED
          BY <4>1, <5>1
      <4>3. CASE X = {n}
        BY <4>2, <4>3
      <4>4. CASE X \ {n} # {}
        <5>1. PICK y \in X \ {n} : \A x \in X \ {n} : <<y, x>> \notin edges
          BY <2>1, <4>1, <4>4 DEF Settled, NoCycleIn
        <5> QED
          BY <4>1, <4>2, <5>1
      <4> QED
        BY <4>1, <4>3, <4>4
    <3> QED
      BY <3>1, <3>2
  <2>6. \A i \in DOMAIN path' : \A e \in edges : e[1] = path'[i].node =>
           \/ e[2] \in D2 \/ e[2][2]
           \/ e[2] \in path'[i].todo
           \/ i < Len(path') /\ e[2] = path'[i + 1].node
    <3> SUFFICES ASSUME NEW i \in 1 .. (k - 1), NEW e \in edges, e[1] = path[i].node,
                        e[2] \notin D2, ~e[2][2], e[2] \notin path[i].todo
                 PROVE  i < k - 1 /\ e[2] = path'[i + 1].node
      BY <1>3
    <3>1. i < k /\ e[2] = path[i + 1].node
      BY <1>3, <2>1 DEF Settled, k
    <3>2. CASE i = k - 1
      BY <1>3, <3>1, <3>2 DEF n
    <3>3. CASE i < k - 1
      BY <1>3, <3>1, <3>3
    <3> QED
      BY <1>3, <3>2, <3>3
  <2>7. \A m \in visited : Original(m) \in nodes =>
          Original(m) \in D2 \/ InPath(Original(m))'
    <3> SUFFICES ASSUME NEW m \in visited, Original(m) \in nodes, Original(m) \notin D2
                 PROVE  InPath(Original(m))'
      OBVIOUS
    <3>1. m \in Modules /\ ~Original(m)[2]
      BY Nodes DEF IInv, TypeOK
    <3>2. PICK i \in 1 .. k : path[i].node = Original(m)
      BY <1>3, <2>1 DEF Settled, InPath
    <3>3. i # k
      BY <1>3, <3>1, <3>2 DEF n
    <3> QED
      BY <1>3, <3>2, <3>3 DEF InPath
  <2>8. Settled(D2)'
    BY <1>1, <2>4, <2>5, <2>6, <2>7 DEF Settled, NoCycleIn
  <2> QED
    BY <2>2, <2>8 DEF Sought
<1>8. Waits' /\ Rounds' /\ Counts' /\ Handed' /\ ReferencesResolve'
  BY <1>1 DEF IInv, Waits, Rounds, Counts, Handed, ReferencesResolve
<1> QED
  BY <1>4, <1>5, <1>6, <1>7, <1>8 DEF IInv

\* What the two cases of SeekChild have in common
LEMMA SeekChildFacts ==
  ASSUME IInv, phase = "seek", path # <<>>, NEW x \in Top.todo
  PROVE  /\ path \in Seq(FrameType) /\ Len(path) \in Nat \ {0}
         /\ DOMAIN path = 1 .. Len(path) /\ path[Len(path)] = Top
         /\ Top.node \in nodes /\ Top.node \in Node /\ ~Top.node[2]
         /\ x \in nodes /\ x \in Node
         /\ \A i \in 1 .. (Len(path) - 1) : ~path[i].node[2]
<1>1. path \in Seq(FrameType)
  BY DEF IInv, TypeOK, FrameType
<1>2. /\ Len(path) \in Nat \ {0} /\ DOMAIN path = 1 .. Len(path) /\ path[Len(path)] = Top
  BY <1>1, PathFacts DEF Top
<1> HIDE DEF Top
<1>3. /\ Top.node \in nodes /\ Top.todo \subseteq nodes /\ (Top.node[2] => Top.todo = {})
  <2>1. PICK i \in DOMAIN path : path[i] = Top
    BY <1>2
  <2> QED
    BY <2>1 DEF IInv, PathShape
<1>4. \A i \in 1 .. (Len(path) - 1) : ~path[i].node[2]
  <2> PICK k \in Nat : k = Len(path)
    BY <1>2
  <2> TAKE i \in 1 .. (Len(path) - 1)
  <2>1. i \in 1 .. k /\ i # k
    OBVIOUS
  <2>2. i \in DOMAIN path /\ i # Len(path)
    BY <2>1, <1>2
  <2> QED
    BY <2>2 DEF IInv, PathShape
<1> QED
  BY <1>1, <1>2, <1>3, <1>4 DEF IInv, TypeOK

LEMMA DescendHolds ==
  ASSUME IInv, NEW x \in Node, SeekChild(x), ~InPath(x)
  PROVE  IInv'
<1>1. /\ phase = "seek" /\ path # <<>> /\ x \in Top.todo
      /\ path' = Append(Without(x), Frame(x)) /\ visited' = visited \cup {x[1]}
      /\ UNCHANGED <<input, pending, graph, phase, rest>>
  BY DEF SeekChild, graph
<1> USE DEF input, graph, rest
<1> DEFINE F == FrameType
           k == Len(path)
<1>2. /\ path \in Seq(F) /\ k \in Nat \ {0} /\ DOMAIN path = 1 .. k /\ path[k] = Top
      /\ Top.node \in nodes /\ ~Top.node[2] /\ x \in nodes
      /\ \A i \in 1 .. (k - 1) : ~path[i].node[2]
  BY <1>1, SeekChildFacts
<1>3. /\ Without(x) \in Seq(F) /\ Len(Without(x)) = k
      /\ \A i \in 1 .. (k - 1) : Without(x)[i] = path[i]
      /\ Without(x)[k].node = Top.node /\ Without(x)[k].todo = Top.todo \ {x}
  BY <1>1, <1>2, WithoutFacts
<1>4. Frame(x) \in F /\ Frame(x).node = x /\ Frame(x).todo = Children(x)
  BY DEF Frame, FrameType, Children, IInv, TypeOK
<1> HIDE DEF F
<1>5. path' \in Seq(F) /\ Len(path') = k + 1 /\ DOMAIN path' = 1 .. (k + 1)
  BY <1>1, <1>2, <1>3, <1>4
<1>6. /\ \A i \in 1 .. (k - 1) : path'[i] = path[i]
      /\ path'[k].node = Top.node /\ path'[k].todo = Top.todo \ {x}
      /\ path'[k + 1].node = x /\ path'[k + 1].todo = Children(x)
  <2>1. \A i \in 1 .. k : path'[i] = Without(x)[i]
    BY <1>1, <1>2, <1>3, <1>4
  <2>2. path'[k + 1] = Frame(x)
    BY <1>1, <1>2, <1>3, <1>4
  <2> QED
    BY <1>2, <1>3, <1>4, <2>1, <2>2
<1> HIDE DEF k
<1>7. TypeOK'
  BY <1>1, <1>5, Nodes DEF IInv, TypeOK, FrameType, F
<1>8. Readers' /\ Before' /\ Copies' /\ CyclesAreRemoved' /\ AllImported'
  BY <1>1 DEF IInv, Readers, Before, Copies, CyclesAreRemoved, AllImported, Children
<1>9. PathShape'
  <2> SUFFICES ASSUME NEW i \in 1 .. (k + 1)
               PROVE  /\ path'[i].node \in nodes /\ path'[i].todo \subseteq nodes
                      /\ path'[i].node[1] \in visited'
                      /\ path'[i].node[2] => i = k + 1 /\ path'[i].todo = {}
    BY <1>1, <1>5 DEF PathShape
  <2>1. CASE i \in 1 .. (k - 1)
    <3>1. i \in DOMAIN path /\ ~path[i].node[2] /\ path'[i] = path[i]
      BY <1>2, <1>6, <2>1
    <3> QED
      BY <1>1, <3>1 DEF IInv, PathShape
  <2>2. CASE i = k
    <3>1. k \in DOMAIN path /\ path[k] = Top
      BY <1>2
    <3>2. Top.node \in nodes /\ Top.todo \subseteq nodes /\ Top.node[1] \in visited
      BY <3>1 DEF IInv, PathShape
    <3> QED
      BY <1>1, <1>2, <1>6, <2>2, <3>2
  <2>3. CASE i = k + 1
    <3>1. x[2] => Children(x) = {}
      BY Pairs DEF IInv, Copies, Children
    <3> QED
      BY <1>1, <1>2, <1>6, <2>3, <3>1 DEF Children
  <2> QED
    BY <1>2, <2>1, <2>2, <2>3
<1>10. Sought'
  <2>1. PICK D \in SUBSET Originals : Settled(D)
    BY <1>1 DEF IInv, Sought
  <2>2. \A i \in DOMAIN path' : \A e \in edges : e[1] = path'[i].node =>
           \/ e[2] \in D \/ e[2][2]
           \/ e[2] \in path'[i].todo
           \/ i < Len(path') /\ e[2] = path'[i + 1].node
    <3> SUFFICES ASSUME NEW i \in 1 .. (k + 1), NEW e \in edges, e[1] = path'[i].node,
                        e[2] \notin D, ~e[2][2], e[2] \notin path'[i].todo
                 PROVE  i < k + 1 /\ e[2] = path'[i + 1].node
      BY <1>5
    <3>1. CASE i = k + 1
      BY <1>6, <3>1, Pairs DEF IInv, Children
    <3>2. CASE i = k
      BY <1>2, <1>6, <2>1, <3>2 DEF Settled, k
    <3>3. CASE i \in 1 .. (k - 1)
      <4>1. i < k /\ e[2] = path[i + 1].node
        BY <1>2, <1>6, <2>1, <3>3 DEF Settled, k
      <4>2. path'[i + 1].node = path[i + 1].node
        BY <1>2, <1>6, <3>3
      <4> QED
        BY <1>2, <4>1, <4>2
    <3> QED
      BY <1>2, <3>1, <3>2, <3>3
  <2>3. \A m \in visited' : Original(m) \in nodes =>
          Original(m) \in D \/ InPath(Original(m))'
    <3> SUFFICES ASSUME NEW m \in visited', Original(m) \in nodes, Original(m) \notin D
                 PROVE  \E i \in 1 .. (k + 1) : path'[i].node = Original(m)
      BY <1>5 DEF InPath
    <3>1. CASE m \in visited
      <4>1. PICK i \in 1 .. k : path[i].node = Original(m)
        BY <1>2, <2>1, <3>1 DEF Settled, InPath
      <4>2. path'[i].node = path[i].node
        BY <1>2, <1>6
      <4> QED
        BY <1>2, <4>1, <4>2
    <3>2. CASE m \notin visited
      <4>1. m = x[1] /\ m \in Modules
        BY <1>1, <3>2, Nodes
      <4>2. x # Spliced(m)
        BY <1>2, <3>2, <4>1 DEF IInv, Copies
      <4>3. x = Original(m)
        BY <4>1, <4>2, Nodes
      <4> QED
        BY <1>2, <1>6, <4>3
    <3> QED
      BY <3>1, <3>2
  <2>4. Settled(D)'
    BY <1>1, <2>1, <2>2, <2>3 DEF Settled, NoCycleIn
  <2> QED
    BY <2>4 DEF Sought
<1>11. Waits' /\ Rounds' /\ Counts' /\ Handed' /\ ReferencesResolve'
  BY <1>1 DEF IInv, Waits, Rounds, Counts, Handed, ReferencesResolve
<1> QED
  BY <1>7, <1>8, <1>9, <1>10, <1>11 DEF IInv
LEMMA SpliceHolds ==
  ASSUME IInv, NEW x \in Node, SeekChild(x), InPath(x)
  PROVE  IInv'
<1> DEFINE k == Len(path)
           n == Top.node
           m == x[1]
<1>1. /\ phase = "seek" /\ path # <<>> /\ x \in Top.todo
      /\ nodes' = nodes \cup {Spliced(m)}
      /\ edges' = ((edges \cup {<<x, Spliced(m)>>}) \ {<<n, x>>}) \cup {<<n, Spliced(m)>>}
      /\ path' = Without(x)
      /\ UNCHANGED <<input, pending, reader, visited, phase, rest>>
  BY DEF SeekChild, Splice, LinkAdd, LinkRemove
<1> USE DEF input, rest
<1>2. /\ path \in Seq(FrameType) /\ k \in Nat \ {0} /\ DOMAIN path = 1 .. k /\ path[k] = Top
      /\ n \in nodes /\ n \in Node /\ ~n[2] /\ x \in nodes
      /\ \A i \in 1 .. (k - 1) : ~path[i].node[2]
  BY <1>1, SeekChildFacts
<1>3. /\ path' \in Seq(FrameType) /\ Len(path') = k /\ DOMAIN path' = 1 .. k
      /\ \A i \in 1 .. (k - 1) : path'[i] = path[i]
      /\ path'[k].node = n /\ path'[k].todo = Top.todo \ {x}
  BY <1>1, <1>2, WithoutFacts
<1> HIDE DEF k, n
<1>4. m \in Modules /\ m \in visited /\ ~x[2] /\ x = Original(m)
  <2>1. PICK i \in 1 .. k : path[i].node = x
    BY <1>2 DEF InPath
  <2>2. ~x[2]
    BY <1>2, <2>1 DEF n
  <2>3. m \in visited
    BY <1>2, <2>1 DEF IInv, PathShape
  <2> QED
    BY <2>2, <2>3, Nodes
<1> DEFINE c == Spliced(m)
<1>5. c \in Node /\ c[1] = m /\ c[2]
  BY <1>4, Nodes
<1>6. x # c /\ n # c
  BY <1>2, <1>4, <1>5
<1> HIDE DEF m, c
<1>7. \A e \in edges' : e \in edges \/ e = <<x, c>> \/ e = <<n, c>>
  BY <1>1 DEF c
<1>8. /\ <<n, c>> \in edges' /\ <<x, c>> \in edges'
      /\ \A e \in edges : e # <<n, x>> => e \in edges'
  BY <1>1, <1>6 DEF c
<1>9. nodes' = nodes \cup {c}
  BY <1>1 DEF c
<1>10. TypeOK'
  <2>1. \A e \in edges' : e \in nodes' \X nodes'
    BY <1>2, <1>7, <1>9 DEF IInv, TypeOK
  <2>2. nodes' \subseteq Node
    BY <1>5, <1>9 DEF IInv, TypeOK
  <2> QED
    BY <1>1, <1>3, <1>9, <2>1, <2>2 DEF IInv, TypeOK, FrameType
<1>11. Readers' /\ Before' /\ CyclesAreRemoved' /\ AllImported'
  BY <1>1, <1>9 DEF IInv, Readers, Before, CyclesAreRemoved, AllImported
<1>12. Copies'
  <2>1. \A e \in edges' : ~e[1][2]
    <3> TAKE e \in edges'
    <3>1. CASE e \in edges
      BY <3>1 DEF IInv, Copies
    <3>2. CASE e = <<x, c>>
      BY <3>2, <1>4
    <3>3. CASE e = <<n, c>>
      BY <3>3, <1>2
    <3> QED
      BY <1>7, <3>1, <3>2, <3>3
  <2>2. ASSUME NEW y \in Modules, Spliced(y) \in nodes'
        PROVE  /\ y \in visited'
               /\ Spliced(y) \in imported' \/ <<Original(y), Spliced(y)>> \in edges'
    <3>1. CASE Spliced(y) = c
      <4>1. y = m
        BY <1>5, <3>1, Nodes
      <4> QED
        BY <1>1, <1>4, <1>8, <3>1, <4>1
    <3>2. CASE Spliced(y) \in nodes
      <4>1. y \in visited /\ (Spliced(y) \in imported \/ <<Original(y), Spliced(y)>> \in edges)
        BY <3>2 DEF IInv, Copies
      <4>2. <<Original(y), Spliced(y)>> # <<n, x>>
        BY <1>4, Nodes
      <4> QED
        BY <1>1, <1>8, <4>1, <4>2
    <3> QED
      BY <1>9, <2>2, <3>1, <3>2
  <2> QED
    BY <2>1, <2>2 DEF Copies
<1>13. PathShape'
  <2> SUFFICES ASSUME NEW i \in 1 .. k
               PROVE  /\ path'[i].node \in nodes' /\ path'[i].todo \subseteq nodes'
                      /\ path'[i].node[1] \in visited
                      /\ path'[i].node[2] => i = k /\ path'[i].todo = {}
    BY <1>1, <1>3 DEF PathShape
  <2>1. /\ path[i].node \in nodes /\ path[i].todo \subseteq nodes
        /\ path[i].node[1] \in visited
    BY <1>2 DEF IInv, PathShape
  <2>2. ~path'[i].node[2]
    BY <1>2, <1>3
  <2>3. path'[i].node = path[i].node /\ path'[i].todo \subseteq path[i].todo
    BY <1>2, <1>3 DEF n
  <2> QED
    BY <1>9, <2>1, <2>2, <2>3
<1>14. Sought'
  <2>1. PICK D \in SUBSET Originals : Settled(D)
    BY <1>1 DEF IInv, Sought
  <2>2. c \notin D /\ (c[2] <=> TRUE)
    BY <1>5, Nodes DEF Originals
  <2>3. \A e \in edges' : e[1] \in D => e[2] \in D \/ e[2][2]
    BY <1>7, <2>1, <2>2 DEF Settled
  <2>4. NoCycleIn(D)'
    <3>1. \A y, z \in D : <<y, z>> \in edges' => <<y, z>> \in edges
      BY <1>7, <2>2
    <3> QED
      BY <2>1, <3>1 DEF Settled, NoCycleIn
  <2>5. \A i \in DOMAIN path' : \A e \in edges' : e[1] = path'[i].node =>
           \/ e[2] \in D \/ e[2][2]
           \/ e[2] \in path'[i].todo
           \/ i < Len(path') /\ e[2] = path'[i + 1].node
    <3> SUFFICES ASSUME NEW i \in 1 .. k, NEW e \in edges', e[1] = path'[i].node,
                        e[2] \notin D, ~e[2][2], e[2] \notin path'[i].todo
                 PROVE  i < k /\ e[2] = path'[i + 1].node
      BY <1>3
    <3>1. e \in edges
      BY <1>7, <2>2
    <3>2. e # <<n, x>>
      BY <1>1, <1>6 DEF c
    <3>3. CASE i = k
      <4>1. e[2] # x
        BY <1>3, <3>1, <3>2, <3>3, Pairs DEF IInv
      <4>2. e[2] \notin path[k].todo /\ e[1] = path[k].node
        BY <1>2, <1>3, <3>3, <4>1 DEF n
      <4> QED
        BY <1>2, <2>1, <3>1, <3>3, <4>2 DEF Settled, k
    <3>4. CASE i \in 1 .. (k - 1)
      <4>1. i < k /\ e[2] = path[i + 1].node
        BY <1>2, <1>3, <2>1, <3>1, <3>4 DEF Settled, k
      <4>2. path'[i + 1].node = path[i + 1].node
        BY <1>2, <1>3, <3>4 DEF n
      <4> QED
        BY <4>1, <4>2
    <3> QED
      BY <1>2, <3>3, <3>4
  <2>6. \A y \in visited : Original(y) \in nodes' =>
          Original(y) \in D \/ InPath(Original(y))'
    <3> SUFFICES ASSUME NEW y \in visited, Original(y) \in nodes', Original(y) \notin D
                 PROVE  \E i \in 1 .. k : path'[i].node = Original(y)
      BY <1>3 DEF InPath
    <3>1. y \in Modules
      BY DEF IInv, TypeOK
    <3>2. Original(y) \in nodes
      BY <1>5, <1>9, <3>1, Nodes
    <3>3. PICK i \in 1 .. k : path[i].node = Original(y)
      BY <1>2, <2>1, <3>2 DEF Settled, InPath
    <3>4. path'[i].node = path[i].node
      BY <1>2, <1>3 DEF n
    <3> QED
      BY <3>3, <3>4
  <2>7. Settled(D)'
    BY <1>1, <2>3, <2>4, <2>5, <2>6 DEF Settled
  <2> QED
    BY <2>7 DEF Sought
<1>15. Waits'
  <2> SUFFICES ASSUME NEW r \in refs
               PROVE  \/ <<Original(r[1]), Original(r[2])>> \in edges'
                      \/ <<Original(r[1]), Spliced(r[2])>> \in edges'
                      \/ r[2] \in idMap[Original(r[1])]
    BY <1>1 DEF Waits
  <2>1. r[1] \in Modules /\ r[2] \in Modules
    BY Pairs DEF IInv
  <2>2. CASE <<Original(r[1]), Original(r[2])>> = <<n, x>>
    <3>1. r[2] = m /\ Original(r[1]) = n
      BY <1>4, <2>1, <2>2, Nodes
    <3> QED
      BY <1>8, <3>1 DEF c
  <2>3. CASE <<Original(r[1]), Original(r[2])>> # <<n, x>>
    <3>1. Spliced(r[2]) # x
      BY <1>4, <2>1, Nodes
    <3> QED
      BY <1>1, <1>8, <2>3, <3>1 DEF IInv, Waits
  <2> QED
    BY <2>2, <2>3
<1>16. Rounds' /\ Counts' /\ Handed' /\ ReferencesResolve'
  BY <1>1 DEF IInv, Before, Rounds, Counts, Handed, ReferencesResolve
<1> QED
  BY <1>10, <1>11, <1>12, <1>13, <1>14, <1>15, <1>16 DEF IInv
LEMMA PreparedHolds == ASSUME IInv, Prepared PROVE IInv'
<1>1. /\ phase = "seek" /\ path = <<>> /\ phase' = "import"
      /\ \A m \in Modules : Original(m) \in nodes => m \in visited
      /\ leafs' = {n \in nodes : Children(n) = {}}
      /\ UNCHANGED <<input, pending, graph, seek, touched, idMap, kept, imported,
                     created, saved>>
  BY DEF Prepared
<1> USE DEF input, graph, seek
<1>2. TypeOK' /\ Readers' /\ Before' /\ Copies' /\ PathShape' /\ Sought' /\ AllImported'
  BY <1>1 DEF IInv, TypeOK, Readers, Before, Copies, PathShape, Sought, AllImported
<1>3. CyclesAreRemoved'
  <2> SUFFICES ASSUME NEW X \in (SUBSET nodes) \ {{}}
               PROVE  \E n \in X : Children(n) \cap X = {}
    BY <1>1 DEF CyclesAreRemoved, Children
  <2>1. CASE \E n \in X : n[2]
    BY <2>1, Pairs DEF IInv, Copies, Children
  <2>2. CASE \A n \in X : ~n[2]
    <3>1. PICK D \in SUBSET Originals : Settled(D)
      BY <1>1 DEF IInv, Sought
    <3>2. X \subseteq D
      <4> SUFFICES ASSUME NEW n \in X PROVE n \in D
        OBVIOUS
      <4>1. n = Original(n[1]) /\ n[1] \in Modules
        BY <2>2, Nodes DEF IInv, TypeOK
      <4>2. n[1] \in visited
        BY <1>1, <4>1
      <4> QED
        BY <1>1, <3>1, <4>1, <4>2 DEF Settled, InPath
    <3>3. X \in SUBSET D /\ X # {}
      BY <3>2
    <3>4. PICK n \in X : \A x \in X : <<n, x>> \notin edges
      BY <3>1, <3>3, Zenon DEF Settled, NoCycleIn
    <3> QED
      BY <3>4 DEF Children
  <2> QED
    BY <2>1, <2>2
<1>4. Rounds'
  <2>1. imported = {} /\ touched = {}
    BY <1>1 DEF IInv, Before
  <2>2. \A n \in nodes : n \in leafs' <=> ~\E e \in edges : e[1] = n
    BY <1>1, Pairs DEF IInv, Children
  <2>3. \A e \in edges : e[1] \in nodes
    BY Pairs DEF IInv
  <2> QED
    BY <1>1, <2>1, <2>2, <2>3 DEF Rounds
<1>5. Waits' /\ Counts' /\ Handed' /\ ReferencesResolve'
  BY <1>1 DEF IInv, Waits, Counts, Handed, ReferencesResolve
<1> QED
  BY <1>2, <1>3, <1>4, <1>5 DEF IInv

-----------------------------------------------------------------------------
(* Importing *)

\* The rows of a leaf have not been read, unless it is a node whose copy kept them;
\* in either case it can hand on all their ids.
LEMMA LeafFacts ==
  ASSUME IInv, phase = "import", NEW n \in leafs
  PROVE  /\ n \in Node /\ n \in nodes /\ n \notin imported
         /\ \A e \in edges : e[1] # n
         /\ reader[n[1]] \in filled => HasRows(n[1]) \/ (~n[2] /\ n[1] \in kept)
         /\ n[1] \in kept => ~HasRows(n[1])
         /\ HandsOn(n)
<1> DEFINE m == n[1]
<1>1. n \in Node /\ n \in nodes /\ n \notin imported /\ m \in Modules
  BY Nodes DEF IInv, TypeOK, Rounds
<1>2. \A e \in edges : e[1] # n
  BY DEF IInv, Rounds
<1>3. ASSUME reader[m] \in filled, ~HasRows(m)
      PROVE  ~n[2] /\ m \in kept /\ m \in idMap[n]
  <2>1. reader[m] \in Sources /\ to[reader[m]] = m /\ created[reader[m]] # 0
    BY <1>1, <1>3, SourcesAssumption DEF HasRows, Unread, IInv, TypeOK, Readers
  <2>2. Original(m) \in imported \/ Spliced(m) \in imported
    BY <2>1 DEF IInv, Counts
  <2>3. Spliced(m) \notin leafs
    <3> SUFFICES ASSUME Spliced(m) \in leafs PROVE FALSE
      OBVIOUS
    <3>1. Spliced(m) \in nodes /\ Spliced(m) \notin imported /\ Original(m) \in imported
      BY <2>2 DEF IInv, TypeOK, Rounds
    <3>2. <<Original(m), Spliced(m)>> \in edges
      BY <1>1, <3>1 DEF IInv, Copies
    <3>3. <<Original(m), Spliced(m)>>[1] = Original(m)
      OBVIOUS
    <3> QED
      BY <3>1, <3>2, <3>3 DEF IInv, Rounds
  <2>4. ~n[2] /\ n = Original(m) /\ Spliced(m) \in imported
    BY <1>1, <2>2, <2>3, Nodes
  <2> QED
    BY <1>1, <1>3, <2>4 DEF IInv, Handed
<1>4. m \in kept => ~HasRows(m)
  BY DEF IInv, Handed, HasRows, Unread
<1>5. HandsOn(n)
  BY <1>3 DEF HandsOn, HasRows
<1> QED
  BY <1>1, <1>2, <1>3, <1>4, <1>5

LEMMA ImportNodeHolds == ASSUME IInv, NEW n \in Node, ImportNode(n) PROVE IInv'
<1> DEFINE m == n[1]
<1>1. /\ phase = "import" /\ n \in leafs
      /\ leafs' = leafs \ {n} /\ touched' = touched \cup Parents(n)
      /\ imported' = imported \cup {n}
      /\ kept' = IF n[2] /\ HasRows(m) THEN kept \cup {m} ELSE kept
      /\ created' = IF (n[2] \/ m \notin kept) /\ HasRows(m)
                    THEN [created EXCEPT ![reader[m]] = @ + 1] ELSE created
      /\ Saves(n)
      /\ idMap' = [p \in Node |->
                     IF p \notin Parents(n) THEN idMap[p]
                     ELSE IF HandsOn(n) THEN idMap[p] \cup {m} ELSE idMap[p] \ {m}]
      /\ edges' = {e \in edges : e[2] # n}
      /\ UNCHANGED <<input, pending, nodes, reader, seek, phase>>
  BY DEF ImportNode, Keeps
<1> USE DEF input, seek
<1>2. /\ n \in nodes /\ n \notin imported /\ m \in Modules
      /\ \A e \in edges : e[1] # n
      /\ reader[m] \in filled => HasRows(m) \/ (~n[2] /\ m \in kept)
      /\ m \in kept => ~HasRows(m)
      /\ HandsOn(n)
  BY <1>1, LeafFacts, Nodes
<1>3. /\ created' = IF HasRows(m) THEN [created EXCEPT ![reader[m]] = @ + 1] ELSE created
      /\ \A p \in Node : idMap'[p] = IF p \in Parents(n) THEN idMap[p] \cup {m} ELSE idMap[p]
      /\ idMap' = [p \in Node |-> IF p \in Parents(n) THEN idMap[p] \cup {m} ELSE idMap[p]]
  <2>1. created' = IF HasRows(m) THEN [created EXCEPT ![reader[m]] = @ + 1] ELSE created
    BY <1>1, <1>2
  <2>2. idMap' = [p \in Node |-> IF p \in Parents(n) THEN idMap[p] \cup {m} ELSE idMap[p]]
    BY <1>1, <1>2
  <2> QED
    BY <2>1, <2>2
<1>4. HasRows(m) => /\ reader[m] \in Sources /\ to[reader[m]] = m
                    /\ reader[m] \in filled /\ created[reader[m]] = 0
  BY <1>2 DEF HasRows, Unread, IInv, Readers
<1> HIDE DEF m
<1>5. TypeOK'
  <2>1. saved' \in [Fields -> {"none", "record", "dropped", "legacy"}]
    BY <1>1 DEF Saves, IInv, TypeOK
  <2>2. created' \in [Sources -> Nat]
    BY <1>3, <1>4 DEF IInv, TypeOK
  <2>3. idMap' \in [Node -> SUBSET Modules]
    BY <1>2, <1>3 DEF IInv, TypeOK
  <2> QED
    BY <1>1, <1>2, <2>1, <2>2, <2>3 DEF IInv, TypeOK, Parents
<1>6. Readers' /\ Before' /\ PathShape' /\ Sought' /\ AllImported'
  BY <1>1 DEF IInv, Readers, Before, PathShape, Sought, AllImported
<1>7. CyclesAreRemoved'
  <2>1. \A y \in nodes : Children(y)' \subseteq Children(y)
    BY <1>1 DEF Children
  <2> SUFFICES ASSUME NEW X \in (SUBSET nodes) \ {{}}
               PROVE  \E y \in X : Children(y)' \cap X = {}
    BY <1>1 DEF CyclesAreRemoved
  <2>2. PICK y \in X : Children(y) \cap X = {}
    BY <1>1 DEF IInv, CyclesAreRemoved
  <2> QED
    BY <2>1, <2>2
<1>8. Copies'
  <2>1. \A y \in Modules : Spliced(y) # n => <<Original(y), Spliced(y)>>[2] # n
    OBVIOUS
  <2> QED
    BY <1>1, <2>1 DEF IInv, Copies
<1>9. Rounds'
  <2>1. \A p \in Parents(n) : p \notin leafs \cup imported
    BY DEF IInv, Rounds, Parents
  <2>2. n \notin Parents(n)
    BY <1>1, <2>1
  <2>3. ASSUME NEW p \in nodes
        PROVE  p \in leafs' \cup imported' \cup touched' \/ \E e \in edges' : e[1] = p
    <3>1. CASE p \in leafs \cup imported \cup touched
      BY <1>1, <3>1
    <3>2. CASE p \notin leafs \cup imported \cup touched
      <4>1. PICK e \in edges : e[1] = p
        BY <1>1, <3>2 DEF IInv, Rounds
      <4>2. CASE e[2] = n
        <5>1. p \in Parents(n)
          BY <4>1, <4>2, Pairs DEF IInv, Parents
        <5> QED
          BY <1>1, <5>1
      <4>3. CASE e[2] # n
        BY <1>1, <4>1, <4>3
      <4> QED
        BY <4>2, <4>3
    <3> QED
      BY <3>1, <3>2
  <2>4. /\ \A e \in edges' : e[1] \notin leafs' \cup imported'
        /\ \A e \in edges' : e[2] \notin imported'
        /\ leafs' \cap imported' = {}
    BY <1>1, <1>2 DEF IInv, Rounds
  <2>5. touched' \cap (leafs' \cup imported') = {}
    BY <1>1, <2>1, <2>2 DEF IInv, Rounds
  <2> QED
    BY <1>1, <2>3, <2>4, <2>5 DEF Rounds
<1>10. Waits'
  <2> SUFFICES ASSUME NEW r \in refs
               PROVE  \/ <<Original(r[1]), Original(r[2])>> \in edges'
                      \/ <<Original(r[1]), Spliced(r[2])>> \in edges'
                      \/ r[2] \in idMap'[Original(r[1])]
    BY <1>1 DEF Waits
  <2>1. r[1] \in Modules /\ r[2] \in Modules /\ Original(r[1]) \in Node
    BY Pairs, Nodes DEF IInv
  <2>2. CASE r[2] \in idMap[Original(r[1])]
    BY <1>3, <2>1, <2>2
  <2>3. ASSUME NEW x \in {Original(r[2]), Spliced(r[2])}, <<Original(r[1]), x>> \in edges
        PROVE  <<Original(r[1]), x>> \in edges' \/ r[2] \in idMap'[Original(r[1])]
    <3>1. CASE x # n
      BY <1>1, <2>3, <3>1
    <3>2. CASE x = n
      <4>1. r[2] = m
        BY <2>1, <3>2, Nodes DEF m
      <4>2. Original(r[1]) \in Parents(n)
        BY <2>3, <3>2, Pairs DEF IInv, Parents
      <4> QED
        BY <1>3, <2>1, <4>1, <4>2
    <3> QED
      BY <3>1, <3>2
  <2> QED
    BY <1>1, <2>2, <2>3 DEF IInv, Waits
<1>11. \A s \in Sources : created'[s] = IF HasRows(m) /\ s = reader[m] THEN 1 ELSE created[s]
  BY <1>3, <1>4 DEF IInv, TypeOK
<1>12. n = Original(m) \/ n = Spliced(m)
  BY Nodes DEF m
<1>13. Counts'
  <2>1. ASSUME NEW s \in Sources, created'[s] # 0
        PROVE  /\ created'[s] = 1 /\ s \in filled /\ reader[to[s]] = s
               /\ Original(to[s]) \in imported' \/ Spliced(to[s]) \in imported'
    <3>1. CASE HasRows(m) /\ s = reader[m]
      BY <1>1, <1>4, <1>11, <1>12, <3>1
    <3>2. CASE ~(HasRows(m) /\ s = reader[m])
      BY <1>1, <1>11, <2>1, <3>2 DEF IInv, Counts
    <3> QED
      BY <3>1, <3>2
  <2>2. ASSUME NEW y \in Modules, Original(y) \in imported', reader[y] \in filled
        PROVE  created'[reader[y]] = 1
    <3>1. reader[y] \in Sources
      BY <2>2 DEF IInv, TypeOK
    <3>2. CASE Original(y) \in imported
      BY <1>1, <1>11, <2>2, <3>1, <3>2 DEF IInv, Counts
    <3>3. CASE Original(y) = n
      <4>1. y = m
        BY <3>3, Nodes DEF m
      <4>2. CASE HasRows(m)
        BY <1>11, <3>1, <4>1, <4>2
      <4>3. CASE ~HasRows(m)
        <5>1. created[reader[m]] = 1
          BY <1>1, <1>2, <2>2, <4>1, <4>3 DEF IInv, Handed
        <5> QED
          BY <1>11, <3>1, <4>1, <4>3, <5>1
      <4> QED
        BY <4>2, <4>3
    <3> QED
      BY <1>1, <2>2, <3>2, <3>3
  <2> QED
    BY <1>1, <2>1, <2>2 DEF Counts
<1>14. Handed'
  <2>1. ASSUME NEW y \in Modules, Spliced(y) \in imported'
        PROVE  y \in idMap'[Original(y)] /\ (reader[y] \in filled => y \in kept')
    <3>1. Original(y) \in Node
      BY Nodes
    <3>2. CASE Spliced(y) \in imported
      <4>1. y \in idMap[Original(y)] /\ (reader[y] \in filled => y \in kept)
        BY <1>1, <3>2 DEF IInv, Handed
      <4> QED
        BY <1>1, <1>3, <3>1, <4>1
    <3>3. CASE Spliced(y) = n
      <4>1. y = m /\ n[2]
        BY <3>3, Nodes DEF m
      <4>2. <<Original(y), n>> \in edges
        BY <1>2, <3>3 DEF IInv, Copies
      <4>3. Original(y) \in Parents(n)
        BY <4>2, Pairs DEF IInv, Parents
      <4>4. reader[y] \in filled => y \in kept'
        BY <1>1, <1>2, <4>1
      <4> QED
        BY <1>3, <3>1, <4>1, <4>3, <4>4
    <3> QED
      BY <1>1, <2>1, <3>2, <3>3
  <2>2. ASSUME NEW y \in kept'
        PROVE  reader[y] \in filled /\ created'[reader[y]] = 1
    <3>1. CASE y \in kept
      <4>1. reader[y] \in filled /\ created[reader[y]] = 1 /\ reader[y] \in Sources
        BY <1>1, <3>1 DEF IInv, Handed, TypeOK
      <4> QED
        BY <1>11, <4>1
    <3>2. CASE y \notin kept
      <4>1. y = m /\ HasRows(m)
        BY <1>1, <2>2, <3>2
      <4> QED
        BY <1>4, <1>11, <4>1
    <3> QED
      BY <3>1, <3>2
  <2> QED
    BY <1>1, <2>1, <2>2 DEF Handed
<1>15. ReferencesResolve'
  <2> SUFFICES ASSUME NEW f \in Fields, Original(f[1]) \in imported',
                      <<f[1], f[2]>> \in refs, f[3] = "row", reader[f[1]] \in filled
               PROVE  saved'[f] = "record"
    BY <1>1 DEF ReferencesResolve
  <2>1. f[1] \in Modules /\ f[2] \in Modules
    BY DEF Fields
  <2>2. PICK found \in Found(n) :
          saved' = [g \in Fields |->
            IF g \notin Saving(n) THEN saved[g]
            ELSE IF g \in found \/ (g[3] = "row" /\ g[2] \in idMap[n]) THEN "record"
            ELSE IF n[1] \in kept THEN "legacy" ELSE "dropped"]
    BY <1>1 DEF Saves
  <2>3. CASE Original(f[1]) \in imported
    <3>1. saved[f] = "record"
      BY <1>1, <2>3 DEF IInv, ReferencesResolve
    <3>2. f \notin Saving(n)
      <4> SUFFICES ASSUME f \in Saving(n) PROVE FALSE
        OBVIOUS
      <4>1. ~n[2] /\ f[1] = m
        BY DEF Saving, m
      <4>2. n = Original(f[1])
        BY <4>1, Nodes DEF m
      <4> QED
        BY <1>2, <2>3, <4>2
    <3> QED
      BY <2>2, <3>1, <3>2
  <2>4. CASE Original(f[1]) = n
    <3>1. f[1] = m /\ ~n[2]
      BY <2>1, <2>4, Nodes DEF m
    <3>2. f \in Saving(n)
      BY <1>2, <3>1 DEF Saving, m
    <3>3. f[2] \in idMap[n]
      <4>1. <<n, Original(f[2])>> \notin edges /\ <<n, Spliced(f[2])>> \notin edges
        BY <1>2
      <4> QED
        BY <1>1, <2>4, <4>1 DEF IInv, Waits
    <3> QED
      BY <2>2, <3>2, <3>3
  <2> QED
    BY <1>1, <2>3, <2>4
<1> QED
  BY <1>5, <1>6, <1>7, <1>8, <1>9, <1>10, <1>13, <1>14, <1>15 DEF IInv
LEMMA ImportFailsHolds == ASSUME IInv, ImportFails PROVE IInv'
<1> USE DEF ImportFails, input, graph, seek
<1>1. TypeOK' /\ Readers' /\ Before' /\ Copies' /\ PathShape' /\ Sought'
      /\ CyclesAreRemoved' /\ AllImported' /\ Waits'
  BY DEF IInv, TypeOK, Readers, Before, Copies, PathShape, Sought, CyclesAreRemoved,
         AllImported, Waits
<1>2. Rounds' /\ Counts' /\ Handed' /\ ReferencesResolve'
  BY DEF IInv, Rounds, Counts, Handed, ReferencesResolve
<1> QED
  BY <1>1, <1>2 DEF IInv

LEMMA NextRoundHolds == ASSUME IInv, NextRound PROVE IInv'
<1>1. /\ phase = "import" /\ leafs = {} /\ leafs' = Ready /\ touched' = {}
      /\ phase' = IF leafs' = {} THEN "done" ELSE "import"
      /\ UNCHANGED <<input, pending, graph, seek, idMap, kept, imported, created, saved>>
  BY DEF NextRound
<1> USE DEF input, graph, seek
<1>2. Ready \subseteq touched /\ \A e \in edges : e[1] \notin Ready
  BY Pairs DEF IInv, Ready, Children
<1>3. \A p \in touched : p \in Ready \/ \E e \in edges : e[1] = p
  BY Pairs DEF IInv, Ready, Children
<1> HIDE DEF Ready
<1>4. TypeOK'
  BY <1>1, <1>2 DEF IInv, TypeOK
<1>5. Readers' /\ Before' /\ Copies' /\ PathShape' /\ Sought' /\ Waits'
  BY <1>1 DEF IInv, Readers, Before, Copies, PathShape, Sought, Waits
<1>6. CyclesAreRemoved'
  BY <1>1 DEF IInv, CyclesAreRemoved, Children
<1>7. AllImported'
  <2> SUFFICES ASSUME Ready = {}, nodes \ imported # {} PROVE FALSE
    BY <1>1 DEF AllImported, IInv, TypeOK
  <2>1. nodes \ imported \in (SUBSET nodes) \ {{}}
    OBVIOUS
  <2>2. PICK n \in nodes \ imported : Children(n) \cap (nodes \ imported) = {}
    BY <1>1, <2>1 DEF IInv, CyclesAreRemoved
  <2>3. \E e \in edges : e[1] = n
    BY <1>1, <1>3 DEF IInv, Rounds
  <2>4. PICK x \in Children(n) : <<n, x>> \in edges
    BY <2>3, Pairs DEF IInv, Children
  <2>5. x \notin imported
    BY <2>4 DEF IInv, Rounds
  <2> QED
    BY <2>2, <2>5 DEF Children
<1>8. Rounds'
  BY <1>1, <1>2, <1>3 DEF IInv, Rounds
<1>9. Counts' /\ Handed' /\ ReferencesResolve'
  BY <1>1 DEF IInv, Counts, Handed, ReferencesResolve
<1> QED
  BY <1>4, <1>5, <1>6, <1>7, <1>8, <1>9 DEF IInv

-----------------------------------------------------------------------------
LEMMA StepHolds == IInv /\ [Next]_vars => IInv'
<1> SUFFICES ASSUME IInv, [Next]_vars PROVE IInv'
  OBVIOUS
<1>1. ASSUME NEW s \in Sources, AddSource(s) PROVE IInv'
  BY <1>1, AddSourceHolds
<1>2. CASE Built
  BY <1>2, BuiltHolds
<1>3. ASSUME NEW m \in Modules, SeekFrom(m) PROVE IInv'
  BY <1>3, SeekFromHolds
<1>4. ASSUME NEW x \in Node, SeekChild(x) PROVE IInv'
  BY <1>4, SpliceHolds, DescendHolds
<1>5. CASE SeekReturns
  BY <1>5, SeekReturnsHolds
<1>6. CASE Prepared
  BY <1>6, PreparedHolds
<1>7. ASSUME NEW n \in Node, ImportNode(n) PROVE IInv'
  BY <1>7, ImportNodeHolds
<1>8. CASE NextRound
  BY <1>8, NextRoundHolds
<1>9. CASE ImportFails
  BY <1>9, ImportFailsHolds
<1>10. CASE UNCHANGED vars
  <2> USE <1>10 DEF vars, input, graph, seek, rest
  <2>1. TypeOK' /\ Readers' /\ Before' /\ Copies' /\ PathShape' /\ CyclesAreRemoved'
        /\ Waits' /\ Rounds'
    BY DEF IInv, TypeOK, Readers, Before, Copies, PathShape, CyclesAreRemoved, Children,
           Waits, Rounds
  <2>2. Sought'
    <3> SUFFICES ASSUME NEW D \in SUBSET Originals, Settled(D) PROVE Settled(D)'
      BY DEF IInv, Sought
    <3>1. \A m \in Modules : InPath(Original(m))' <=> InPath(Original(m))
      BY DEF InPath
    <3>2. NoCycleIn(D)'
      BY DEF Settled, NoCycleIn
    <3> QED
      BY <3>1, <3>2 DEF Settled, IInv, TypeOK
  <2>3. Counts' /\ Handed' /\ AllImported' /\ ReferencesResolve'
    BY DEF IInv, Counts, Handed, AllImported, ReferencesResolve
  <2> QED
    BY <2>1, <2>2, <2>3 DEF IInv
<1> QED
  BY <1>1, <1>2, <1>3, <1>4, <1>5, <1>6, <1>7, <1>8, <1>9, <1>10 DEF Next, Steps

\* The parts of IInv hold in every state of every import.
THEOREM Inductive == Spec => []IInv
<1>1. Init => IInv
  BY InitHolds
<1>2. IInv /\ [Next]_vars => IInv'
  BY StepHolds
<1> QED
  BY <1>1, <1>2, PTL DEF Spec

\* RemoveCycles leaves no cycle in any graph.
THEOREM NoCycleIsLeft == Spec => []CyclesAreRemoved
<1>1. IInv => CyclesAreRemoved
  BY DEF IInv
<1> QED
  BY <1>1, Inductive, PTL

\* Neither RemoveCycles nor the import ever loses a reference between modules.
THEOREM NoReferenceIsLost == Spec => []WaitsForReferences
<1>1. IInv => WaitsForReferences
  <2> SUFFICES ASSUME IInv, phase \in {"seek", "import", "done"}, NEW r \in refs
               PROVE  \/ Original(r[2]) \in Children(Original(r[1]))
                      \/ Spliced(r[2]) \in Children(Original(r[1]))
                      \/ r[2] \in idMap[Original(r[1])]
    BY DEF WaitsForReferences
  <2>1. \A x \in Node : <<Original(r[1]), x>> \in edges => x \in Children(Original(r[1]))
    BY Pairs DEF IInv, Children
  <2>2. Original(r[2]) \in Node /\ Spliced(r[2]) \in Node
    BY Pairs, Nodes DEF IInv
  <2> QED
    BY <2>1, <2>2 DEF IInv, Waits
<1> QED
  BY <1>1, Inductive, PTL

\* Copies, which have no lock, never have to be unlinked from a child.
THEOREM CopiesAreLeaves == Spec => []CopiesWaitForNothing
<1>1. IInv => CopiesWaitForNothing
  BY Pairs DEF IInv, Copies, CopiesWaitForNothing, Children
<1> QED
  BY <1>1, Inductive, PTL

\* A committed import is whole: every node, and every row once.
THEOREM EverythingIsImported == Spec => []ImportIsComplete
<1>1. IInv => ImportIsComplete
  <2> SUFFICES ASSUME IInv, phase = "done"
               PROVE  /\ imported = nodes
                      /\ \A s \in Sources : created[s] =
                           IF reader[to[s]] = s /\ s \in filled THEN 1 ELSE 0
    BY DEF ImportIsComplete
  <2>1. imported = nodes
    BY DEF IInv, AllImported
  <2>2. ASSUME NEW s \in Sources, reader[to[s]] = s, s \in filled
        PROVE  created[s] = 1
    <3>1. to[s] \in Modules /\ Original(to[s]) \in nodes
      BY <2>2, SourcesAssumption DEF IInv, TypeOK, Readers
    <3> QED
      BY <2>1, <2>2, <3>1 DEF IInv, Counts
  <2>3. ASSUME NEW s \in Sources, ~(reader[to[s]] = s /\ s \in filled)
        PROVE  created[s] = 0
    BY <2>3 DEF IInv, Counts
  <2> QED
    BY <2>1, <2>2, <2>3
<1> QED
  BY <1>1, Inductive, PTL

\* Every reference to an imported row becomes one to its record, in cycles too.
THEOREM RowsAreResolved == Spec => []ReferencesResolve
<1>1. IInv => ReferencesResolve
  BY DEF IInv
<1> QED
  BY <1>1, Inductive, PTL
=============================================================================
