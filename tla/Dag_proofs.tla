----------------------------- MODULE Dag_proofs -----------------------------
(***************************************************************************)
(* Theorems about e3.collection.dag.DAG: its caches (Dag), for every       *)
(* finite set of vertices and graphs of any size that are built by calls   *)
(* in any order, and the methods that look at the whole graph, on any      *)
(* graph: prune, get_context and shortest_path.                            *)
(*                                                                         *)
(* Each cache is right because whatever changes an edge resets all three;  *)
(* what is left to show are two facts about graphs.  A graph without cycle *)
(* gets none from new edges into v if v is not its own ancestor afterwards *)
(* (ExtensionIsAcyclic): this is why looking at one closure is enough.     *)
(* And a finite graph has a cycle if and only if its reverse has one       *)
(* (ReverseIsAcyclic): this is why reverse_graph may copy the verdict.     *)
(*                                                                         *)
(* Each of the other methods has its inductive invariant.  The operators   *)
(* on paths are recursive functions over the naturals.  That such a        *)
(* function exists, and what holds of all its values, is shown by a        *)
(* smallest counterexample, which SmallestOf gives.                        *)
(***************************************************************************)
EXTENDS Dag, MCDagQueries, DagIterator_proofs, FiniteSetTheorems, WellFoundedInduction, TLAPS

\* Edges that end in Vertex.
Edges == [Vertex -> SUBSET Vertex]

----------------------------------------------------------------------------
(* Graphs.                                                                 *)

LEMMA ExtensionIsAcyclic ==
  ASSUME NEW V \in SUBSET Vertex, NEW g \in Edges, NEW h \in Edges, NEW v \in V,
         ValidGraph(V, g),
         \A w \in Vertex \ {v} : h[w] = g[w],
         h[v] \subseteq V,
         v \notin Ancestors(h, v)
  PROVE  ValidGraph(V, h)
<1>1. Closed(V, h)
  BY DEF ValidGraph, Closed
<1>2. PICK S \in SUBSET Vertex :
        h[v] \cup UNION {h[s] : s \in S} \subseteq S /\ v \notin S
  BY DEF Ancestors
<1>3. SUFFICES ASSUME NEW T \in (SUBSET V) \ {{}},
                      \A t \in T : h[t] \cap T # {}
               PROVE  FALSE
  BY <1>1 DEF ValidGraph, AcyclicOn
<1>4. CASE T \cap S = {}
  <2>1. v \notin T
    BY <1>2, <1>3, <1>4
  <2>2. \A t \in T : g[t] \cap T # {}
    BY <1>3, <2>1
  <2>3. QED
    BY <2>2 DEF ValidGraph, AcyclicOn
<1>5. CASE T \cap S # {}
  <2>1. \A t \in T \cap S : g[t] \cap (T \cap S) # {}
    <3>1. TAKE t \in T \cap S
    <3>2. h[t] \subseteq S /\ h[t] = g[t]
      BY <1>2
    <3>3. QED
      BY <1>3, <3>2
  <2>2. T \cap S \in (SUBSET V) \ {{}}
    BY <1>5
  <2>3. QED
    BY <2>1, <2>2 DEF ValidGraph, AcyclicOn
<1>6. QED
  BY <1>4, <1>5

LEMMA ReverseIsAcyclic ==
  ASSUME NEW V \in SUBSET Vertex, NEW g, NEW h,
         \A p \in V, v \in V : v \in h[p] <=> p \in g[v],
         AcyclicOn(g, V)
  PROVE  AcyclicOn(h, V)
<1> DEFINE Bad == {T \in (SUBSET V) \ {{}} : \A v \in T : h[v] \cap T # {}}
<1>1. SUFFICES ASSUME Bad # {} PROVE FALSE
  BY DEF AcyclicOn
<1>2. Bad \subseteq FiniteSubsetsOf(V)
  BY VertexAssumption, FS_Subset DEF FiniteSubsetsOf
<1>3. PICK T \in Bad : \A U \in Bad : ~(<<U, T>> \in StrictSubsetOrdering(V))
  <2>1. IsWellFoundedOn(StrictSubsetOrdering(V), FiniteSubsetsOf(V))
    BY FS_StrictSubsetOrderingWellFounded
  <2> HIDE DEF Bad
  <2>2. QED
    BY <1>1, <1>2, <2>1, WFMin
<1>4. PICK r \in T : g[r] \cap T = {}
  BY DEF AcyclicOn
<1>5. T \ {r} \in Bad
  <2>1. PICK s \in T : s \in h[r]
    OBVIOUS
  <2>2. s # r
    BY <1>4, <2>1
  <2>3. ASSUME NEW v \in T \ {r} PROVE h[v] \cap (T \ {r}) # {}
    <3>1. r \notin h[v]
      BY <1>4, <2>3
    <3>2. QED
      BY <3>1
  <2>4. QED
    BY <2>1, <2>2, <2>3
<1>6. <<T \ {r}, T>> \in StrictSubsetOrdering(V)
  BY DEF StrictSubsetOrdering
<1>7. QED
  BY <1>3, <1>5, <1>6

\* The ancestors of v are what one reaches from its predecessors.
LEMMA AncestorsClosed ==
  ASSUME NEW h \in Edges, NEW v \in Vertex
  PROVE  /\ h[v] \subseteq Ancestors(h, v)
         /\ \A a \in Ancestors(h, v) : h[a] \subseteq Ancestors(h, v)
BY DEF Ancestors, Edges

\* A vertex that is its own ancestor lies on a cycle: those of its ancestors
\* it is an ancestor of have predecessors among themselves.
LEMMA AncestorCycle ==
  ASSUME NEW V \in SUBSET Vertex, NEW h \in Edges, NEW v \in V,
         Closed(V, h), v \in Ancestors(h, v)
  PROVE  ~AcyclicOn(h, V)
<1> DEFINE T == {a \in Ancestors(h, v) : v \in Ancestors(h, a)}
<1>1. T \in (SUBSET V) \ {{}}
  <2>1. h[v] \cup UNION {h[s] : s \in V} \subseteq V
    BY DEF Closed
  <2>2. Ancestors(h, v) \subseteq V
    BY <2>1 DEF Ancestors
  <2>3. QED
    BY <2>2
<1>2. ASSUME NEW t \in T PROVE h[t] \cap T # {}
  <2> DEFINE S == h[t] \cup {x \in Vertex : \E p \in h[t] : x \in Ancestors(h, p)}
  <2>1. t \in Vertex /\ h[t] \subseteq Vertex
    BY <1>1 DEF Edges
  <2>2. ASSUME NEW s \in S PROVE h[s] \subseteq S
    <3>1. s \in Vertex /\ h[s] \subseteq Vertex
      BY <2>1, <2>2 DEF Edges
    <3>2. CASE s \in h[t]
      BY <3>1, <3>2, AncestorsClosed
    <3>3. CASE \E p \in h[t] : s \in Ancestors(h, p)
      BY <2>1, <3>1, <3>3, AncestorsClosed
    <3>4. QED
      BY <3>2, <3>3
  <2>3. S \in SUBSET Vertex /\ h[t] \cup UNION {h[s] : s \in S} \subseteq S
    BY <2>1, <2>2
  <2> HIDE DEF S
  <2>4. v \in S
    BY <2>3 DEF Ancestors
  <2>5. h[t] \subseteq Ancestors(h, v)
    BY AncestorsClosed
  <2>6. QED
    BY <2>4, <2>5 DEF S
<1> HIDE DEF T
<1>3. QED
  BY <1>1, <1>2 DEF AcyclicOn

LEMMA SameOnVertices ==
  ASSUME NEW V, NEW g, NEW h, \A v \in V : h[v] = g[v]
  PROVE  ValidGraph(V, g) <=> ValidGraph(V, h)
BY DEF ValidGraph, Closed, AcyclicOn

LEMMA OrderReverses ==
  ASSUME NEW V \in SUBSET Vertex, NEW g, NEW h,
         \A p \in V : h[p] \subseteq V,
         \A p \in V, v \in V : v \in h[p] <=> p \in g[v],
         NEW s \in TopologicalOrders(V, g)
  PROVE  Reverse(s) \in TopologicalOrders(V, h)
<1> DEFINE n == Cardinality(V)
           r == Reverse(s)
<1>1. IsFiniteSet(V) /\ n \in Nat
  BY VertexAssumption, FS_Subset, FS_CardinalityType
<1>2. /\ s \in [1..n -> V]
      /\ \A i, j \in 1..n : i # j => s[i] # s[j]
      /\ \A i \in 1..n : \A p \in g[s[i]] : \E j \in 1..(i - 1) : s[j] = p
  BY DEF TopologicalOrders, SetToSeqs
<1>3. s \in Seq(V) /\ Len(s) = n
  BY <1>1, <1>2
<1>4. r = [i \in 1..n |-> s[(n - i) + 1]]
  BY <1>3 DEF Reverse
<1>5. \A p \in V : \E k \in 1..n : s[k] = p
  <2>1. s \in Injection(1..n, V)
    BY <1>2 DEF Injection, IsInjective
  <2>2. IsFiniteSet(1..n) /\ Cardinality(1..n) = n
    BY <1>1, FS_Interval
  <2> HIDE DEF n
  <2>3. s \in Surjection(1..n, V)
    BY <1>1, <2>1, <2>2, FS_Injection DEF n
  <2>4. QED
    BY <2>3 DEF Surjection
<1> HIDE DEF n, r
<1>6. r \in [1..n -> V] /\ \A i, j \in 1..n : i # j => r[i] # r[j]
  <2>1. \A i \in 1..n : (n - i) + 1 \in 1..n /\ r[i] = s[(n - i) + 1]
    BY <1>1, <1>4
  <2>2. r \in [1..n -> V]
    BY <1>2, <1>4, <2>1
  <2>3. ASSUME NEW i \in 1..n, NEW j \in 1..n, i # j PROVE r[i] # r[j]
    <3>1. (n - i) + 1 # (n - j) + 1
      BY <1>1, <2>3
    <3>2. QED
      BY <1>2, <2>1, <3>1
  <2>4. QED
    BY <2>2, <2>3
<1>7. ASSUME NEW i \in 1..n, NEW p \in h[r[i]]
      PROVE  \E j \in 1..(i - 1) : r[j] = p
  <2>1. r[i] \in V /\ p \in V
    BY <1>6, <1>7
  <2>2. r[i] \in g[p]
    BY <2>1, <1>7
  <2>3. PICK k \in 1..n : s[k] = p
    BY <1>5, <2>1
  <2>4. PICK j \in 1..(k - 1) : s[j] = r[i]
    BY <1>2, <2>2, <2>3
  <2>5. (n - i) + 1 \in 1..n /\ s[(n - i) + 1] = r[i]
    BY <1>1, <1>4
  <2>6. j \in 1..n
    BY <1>1, <2>3, <2>4
  <2>7. j = (n - i) + 1
    BY <1>2, <2>4, <2>5, <2>6
  <2>8. (n - k) + 1 \in 1..(i - 1)
    BY <1>1, <2>3, <2>4, <2>7
  <2>9. (n - k) + 1 \in 1..n /\ (n - ((n - k) + 1)) + 1 = k
    BY <1>1, <2>3
  <2>10. r[(n - k) + 1] = p
    BY <1>4, <2>3, <2>9
  <2>11. QED
    BY <2>8, <2>10
<1>8. DOMAIN r = 1..n
  BY <1>6
<1>9. r \in SetToSeqs(V)
  BY <1>6 DEF SetToSeqs, n
<1>10. QED
  BY <1>7, <1>8, <1>9 DEF TopologicalOrders, r

----------------------------------------------------------------------------
(* Caches.                                                                 *)

\* The caches s, h and o are right for the graph.
CachesRight(V, g, s, h, o) ==
  /\ h \in {"unknown", "no", "yes"}
  /\ h = "no" => ValidGraph(V, g)
  /\ h = "yes" => ~ValidGraph(V, g)
  /\ s # NoSuccessors => s = SuccessorsOf(V, g)
  /\ \A x \in o : x \in TopologicalOrders(V, g) /\ o = {x}

LEMMA NothingIsRight ==
  ASSUME NEW V, NEW g
  PROVE  CachesRight(V, g, NoSuccessors, "unknown", {})
BY DEF CachesRight

LEMMA FilledRight ==
  ASSUME NEW V, NEW g, NEW s, s # NoSuccessors => s = SuccessorsOf(V, g)
  PROVE  Filled(V, g, s) # NoSuccessors => Filled(V, g, s) = SuccessorsOf(V, g)
BY DEF Filled

\* check() makes right caches of right caches, and reaches a verdict.
LEMMA CheckedRight ==
  ASSUME NEW V, NEW g, NEW s, NEW h, NEW o, CachesRight(V, g, s, h, o),
         NEW c \in Checked(V, g, [successors |-> s, has_cycle |-> h, cached_order |-> o])
  PROVE  /\ CachesRight(V, g, c.successors, c.has_cycle, c.cached_order)
         /\ c.has_cycle \in {"no", "yes"}
<1> DEFINE k == [successors |-> s, has_cycle |-> h, cached_order |-> o]
           f == IF \E v \in V : g[v] = {} THEN Filled(V, g, s) ELSE s
<1>1. f # NoSuccessors => f = SuccessorsOf(V, g)
  BY FilledRight DEF CachesRight
<1>2. CASE h # "unknown"
  <2>1. c = k
    BY <1>2 DEF Checked
  <2>2. QED
    BY <1>2, <2>1 DEF CachesRight
<1>3. CASE h = "unknown" /\ ~Closed(V, g)
  <2>1. c = [k EXCEPT !.has_cycle = "yes"]
    BY <1>3 DEF Checked
  <2>2. c.successors = s /\ c.has_cycle = "yes" /\ c.cached_order = o
    BY <2>1
  <2>3. QED
    BY <1>3, <2>2 DEF CachesRight, ValidGraph
<1>4. CASE h = "unknown" /\ Closed(V, g) /\ AcyclicOn(g, V)
  <2>1. PICK x \in TopologicalOrders(V, g) :
          c = [successors |-> f, has_cycle |-> "no", cached_order |-> {x}]
    BY <1>4 DEF Checked
  <2> HIDE DEF f
  <2>2. c.successors = f /\ c.has_cycle = "no" /\ c.cached_order = {x}
    BY <2>1
  <2>3. QED
    BY <1>1, <1>4, <2>2 DEF CachesRight, ValidGraph
<1>5. CASE h = "unknown" /\ Closed(V, g) /\ ~AcyclicOn(g, V)
  <2>1. c = [k EXCEPT !.has_cycle = "yes", !.successors = f]
    BY <1>5 DEF Checked
  <2> HIDE DEF f
  <2>2. c.successors = f /\ c.has_cycle = "yes" /\ c.cached_order = o
    BY <2>1
  <2>3. QED
    BY <1>1, <1>5, <2>2 DEF CachesRight, ValidGraph
<1>6. QED
  BY <1>2, <1>3, <1>4, <1>5

----------------------------------------------------------------------------
(* The inductive invariant.                                                *)

GraphTypeOK ==
  /\ vertex_data \in SUBSET Vertex
  /\ predecessors \in Edges
  /\ \A v \in Vertex \ vertex_data : predecessors[v] = {}

DagInv ==
  /\ GraphTypeOK
  /\ CachesRight(vertex_data, predecessors, successors, has_cycle, cached_order)
  /\ CheckedMeansValid

LEMMA DagInvInit == DagInit => DagInv
<1> SUFFICES ASSUME DagInit PROVE DagInv
  OBVIOUS
<1>1. GraphTypeOK
  BY DEF DagInit, GraphTypeOK, Edges, NoPredecessors
<1>2. CheckedMeansValid
  BY DEF DagInit, CheckedMeansValid
<1>3. QED
  BY <1>1, <1>2, NothingIsRight DEF DagInit, DagInv

\* A check that passes tells the truth.
LEMMA PassingMeansValid ==
  ASSUME DagInv, CheckPasses
  PROVE  Valid
<1>1. PICK c \in Checked(vertex_data, predecessors, Caches) : c.has_cycle # "yes"
  BY DEF CheckPasses, Raises
<1>2. c.has_cycle = "no" => ValidGraph(vertex_data, predecessors)
  BY CheckedRight DEF DagInv, Caches, CachesRight
<1>3. c.has_cycle \in {"no", "yes"}
  BY CheckedRight DEF DagInv, Caches
<1>4. QED
  BY <1>1, <1>2, <1>3 DEF Valid

\* What a step with new predecessors of v has to show.
LEMMA SetPredecessorsStep ==
  ASSUME DagInv, NEW v \in Vertex, NEW P \in SUBSET Vertex,
         SetPredecessors(v, P),
         vertex_data' = vertex_data \cup {v}
  PROVE  /\ GraphTypeOK'
         /\ CachesRight(vertex_data, predecessors, successors, has_cycle, cached_order)'
<1>1. GraphTypeOK'
  BY DEF DagInv, GraphTypeOK, SetPredecessors, Edges
<1>2. successors' = NoSuccessors /\ has_cycle' = "unknown" /\ cached_order' = {}
  BY DEF SetPredecessors
<1>3. QED
  BY <1>1, <1>2, NothingIsRight DEF CachesRight

LEMMA UpdateAddsStep ==
  ASSUME DagInv, NEW v \in Vertex, NEW P \in SUBSET Vertex, NEW e \in BOOLEAN,
         UpdateAdds(v, P, e)
  PROVE  DagInv'
<1>1. GraphTypeOK'
      /\ CachesRight(vertex_data, predecessors, successors, has_cycle, cached_order)'
  BY SetPredecessorsStep DEF UpdateAdds
<1>2. ASSUME e PROVE Valid'
  <2>1. Valid /\ P \subseteq vertex_data /\ v \notin vertex_data
    BY <1>2, PassingMeansValid DEF UpdateAdds
  <2>2. /\ vertex_data' = vertex_data \cup {v}
        /\ predecessors' = [predecessors EXCEPT ![v] = P]
    BY DEF UpdateAdds, SetPredecessors
  <2>3. predecessors'[v] = P /\ \A w \in vertex_data : predecessors'[w] = predecessors[w]
    BY <2>1, <2>2 DEF DagInv, GraphTypeOK, Edges
  <2>4. Closed(vertex_data', predecessors')
    BY <2>1, <2>2, <2>3 DEF Valid, ValidGraph, Closed
  <2>5. ASSUME NEW T \in (SUBSET (vertex_data')) \ {{}}
        PROVE  \E t \in T : predecessors'[t] \cap T = {}
    <3>1. CASE T \ {v} = {}
      BY <2>1, <2>3, <2>5, <3>1
    <3>2. CASE T \ {v} # {}
      <4>1. T \ {v} \in (SUBSET vertex_data) \ {{}}
        BY <2>2, <3>2
      <4>2. PICK t \in T \ {v} : predecessors[t] \cap (T \ {v}) = {}
        BY <2>1, <4>1 DEF Valid, ValidGraph, AcyclicOn
      <4>3. t \in vertex_data /\ v \notin predecessors[t]
        BY <2>1, <4>1, <4>2 DEF Valid, ValidGraph, Closed
      <4>4. QED
        BY <2>3, <4>2, <4>3
    <3>3. QED
      BY <3>1, <3>2
  <2>6. QED
    BY <2>4, <2>5 DEF Valid, ValidGraph, AcyclicOn
<1>3. CheckedMeansValid'
  BY <1>2 DEF UpdateAdds, CheckedMeansValid
<1>4. QED
  BY <1>1, <1>3 DEF DagInv

LEMMA UpdateExtendsStep ==
  ASSUME DagInv, NEW v \in Vertex, NEW P \in SUBSET Vertex, NEW e \in BOOLEAN,
         UpdateExtends(v, P, e)
  PROVE  DagInv'
<1>1. v \in vertex_data /\ vertex_data' = vertex_data
  BY DEF UpdateExtends
<1>2. predecessors \in Edges /\ vertex_data \in SUBSET Vertex
  BY DEF DagInv, GraphTypeOK
<1>3. predecessors[v] \cup P \in SUBSET Vertex
  BY <1>2 DEF Edges
<1>4. GraphTypeOK'
      /\ CachesRight(vertex_data, predecessors, successors, has_cycle, cached_order)'
  BY <1>1, <1>3, SetPredecessorsStep DEF UpdateExtends
<1>5. ASSUME e PROVE Valid'
  <2> DEFINE h == [predecessors EXCEPT ![v] = @ \cup P]
  <2>1. predecessors' = h
    BY DEF UpdateExtends, SetPredecessors
  <2>2. Valid /\ P \subseteq vertex_data /\ v \notin Ancestors(h, v)
    BY <1>5, PassingMeansValid DEF UpdateExtends, ClosureWith
  <2>3. h \in Edges
    BY <1>2, <1>3 DEF Edges
  <2>4. \A w \in Vertex \ {v} : h[w] = predecessors[w]
    BY <1>2 DEF Edges
  <2>5. h[v] \subseteq vertex_data
    BY <1>1, <1>2, <2>2 DEF Edges, Valid, ValidGraph, Closed
  <2> HIDE DEF h
  <2>6. ValidGraph(vertex_data, h)
    BY <1>1, <1>2, <2>2, <2>3, <2>4, <2>5, ExtensionIsAcyclic DEF Valid
  <2>7. QED
    BY <1>1, <2>1, <2>6 DEF Valid
<1>6. CheckedMeansValid'
  BY <1>5 DEF UpdateExtends, CheckedMeansValid
<1>7. QED
  BY <1>4, <1>6 DEF DagInv


LEMMA UpdateMakesCycleStep ==
  ASSUME DagInv, NEW v \in Vertex, NEW P \in SUBSET Vertex, UpdateMakesCycle(v, P)
  PROVE  DagInv' /\ UNCHANGED graph
<1>1. v \in vertex_data /\ vertex_data' = vertex_data
  BY DEF UpdateMakesCycle
<1>2. predecessors[v] \in SUBSET Vertex
  BY DEF DagInv, GraphTypeOK, Edges
<1>3. GraphTypeOK'
      /\ CachesRight(vertex_data, predecessors, successors, has_cycle, cached_order)'
  BY <1>1, <1>2, SetPredecessorsStep DEF UpdateMakesCycle
<1>4. CheckedMeansValid'
  BY DEF UpdateMakesCycle, CheckedMeansValid
<1>5. predecessors' = predecessors
  BY DEF UpdateMakesCycle, SetPredecessors, DagInv, GraphTypeOK, Edges
<1>6. QED
  BY <1>1, <1>3, <1>4, <1>5 DEF DagInv, graph

\* A step that leaves the graph alone and sets right caches.
LEMMA SetCachesStep ==
  ASSUME DagInv, UNCHANGED graph, outcome' # "checked",
         NEW c \in Checked(vertex_data, predecessors, Caches), SetCaches(c)
  PROVE  DagInv'
<1>1. GraphTypeOK'
  BY DEF DagInv, GraphTypeOK, graph
<1>2. CachesRight(vertex_data, predecessors, c.successors, c.has_cycle, c.cached_order)
  BY CheckedRight DEF DagInv, Caches
<1>3. CachesRight(vertex_data, predecessors, successors, has_cycle, cached_order)'
  BY <1>2 DEF SetCaches, graph
<1>4. QED
  BY <1>1, <1>3 DEF DagInv, CheckedMeansValid

LEMMA UpdateStep ==
  ASSUME DagInv, NEW v \in Vertex, NEW P \in SUBSET Vertex, NEW e \in BOOLEAN,
         UpdateVertex(v, P, e)
  PROVE  DagInv'
<1>1. CASE UpdateRefused(v, P)
  BY <1>1, SetCachesStep DEF UpdateRefused
<1>2. QED
  BY <1>1, UpdateAddsStep, UpdateExtendsStep, UpdateMakesCycleStep DEF UpdateVertex

\* The reverse of a graph without missing vertices is valid when it is.
LEMMA ReversedRight ==
  ASSUME DagInv, Closed(vertex_data, predecessors)
  PROVE  /\ ReversedVertices = vertex_data
         /\ ReversedEdges \in Edges
         /\ \A v \in Vertex \ vertex_data : ReversedEdges[v] = {}
         /\ ValidGraph(vertex_data, ReversedEdges) <=> Valid
         /\ CachesRight(ReversedVertices, ReversedEdges, ReversedCaches.successors,
                         ReversedCaches.has_cycle, ReversedCaches.cached_order)
<1> DEFINE V == vertex_data
           g == predecessors
           h == ReversedEdges
<1>1. V \in SUBSET Vertex /\ g \in Edges
  BY DEF DagInv, GraphTypeOK
<1>2. ReversedVertices = V
  BY DEF ReversedVertices, Closed
<1>3. h \in Edges /\ \A p \in Vertex : h[p] = {v \in V : p \in g[v]}
  BY <1>1 DEF ReversedEdges, Edges
<1>4. \A v \in Vertex \ V : h[v] = {}
  BY <1>3 DEF Closed
<1> HIDE DEF h
<1>5. \A p \in V, v \in V : v \in h[p] <=> p \in g[v]
  BY <1>1, <1>3
<1>6. \A p \in V : h[p] \subseteq V
  BY <1>1, <1>3
<1>7. ValidGraph(V, h) <=> ValidGraph(V, g)
  <2>1. AcyclicOn(g, V) => AcyclicOn(h, V)
    BY <1>1, <1>5, ReverseIsAcyclic
  <2>2. AcyclicOn(h, V) => AcyclicOn(g, V)
    BY <1>1, <1>5, ReverseIsAcyclic
  <2>3. Closed(V, h)
    BY <1>6 DEF Closed
  <2>4. QED
    BY <2>1, <2>2, <2>3 DEF ValidGraph
<1>8. \A x \in {Reverse(s) : s \in cached_order} :
        x \in TopologicalOrders(V, h) /\ {Reverse(s) : s \in cached_order} = {x}
  <2>1. \A s \in cached_order : s \in TopologicalOrders(V, g) /\ cached_order = {s}
    BY DEF DagInv, CachesRight
  <2>2. \A s \in cached_order : Reverse(s) \in TopologicalOrders(V, h)
    BY <1>1, <1>5, <1>6, <2>1, OrderReverses
  <2>3. QED
    BY <2>1, <2>2
<1>9. CachesRight(V, h, NoSuccessors, has_cycle, {Reverse(s) : s \in cached_order})
  BY <1>7, <1>8 DEF DagInv, CachesRight
<1>10. QED
  BY <1>2, <1>3, <1>4, <1>7, <1>9 DEF h, Valid, ReversedCaches

LEMMA ReverseStep ==
  ASSUME DagInv, ReverseOpen = FALSE, NEW e \in BOOLEAN, ReverseGraph(e)
  PROVE  DagInv'
<1>1. Closed(vertex_data, predecessors)
  BY DEF ReverseGraph
<1> DEFINE k == [successors |-> NoSuccessors, has_cycle |-> has_cycle,
                 cached_order |-> {Reverse(s) : s \in cached_order}]
<1>2. PICK c \in IF e THEN Checked(ReversedVertices, ReversedEdges, ReversedCaches)
                  ELSE {ReversedCaches} :
       \/ /\ has_cycle' = IF e THEN c.has_cycle ELSE has_cycle
          /\ outcome' = IF e /\ Raises(c) THEN "DAGError" ELSE "ok"
          /\ UNCHANGED <<graph, successors, cached_order>>
       \/ /\ ~(e /\ Raises(c))
          /\ vertex_data' = ReversedVertices
          /\ predecessors' = ReversedEdges
          /\ SetCaches(c)
          /\ outcome' = "ok"
  BY DEF ReverseGraph
<1>3. ReversedCaches = k
  BY DEF ReversedCaches
<1>4. CachesRight(ReversedVertices, ReversedEdges, k.successors, k.has_cycle, k.cached_order)
  BY <1>1, <1>3, ReversedRight
<1>5. CachesRight(ReversedVertices, ReversedEdges, c.successors, c.has_cycle, c.cached_order)
  <2>1. CASE e
    <3>1. c \in Checked(ReversedVertices, ReversedEdges, k)
      BY <1>2, <1>3, <2>1
    <3>2. QED
      BY <1>4, <3>1, CheckedRight
  <2>2. CASE ~e
    BY <1>2, <1>3, <1>4, <2>2
  <2>3. QED
    BY <2>1, <2>2
<1> HIDE DEF k
<1>6. CASE /\ has_cycle' = IF e THEN c.has_cycle ELSE has_cycle
           /\ outcome' = IF e /\ Raises(c) THEN "DAGError" ELSE "ok"
           /\ UNCHANGED <<graph, successors, cached_order>>
  <2>1. /\ c.has_cycle \in {"unknown", "no", "yes"}
        /\ c.has_cycle = "no" => Valid
        /\ c.has_cycle = "yes" => ~Valid
    BY <1>1, <1>5, ReversedRight DEF CachesRight
  <2>2. CachesRight(vertex_data, predecessors, successors, has_cycle, cached_order)'
    BY <1>6, <2>1 DEF DagInv, CachesRight, graph, Valid
  <2>3. GraphTypeOK'
    BY <1>6 DEF DagInv, GraphTypeOK, graph
  <2>4. QED
    BY <1>6, <2>2, <2>3 DEF DagInv, CheckedMeansValid
<1>7. CASE /\ vertex_data' = ReversedVertices
           /\ predecessors' = ReversedEdges
           /\ SetCaches(c)
           /\ outcome' = "ok"
  <2>1. GraphTypeOK'
    BY <1>1, <1>7, ReversedRight DEF DagInv, GraphTypeOK
  <2>2. CachesRight(vertex_data, predecessors, successors, has_cycle, cached_order)'
    BY <1>5, <1>7 DEF SetCaches
  <2>3. QED
    BY <1>7, <2>1, <2>2 DEF DagInv, CheckedMeansValid
<1>8. QED
  BY <1>2, <1>6, <1>7

LEMMA MergeStep ==
  ASSUME DagInv, NEW g \in Merged, Merge(g)
  PROVE  DagInv'
<1> DEFINE V == vertex_data \cup {v \in Vertex : g[v] # {}}
           union == [v \in Vertex |-> predecessors[v] \cup g[v]]
           k == [successors |-> NoSuccessors, has_cycle |-> "unknown", cached_order |-> {}]
<1>1. g \in Edges
  BY DagAssumption DEF Edges
<1>2. CASE ValidGraph(V, union)
  <2>1. PICK c \in Checked(V, union, k) : SetCaches(c)
    BY <1>2 DEF Merge
  <2>2. vertex_data' = V /\ predecessors' = union
    BY <1>2 DEF Merge
  <2>3. CachesRight(V, union, c.successors, c.has_cycle, c.cached_order)
    <3> HIDE DEF V, union
    <3>1. CachesRight(V, union, NoSuccessors, "unknown", {})
      BY NothingIsRight
    <3>2. QED
      BY <2>1, <3>1, CheckedRight
  <2>4. GraphTypeOK'
    BY <1>1, <2>2 DEF DagInv, GraphTypeOK, Edges
  <2>5. CachesRight(vertex_data, predecessors, successors, has_cycle, cached_order)'
    BY <2>1, <2>2, <2>3 DEF SetCaches
  <2>6. CheckedMeansValid'
    BY <1>2, <2>2 DEF CheckedMeansValid, Valid
  <2>7. QED
    BY <2>4, <2>5, <2>6 DEF DagInv
<1>3. CASE ~ValidGraph(V, union)
  <2>1. outcome' = "DAGError" /\ UNCHANGED <<graph, caches>>
    BY <1>3 DEF Merge
  <2>2. QED
    BY <2>1 DEF DagInv, GraphTypeOK, CachesRight, CheckedMeansValid, graph, caches
<1>4. QED
  BY <1>2, <1>3

LEMMA DagInvStep ==
  ASSUME DagInv, ReverseOpen = FALSE, [DagNext]_dagVars
  PROVE  DagInv'
<1>1. CASE Check
  BY <1>1, SetCachesStep DEF Check
<1>2. CASE GetSuccessors
  <2>1. CachesRight(vertex_data, predecessors, successors', has_cycle, cached_order)
    BY <1>2, FilledRight DEF GetSuccessors, DagInv, CachesRight
  <2>2. outcome' # "checked"
    BY <1>2 DEF GetSuccessors
  <2>3. QED
    BY <1>2, <2>1, <2>2
       DEF GetSuccessors, DagInv, GraphTypeOK, CheckedMeansValid, graph, CachesRight
<1>3. CASE \E v \in Vertex : AddExisting(v)
  BY <1>3 DEF AddExisting, DagInv, GraphTypeOK, CachesRight, CheckedMeansValid, graph, caches
<1>4. CASE \E v \in Vertex, P \in SUBSET Vertex, e \in BOOLEAN : UpdateVertex(v, P, e)
  BY <1>4, UpdateStep
<1>5. CASE \E e \in BOOLEAN : ReverseGraph(e)
  BY <1>5, ReverseStep
<1>6. CASE \E g \in Merged : Merge(g)
  BY <1>6, MergeStep
<1>7. CASE UNCHANGED dagVars
  BY <1>7 DEF DagInv, GraphTypeOK, CachesRight, CheckedMeansValid, Valid, graph, caches, dagVars
<1>8. QED
  BY <1>1, <1>2, <1>3, <1>4, <1>5, <1>6, <1>7 DEF DagNext

LEMMA DagInvHolds ==
  ASSUME ReverseOpen = FALSE
  PROVE  DagSpec => []DagInv
<1>1. DagInv /\ [DagNext]_dagVars => DagInv'
  BY DagInvStep
<1>2. QED
  BY <1>1, DagInvInit, PTL DEF DagSpec

----------------------------------------------------------------------------
(* Theorems.                                                               *)

\* Types.
THEOREM DagTypeCorrect ==
  ASSUME ReverseOpen = FALSE
  PROVE  DagSpec => []DagTypeOK
<1>1. DagInv => DagTypeOK
  BY DEF DagInv, GraphTypeOK, DagTypeOK, CachesRight, Edges, SuccessorsOf, TopologicalOrders
<1>2. QED
  BY <1>1, DagInvHolds, PTL

\* However the graph is built, the verdict that check() remembers is right, as
\* long as no graph with missing vertices is reversed.
THEOREM VerdictExactHolds ==
  ASSUME ReverseOpen = FALSE
  PROVE  DagSpec => []VerdictExact
<1>1. DagInv => VerdictExact
  BY DEF DagInv, CachesRight, VerdictExact, Valid
<1>2. QED
  BY <1>1, DagInvHolds, PTL

\* An iteration that returns the cached order returns a topological order of
\* the present graph.
THEOREM OrderExactHolds ==
  ASSUME ReverseOpen = FALSE
  PROVE  DagSpec => []OrderExact
<1>1. DagInv => OrderExact
  BY DEF DagInv, CachesRight, OrderExact
<1>2. QED
  BY <1>1, DagInvHolds, PTL

\* The cached successors are the inverse of the predecessors.
THEOREM SuccessorsExactHolds ==
  ASSUME ReverseOpen = FALSE
  PROVE  DagSpec => []SuccessorsExact
<1>1. DagInv => SuccessorsExact
  BY DEF DagInv, CachesRight, SuccessorsExact
<1>2. QED
  BY <1>1, DagInvHolds, PTL

\* No cache is ever stale.
THEOREM CachesExactHolds ==
  ASSUME ReverseOpen = FALSE
  PROVE  DagSpec => []CachesExact
BY VerdictExactHolds, OrderExactHolds, SuccessorsExactHolds, PTL DEF CachesExact

\* A checked update that is accepted leaves a valid graph, although only one
\* closure was computed.
THEOREM CheckedMeansValidHolds ==
  ASSUME ReverseOpen = FALSE
  PROVE  DagSpec => []CheckedMeansValid
<1>1. DagInv => CheckedMeansValid
  BY DEF DagInv
<1>2. QED
  BY <1>1, DagInvHolds, PTL

\* Whatever the calls before, no cache and no checked update misleads.
THEOREM CachesSoundHolds ==
  ASSUME ReverseOpen = FALSE
  PROVE  DagSpec => []CachesSound
BY CachesExactHolds, CheckedMeansValidHolds, PTL DEF CachesSound

\* A call that raises leaves the graph as it was: the predecessors that were
\* replaced for the test are put back.
THEOREM RefusalChangesNothingHolds ==
  ASSUME ReverseOpen = FALSE
  PROVE  DagSpec => RefusalChangesNothing
<1>1. ASSUME DagInv, [DagNext]_dagVars, outcome' \in {"DAGError", "KeyError"}
      PROVE  [outcome' \in {"DAGError", "KeyError"} => UNCHANGED graph]_dagVars
  <2>1. CASE \E v \in Vertex, P \in SUBSET Vertex, e \in BOOLEAN : UpdateVertex(v, P, e)
    <3>1. PICK v \in Vertex, P \in SUBSET Vertex, e \in BOOLEAN : UpdateVertex(v, P, e)
      BY <2>1
    <3>2. ~UpdateAdds(v, P, e) /\ ~UpdateExtends(v, P, e)
      BY <1>1 DEF UpdateAdds, UpdateExtends
    <3>3. UNCHANGED graph
      BY <1>1, <3>1, <3>2, UpdateMakesCycleStep DEF UpdateVertex, UpdateRefused
    <3>4. QED
      BY <3>3
  <2>2. CASE \E e \in BOOLEAN : ReverseGraph(e)
    BY <1>1, <2>2 DEF ReverseGraph, graph
  <2>3. CASE \E g \in Merged : Merge(g)
    BY <1>1, <2>3 DEF Merge, graph
  <2>4. QED
    BY <1>1, <2>1, <2>2, <2>3 DEF DagNext, Check, GetSuccessors, AddExisting
<1>2. DagInv /\ [DagNext]_dagVars =>
        [outcome' \in {"DAGError", "KeyError"} => UNCHANGED graph]_dagVars
  BY <1>1
<1>3. QED
  BY <1>2, DagInvHolds, PTL DEF DagSpec, RefusalChangesNothing

\* A checked update that raises has a reason: the graph was invalid before, or
\* would be after, although the verdict may come from an earlier check and only
\* one closure is looked at.
LEMMA RefusedForReason ==
  ASSUME DagInv, NEW v \in Vertex, NEW P \in SUBSET Vertex,
         UpdateVertex(v, P, TRUE), outcome' = "DAGError", Valid
  PROVE  ~ValidGraph(vertex_data \cup {v}, [predecessors EXCEPT ![v] = @ \cup P])
<1> DEFINE h == [predecessors EXCEPT ![v] = @ \cup P]
<1>1. predecessors \in Edges /\ vertex_data \in SUBSET Vertex
  BY DEF DagInv, GraphTypeOK
<1>2. h \in Edges /\ P \subseteq h[v]
  BY <1>1 DEF Edges
<1> HIDE DEF h
<1>3. CASE UpdateRefused(v, P)
  <2>1. PICK c \in Checked(vertex_data, predecessors, Caches) :
          c.has_cycle = "yes" \/ ~(P \subseteq vertex_data)
    BY <1>3 DEF UpdateRefused, Raises
  <2>2. c.has_cycle # "yes"
    BY CheckedRight DEF DagInv, Caches, CachesRight, Valid
  <2>3. PICK x \in P : x \notin vertex_data
    BY <2>1, <2>2
  <2>4. CASE x = v
    <3>1. h[v] \cap {v} # {}
      BY <1>2, <2>3, <2>4
    <3>2. ~AcyclicOn(h, vertex_data \cup {v})
      BY <3>1 DEF AcyclicOn
    <3>3. QED
      BY <3>2 DEF ValidGraph, h
  <2>5. CASE x # v
    <3>1. ~Closed(vertex_data \cup {v}, h)
      BY <1>2, <2>3, <2>5 DEF Closed
    <3>2. QED
      BY <3>1 DEF ValidGraph, h
  <2>6. QED
    BY <2>4, <2>5
<1>4. CASE UpdateMakesCycle(v, P)
  <2>1. v \in vertex_data /\ v \in Ancestors(h, v)
    BY <1>4 DEF UpdateMakesCycle, ClosureWith, h
  <2>2. SUFFICES ASSUME Closed(vertex_data, h) PROVE ~AcyclicOn(h, vertex_data)
    <3>1. vertex_data \cup {v} = vertex_data
      BY <2>1
    <3>2. QED
      BY <2>2, <3>1 DEF ValidGraph, h
  <2>3. QED
    BY <1>1, <1>2, <2>1, <2>2, AncestorCycle
<1>5. QED
  BY <1>3, <1>4 DEF UpdateVertex, UpdateAdds, UpdateExtends

\* A checked update is refused for a reason.
THEOREM NoFalseRefusalHolds ==
  ASSUME ReverseOpen = FALSE
  PROVE  DagSpec => NoFalseRefusal
<1>1. DagInv => \A v \in Vertex, P \in SUBSET Vertex :
        UpdateVertex(v, P, TRUE) /\ outcome' = "DAGError" =>
          \/ ~Valid
          \/ ~ValidGraph(vertex_data \cup {v}, [predecessors EXCEPT ![v] = @ \cup P])
  BY RefusedForReason
<1>2. QED
  BY <1>1, DagInvHolds, PTL DEF DagSpec, NoFalseRefusal

\* An update that is refused changes nothing, and is refused for a reason.
THEOREM RefusalsRightHolds ==
  ASSUME ReverseOpen = FALSE
  PROVE  DagSpec => RefusalsRight
BY RefusalChangesNothingHolds, NoFalseRefusalHolds, PTL DEF RefusalsRight

----------------------------------------------------------------------------
(* Levels of a graph.                                                      *)

\* A non-empty set of naturals has a smallest member.
LEMMA SmallestOf ==
  ASSUME NEW T \in SUBSET Nat, T # {}
  PROVE  \E n \in T : \A m \in T : n <= m
<1> DEFINE Family == {0..n : n \in T}
<1>1. Family \subseteq FiniteSubsetsOf(Nat) /\ Family # {}
  <2>1. \A n \in T : 0..n \in SUBSET Nat /\ IsFiniteSet(0..n) BY FS_Interval
  <2>2. QED BY <2>1 DEF FiniteSubsetsOf
<1>2. \E A \in Family : \A B \in Family : <<B, A>> \notin StrictSubsetOrdering(Nat)
  <2> HIDE DEF Family
  <2>1. IsWellFoundedOn(StrictSubsetOrdering(Nat), FiniteSubsetsOf(Nat))
    BY FS_StrictSubsetOrderingWellFounded
  <2>2. QED BY <1>1, <2>1, WFMin
<1>3. PICK n \in T : \A m \in T : <<0..m, 0..n>> \notin StrictSubsetOrdering(Nat)
  BY <1>2
<1>4. ASSUME NEW m \in T, m < n PROVE FALSE
  <2>1. 0..m \subseteq 0..n /\ n \in 0..n /\ n \notin 0..m BY <1>4
  <2>2. <<0..m, 0..n>> \in StrictSubsetOrdering(Nat) BY <2>1 DEF StrictSubsetOrdering
  <2>3. QED BY <1>3, <2>2
<1>5. \A m \in T : n <= m BY <1>4
<1>6. QED BY <1>5

N == Cardinality(Vertex)

LEMMA NType == N \in Nat
BY VertexAssumption, FS_CardinalityType DEF N

\* The recursive definition of Reached determines it.
LEMMA ReachedDef ==
  ASSUME NEW g, NEW stops, NEW v
  PROVE  Reached(g, stops, v) =
           [d \in 0..N |-> IF d = 0 THEN {v}
                           ELSE UNION {g[u] : u \in Reached(g, stops, v)[d - 1] \ stops}]
<1> DEFINE Onto(S) == UNION {g[u] : u \in S \ stops}
           IsLevels(f, n) == f = [d \in 0..n |-> IF d = 0 THEN {v} ELSE Onto(f[d - 1])]
           Bad == {n \in Nat : ~ \E f : IsLevels(f, n)}
<1>1. Bad = {}
  <2> SUFFICES ASSUME Bad # {} PROVE FALSE OBVIOUS
  <2>1. PICK n \in Bad : \A m \in Bad : n <= m BY SmallestOf
  <2>2. CASE n = 0
    <3> DEFINE f == [d \in 0..0 |-> {v}]
    <3>1. IsLevels(f, 0) OBVIOUS
    <3>2. QED BY <2>1, <2>2, <3>1
  <2>3. CASE n # 0
    <3>1. n - 1 \in Nat /\ n - 1 \notin Bad
      <4> HIDE DEF Bad
      <4>1. n \in Nat BY <2>1 DEF Bad
      <4>2. QED BY <4>1, <2>1, <2>3
    <3>2. PICK f : IsLevels(f, n - 1) BY <3>1
    <3> DEFINE h == [d \in 0..n |-> IF d = n THEN Onto(f[n - 1]) ELSE f[d]]
    <3> HIDE DEF Onto
    <3>3. ASSUME NEW d \in 0..n PROVE h[d] = IF d = 0 THEN {v} ELSE Onto(h[d - 1])
      <4>1. CASE d = n BY <2>3, <3>1, <4>1
      <4>2. CASE d # n
        <5>1. d \in 0..(n - 1) /\ h[d] = f[d] BY <4>2
        <5>2. f[d] = IF d = 0 THEN {v} ELSE Onto(f[d - 1]) BY <3>2, <5>1
        <5>3. d # 0 => d - 1 \in 0..n /\ d - 1 # n /\ h[d - 1] = f[d - 1] BY <5>1
        <5>4. QED BY <5>1, <5>2, <5>3
      <4>3. QED BY <4>1, <4>2
    <3>4. IsLevels(h, n) BY <3>3
    <3>5. QED BY <2>1, <3>4
  <2>4. QED BY <2>2, <2>3
<1>2. \E f : IsLevels(f, N) BY <1>1, NType
<1>3. Reached(g, stops, v) = CHOOSE f : IsLevels(f, N) BY DEF Reached, N
<1>4. IsLevels(Reached(g, stops, v), N)
  <2> HIDE DEF IsLevels
  <2>1. QED BY <1>2, <1>3
<1>5. QED BY <1>4

AnyGraph == [Vertex -> SUBSET Vertex]

LEMMA ReachedStep ==
  ASSUME NEW g \in AnyGraph, NEW stops, NEW v \in Vertex
  PROVE  LET at == Reached(g, stops, v)
         IN  /\ at[0] = {v}
             /\ \A d \in 1..N : at[d] = UNION {g[u] : u \in at[d - 1] \ stops}
             /\ \A d \in 0..N : at[d] \subseteq Vertex
<1> DEFINE at == Reached(g, stops, v)
<1>0. at = [d \in 0..N |-> IF d = 0 THEN {v} ELSE UNION {g[u] : u \in at[d - 1] \ stops}]
  BY ReachedDef
<1> HIDE DEF at
<1>1. \A d \in 0..N : at[d] = IF d = 0 THEN {v} ELSE UNION {g[u] : u \in at[d - 1] \ stops}
  BY <1>0, Zenon
<1>2. at[0] = {v}
  <2>1. 0 \in 0..N BY NType
  <2>2. QED BY <1>1, <2>1, Zenon
<1>3. ASSUME NEW d \in 1..N PROVE at[d] = UNION {g[u] : u \in at[d - 1] \ stops}
  <2>1. d \in 0..N /\ d # 0 BY NType
  <2>2. QED BY <1>1, <2>1, Zenon
<1>4. {d \in 0..N : ~(at[d] \subseteq Vertex)} = {}
  <2> DEFINE Bad == {d \in 0..N : ~(at[d] \subseteq Vertex)}
  <2> SUFFICES ASSUME Bad # {} PROVE FALSE OBVIOUS
  <2>0. Bad \in SUBSET Nat BY NType
  <2>1. PICK d \in Bad : \A e \in Bad : d <= e
    <3> HIDE DEF Bad
    <3>1. QED BY <2>0, SmallestOf
  <2>2. d # 0 BY <1>2, <2>1
  <2>3. d \in 1..N /\ d - 1 \in 0..N /\ d - 1 \notin Bad BY <2>1, <2>2, NType
  <2>4. at[d - 1] \subseteq Vertex BY <2>3
  <2>5. at[d] \subseteq Vertex BY <1>3, <2>3, <2>4 DEF AnyGraph
  <2>6. QED BY <2>1, <2>5
<1>5. QED BY <1>2, <1>3, <1>4 DEF at

\* d is the length of a shortest path that leads to u.
First(at, u, d) == u \in at[d] /\ \A e \in 0..(d - 1) : u \notin at[e]

LEMMA FirstThere ==
  ASSUME NEW at, NEW e \in 0..N, NEW u \in at[e]
  PROVE  \E d \in 0..e : First(at, u, d)
<1> DEFINE T == {d \in 0..e : u \in at[d]}
<1>1. PICK d \in T : \A m \in T : d <= m
  <2>1. e \in T /\ T \in SUBSET Nat BY NType
  <2>2. QED BY <2>1, SmallestOf
<1>2. \A m \in 0..(d - 1) : m \notin T BY <1>1, NType
<1>3. QED BY <1>1, <1>2, NType DEF First

\* No path needs to go through all the vertices to reach one: at each of the
\* distances up to the first one a vertex is met for the first time.
LEMMA FirstBounded ==
  ASSUME NEW g \in AnyGraph, NEW stops, NEW v \in Vertex, NEW e \in 0..N,
         NEW u \in Reached(g, stops, v)[e], First(Reached(g, stops, v), u, e)
  PROVE  e + 1 <= N
<1> DEFINE at == Reached(g, stops, v)
           Met(d) == {w \in Vertex : First(at, w, d)}
<1>0. /\ at[0] = {v}
      /\ \A d \in 1..N : at[d] = UNION {g[w] : w \in at[d - 1] \ stops}
      /\ \A d \in 0..N : at[d] \subseteq Vertex
  BY ReachedStep
<1> HIDE DEF at
<1>1. \A d \in 0..e : Met(d) # {}
  <2> DEFINE Bad == {k \in 0..e : Met(e - k) = {}}
  <2> SUFFICES ASSUME NEW d \in 0..e, Met(d) = {} PROVE FALSE OBVIOUS
  <2>1. e - d \in Bad /\ Bad \in SUBSET Nat BY NType
  <2>2. PICK k \in Bad : \A m \in Bad : k <= m BY <2>1, SmallestOf
  <2>3. k # 0
    <3>1. u \in Met(e - 0) BY <1>0 DEF at
    <3>2. QED BY <2>2, <3>1
  <2> DEFINE c == e - k + 1
  <2>4. k - 1 \in 0..e /\ k - 1 \notin Bad /\ c \in 1..e
    <3> HIDE DEF Bad
    <3>1. k \in 0..e BY <2>2 DEF Bad
    <3>2. QED BY <3>1, <2>2, <2>3, NType
  <2>5. Met(c) # {}
    <3>1. e - (k - 1) = c BY <2>2, NType
    <3>2. QED BY <2>4, <3>1
  <2>6. PICK w \in Vertex : First(at, w, c) BY <2>5
  <2>7. PICK x \in at[c - 1] \ stops : w \in g[x]
    BY <1>0, <2>4, <2>6, NType DEF First
  <2>8. First(at, x, c - 1)
    <3>1. ASSUME NEW i \in 0..(c - 2), x \in at[i] PROVE FALSE
      <4>1. i + 1 \in 1..N /\ i + 1 \in 0..(c - 1) BY <2>4, NType
      <4>2. w \in at[i + 1] BY <1>0, <2>7, <3>1, <4>1
      <4>3. QED BY <2>6, <4>1, <4>2 DEF First
    <3>2. QED BY <2>7, <3>1, <2>4, NType DEF First
  <2>9. x \in Vertex BY <1>0, <2>4, <2>7, NType
  <2>10. c - 1 = e - k BY <2>2, NType
  <2>11. QED BY <2>2, <2>8, <2>9, <2>10
<1>2. \A d, c \in 0..e : d # c => Met(d) \cap Met(c) = {}
  <2> SUFFICES ASSUME NEW d \in 0..e, NEW c \in 0..e, d < c, NEW w \in Met(d) \cap Met(c)
               PROVE  FALSE
    BY NType
  <2>1. w \in at[d] /\ w \notin at[d] BY NType DEF First
  <2>2. QED BY <2>1
<1> DEFINE f == [d \in 0..e |-> CHOOSE w \in Met(d) : TRUE]
<1>3. \A d \in 0..e : f[d] \in Met(d)
  <2> HIDE DEF Met
  <2>1. QED BY <1>1
<1> HIDE DEF f
<1>4. f \in [0..e -> Vertex] /\ \A d, c \in 0..e : f[d] = f[c] => d = c
  <2>1. \A d, c \in 0..e : f[d] = f[c] => d = c
    <3> HIDE DEF Met
    <3>1. QED BY <1>2, <1>3
  <2>2. \A d \in 0..e : f[d] \in Vertex BY <1>3
  <2>3. QED BY <2>1, <2>2 DEF f
<1>5. f \in Injection(0..e, Vertex) BY <1>4 DEF Injection, IsInjective
<1>6. Cardinality(0..e) <= N BY <1>5, VertexAssumption, FS_Injection DEF N
<1>7. Cardinality(0..e) = e + 1 BY FS_Interval, NType
<1>8. QED BY <1>6, <1>7

\* What is reached and not a stop leads to nothing that is not reached.
LEMMA LevelsClosed ==
  ASSUME NEW g \in AnyGraph, NEW stops, NEW v \in Vertex, NEW d \in 0..N,
         NEW u \in Reached(g, stops, v)[d] \ stops, NEW w \in g[u]
  PROVE  \E e \in 0..(N - 1) : /\ u \in Reached(g, stops, v)[e]
                               /\ e + 1 \in 1..N /\ w \in Reached(g, stops, v)[e + 1]
<1> DEFINE at == Reached(g, stops, v)
<1>1. \A c \in 1..N : at[c] = UNION {g[x] : x \in at[c - 1] \ stops} BY ReachedStep
<1>2. PICK e \in 0..d : First(at, u, e) BY FirstThere
<1>3. u \in at[e] /\ e \in 0..N BY <1>2, NType DEF First
<1>4. e + 1 <= N BY <1>2, <1>3, FirstBounded
<1> HIDE DEF at
<1>5. e + 1 \in 1..N /\ (e + 1) - 1 = e BY <1>3, <1>4, NType
<1>6. w \in at[e + 1] BY <1>1, <1>3, <1>5
<1>7. QED BY <1>3, <1>4, <1>5, <1>6, NType DEF at

\* What is reached by one edge or more is in every set that is closed.
LEMMA LevelsLeast ==
  ASSUME NEW g \in AnyGraph, NEW stops, NEW v \in Vertex, NEW S,
         v \notin stops => g[v] \subseteq S,
         \A u \in (S \cap Vertex) \ stops : g[u] \subseteq S
  PROVE  \A d \in 1..N : Reached(g, stops, v)[d] \subseteq S
<1> DEFINE at == Reached(g, stops, v)
<1>1. /\ at[0] = {v}
      /\ \A d \in 1..N : at[d] = UNION {g[u] : u \in at[d - 1] \ stops}
      /\ \A d \in 0..N : at[d] \subseteq Vertex
  BY ReachedStep
<1> HIDE DEF at
<1> DEFINE Bad == {d \in 1..N : ~(at[d] \subseteq S)}
<1> SUFFICES ASSUME Bad # {} PROVE FALSE BY DEF at
<1>2. Bad \in SUBSET Nat BY NType
<1>3. PICK d \in Bad : \A e \in Bad : d <= e
  <2> HIDE DEF Bad
  <2>1. QED BY <1>2, SmallestOf
<1>4. d \in 1..N /\ ~(at[d] \subseteq S) BY <1>3
<1>5. CASE d = 1 BY <1>1, <1>4, <1>5
<1>6. CASE d # 1
  <2>1. d - 1 \in 1..N /\ d - 1 \in 0..N BY <1>4, <1>6, NType
  <2>2. d - 1 \notin Bad
    <3> HIDE DEF Bad
    <3>1. QED BY <1>3, <1>4, <2>1, NType
  <2>3. at[d - 1] \subseteq S /\ at[d - 1] \subseteq Vertex BY <1>1, <2>1, <2>2
  <2>4. QED BY <1>1, <1>4, <2>3
<1>7. QED BY <1>5, <1>6

\* The stops seen are those reached, at whatever distance.
LEMMA NearestSeen ==
  ASSUME NEW g \in AnyGraph, NEW stops, NEW v \in Vertex
  PROVE  {du[2] : du \in Nearest(g, stops, v)}
           = {u \in stops : \E d \in 0..N : u \in Reached(g, stops, v)[d]}
<1> DEFINE at == Reached(g, stops, v)
<1>1. Nearest(g, stops, v) = {du \in (0..N) \X stops : First(at, du[2], du[1])}
  BY DEF Nearest, First, N
<1> HIDE DEF at
<1>2. ASSUME NEW u \in stops, NEW d \in 0..N, u \in at[d]
      PROVE  u \in {du[2] : du \in Nearest(g, stops, v)}
  <2>1. PICK e \in 0..d : First(at, u, e) BY <1>2, FirstThere
  <2>2. e \in 0..N BY NType
  <2>3. <<e, u>> \in Nearest(g, stops, v) BY <1>1, <2>1, <2>2
  <2>4. QED BY <2>3
<1>3. ASSUME NEW du \in Nearest(g, stops, v)
      PROVE  du[2] \in stops /\ \E d \in 0..N : du[2] \in at[d]
  BY <1>1 DEF First
<1>4. QED BY <1>2, <1>3 DEF at

----------------------------------------------------------------------------
(* prune.                                                                  *)

IsVisited(w) == states[w] = VISITED

\* What stands for w where it was a predecessor.
Replaced(w) ==
  IF w \in unwanted THEN /\ pruned_node_predecessors[w] = NewPredecessors(w)
                         /\ ~(w \in tagged /\ preserve_context)
  ELSE /\ w \in kept /\ pruned_node_predecessors[w] = {w}
       /\ result[w] = NewPredecessors(w)

PruneTypeOK ==
  /\ unwanted \in SUBSET Vertex /\ tagged \in SUBSET Vertex
  /\ pruned_node_predecessors \in AnyGraph /\ result \in AnyGraph
  /\ failed \in BOOLEAN
  /\ Acyclic(dag)

\* The kept vertices were returned, and so have all their predecessors.
KeptOK == \A w \in kept : w \in Vertex \ unwanted /\ IsVisited(w)

NoneBusy == \A w \in Vertex : states[w] # BUSY

PruneInv ==
  method = "prune" =>
    /\ PruneTypeOK /\ KeptOK /\ NoneBusy
    /\ ~failed => \A w \in Vertex : IsVisited(w) => Replaced(w)
    /\ WaysKept

LEMMA NewPredecessorsType ==
  ASSUME IterTypeOK, pruned_node_predecessors \in AnyGraph, NEW w \in Vertex
  PROVE  NewPredecessors(w) \subseteq Vertex
BY DEF NewPredecessors, IterTypeOK, AnyGraph

\* What is put in the place of the predecessors of v: the kept vertices it is
\* connected to over unwanted ones.
LEMMA NewPredecessorsRight ==
  ASSUME IterTypeOK, TopologicalOrder, PruneTypeOK,
         \A w \in Vertex : IsVisited(w) => Replaced(w),
         NEW v \in Vertex \ unwanted, \A p \in dag[v] : IsVisited(p)
  PROVE  NewPredecessors(v)
           = {p \in Vertex \ unwanted :
                \E d \in 1..N : p \in Reached(dag, Vertex \ (unwanted \cup {v}), v)[d]}
<1> DEFINE stops == Vertex \ (unwanted \cup {v})
           at == Reached(dag, stops, v)
           pnp == pruned_node_predecessors
           Thru(w) == NewPredecessors(w)
           S == {u \in Vertex : IsVisited(u) /\ pnp[u] \subseteq Thru(v)}
<1>1. dag \in AnyGraph /\ pnp \in AnyGraph BY DEF IterTypeOK, PruneTypeOK, AnyGraph
<1>2. \A u \in Vertex : \A k \in dag[u] : k \in Vertex /\ pnp[k] \subseteq Thru(u)
  BY <1>1 DEF NewPredecessors, AnyGraph
<1>3. \A u \in Vertex : IsVisited(u) => \A k \in dag[u] : IsVisited(k)
  BY DEF IsVisited, TopologicalOrder, VISITED, NOT_VISITED
<1>4. \A d \in 1..N : at[d] \subseteq S
  <2>1. dag[v] \subseteq S BY <1>2
  <2>2. ASSUME NEW u \in S \ stops PROVE dag[u] \subseteq S
    <3>1. CASE u = v BY <2>1, <3>1
    <3>2. CASE u # v
      <4>1. u \in unwanted /\ pnp[u] = Thru(u) BY <2>2, <3>2 DEF Replaced
      <4>2. QED BY <4>1, <1>2, <1>3
    <3>3. QED BY <3>1, <3>2
  <2> HIDE DEF S, stops
  <2>3. QED BY <1>1, <2>1, <2>2, LevelsLeast
<1>5. ASSUME NEW p \in Vertex \ unwanted, NEW d \in 1..N, p \in at[d] PROVE p \in Thru(v)
  BY <1>4, <1>5 DEF Replaced
<1>6. ASSUME NEW p \in Thru(v)
      PROVE  p \in Vertex \ unwanted /\ \E d \in 1..N : p \in at[d]
  <2> DEFINE T == {u \in Vertex : /\ p \in Thru(u) /\ u \notin stops
                                  /\ \E d \in 0..N : u \in at[d]}
  <2>1. v \in T
    <3>1. at[0] = {v} BY <1>1, ReachedStep
    <3>2. 0 \in 0..N BY NType
    <3> HIDE DEF at
    <3>3. QED BY <1>6, <3>1, <3>2
  <2>2. PICK u \in T : dag[u] \cap T = {} BY <2>1 DEF PruneTypeOK, Acyclic, AcyclicOn
  <2>3. PICK k \in dag[u] : p \in pnp[k] BY <2>2 DEF NewPredecessors
  <2>4. PICK d \in 0..N : u \in at[d] BY <2>2
  <2>5. PICK e \in 0..(N - 1) : e + 1 \in 1..N /\ k \in at[e + 1]
    <3> HIDE DEF stops
    <3>1. u \notin stops BY <2>2
    <3>2. QED BY <1>1, <2>3, <2>4, <3>1, LevelsClosed
  <2>6. k \in Vertex /\ Replaced(k) BY <1>4, <2>5
  <2>7. CASE k \notin unwanted BY <2>3, <2>5, <2>6, <2>7 DEF Replaced
  <2>8. CASE k \in unwanted
    <3>1. p \in Thru(k) /\ k \notin stops BY <2>3, <2>6, <2>8 DEF Replaced
    <3>2. e + 1 \in 0..N BY <2>5, NType
    <3>3. k \in T BY <3>1, <3>2, <2>5, <2>6
    <3>4. QED BY <2>2, <2>3, <3>3
  <2>9. QED BY <2>7, <2>8
<1> HIDE DEF at
<1>7. QED BY <1>5, <1>6 DEF at

LEMMA PruneInitInv == QueriesInit => PruneInv
<1> SUFFICES ASSUME QueriesInit, method = "prune" PROVE PruneInv
  BY DEF PruneInv
<1>1. /\ unwanted \in SUBSET Vertex /\ tagged \in SUBSET Vertex /\ failed = FALSE
      /\ pruned_node_predecessors = NoEdge /\ result = NoEdge /\ kept = {}
      /\ dag \in GraphsOf["prune"] /\ states = [v \in Vertex |-> NOT_VISITED]
  BY DEF QueriesInit, QueryInit, PruneInit, IterInit
<1>2. Acyclic(dag) BY <1>1, GraphsOfAssumption DEF Method
<1>3. PruneTypeOK BY <1>1, <1>2 DEF PruneTypeOK, NoEdge, AnyGraph
<1>4. \A w \in Vertex : ~IsVisited(w) BY <1>1 DEF IsVisited, VISITED, NOT_VISITED
<1>5. NoneBusy BY <1>1, StatesDiffer DEF NoneBusy
<1>6. QED BY <1>1, <1>3, <1>4, <1>5 DEF PruneInv, KeptOK, WaysKept

LEMMA PruneStep ==
  ASSUME IterInv, PruneInv, PruneNext
  PROVE  PruneInv'
<1>1. /\ method = "prune" /\ ~failed /\ method' = method /\ tagged' = tagged
      /\ unwanted' = unwanted /\ preserve_context' = preserve_context /\ dag' = dag
  BY DEF PruneNext, Prune, Refuse, Keep, pruneCall, NextVisited
<1>2. PICK node \in Vertex : NextVisited(node) /\ (Prune(node) \/ Refuse(node) \/ Keep(node))
  BY DEF PruneNext, Prune, Refuse, Keep
<1>3. /\ IterTypeOK /\ TopologicalOrder /\ PruneTypeOK /\ KeptOK /\ WaysKept
      /\ \A w \in Vertex : IsVisited(w) => Replaced(w)
  BY <1>1 DEF IterInv, PruneInv
<1>4. states[node] = NOT_VISITED /\ ~IsVisited(node) /\ \A p \in dag[node] : IsVisited(p)
  BY <1>2, ReadyMeansVisited
  DEF IterInv, NextVisited, Ready, NonVisitedExact, IsVisited, VISITED, NOT_VISITED
<1>5. \A w \in Vertex : IsVisited(w)' <=> IsVisited(w) \/ w = node
  BY <1>2, <1>3, StatesDiffer DEF NextVisited, MarkVisited, IsVisited, IterTypeOK
<1>6. \A w \in Vertex : IsVisited(w) => node \notin dag[w]
  BY <1>3, <1>4, StatesDiffer DEF TopologicalOrder, IsVisited
<1> DEFINE Thru(w) == NewPredecessors(w)
<1>0. NoneBusy'
  BY <1>1, <1>2, <1>3, StatesDiffer
  DEF PruneInv, NoneBusy, NextVisited, MarkVisited, IterTypeOK
<1>7. dag \in AnyGraph /\ pruned_node_predecessors \in AnyGraph /\ result \in AnyGraph
  BY <1>3 DEF IterTypeOK, PruneTypeOK, AnyGraph
<1>8. Thru(node) \in SUBSET Vertex BY <1>3, <1>7, NewPredecessorsType
<1>9. ASSUME \A w \in Vertex \ {node} :
                pruned_node_predecessors'[w] = pruned_node_predecessors[w],
             NEW w \in Vertex, IsVisited(w) \/ w = node
      PROVE  Thru(w)' = Thru(w)
  <2>1. node \notin dag[w] BY <1>4, <1>6, <1>9
  <2>2. \A k \in dag[w] : pruned_node_predecessors'[k] = pruned_node_predecessors[k]
    BY <1>7, <1>9, <2>1 DEF AnyGraph
  <2>3. QED BY <1>1, <2>2 DEF NewPredecessors
<1> HIDE DEF Thru
<1>10. CASE Refuse(node)
  <2>1. failed' = TRUE /\ UNCHANGED <<pruned_node_predecessors, kept, result>>
    BY <1>10 DEF Refuse
  <2>2. PruneTypeOK' BY <1>1, <1>3, <2>1 DEF PruneTypeOK
  <2>3. KeptOK' BY <1>1, <1>3, <1>5, <2>1 DEF KeptOK
  <2>4. WaysKept' BY <1>1, <1>3, <2>1 DEF WaysKept
  <2>5. QED BY <1>0, <2>1, <2>2, <2>3, <2>4 DEF PruneInv
<1>11. CASE Prune(node)
  <2>1. /\ pruned_node_predecessors' =
             [pruned_node_predecessors EXCEPT ![node] = NewPredecessors(node)]
        /\ UNCHANGED <<kept, result, failed>>
        /\ node \in unwanted /\ ~(node \in tagged /\ preserve_context)
    BY <1>11 DEF Prune
  <2>2. PruneTypeOK' BY <1>1, <1>3, <1>7, <1>8, <2>1 DEF PruneTypeOK, AnyGraph, Thru
  <2>3. KeptOK' BY <1>1, <1>3, <1>5, <2>1 DEF KeptOK
  <2>4. WaysKept' BY <1>1, <1>3, <2>1 DEF WaysKept
  <2>5. ASSUME NEW w \in Vertex, IsVisited(w)' PROVE Replaced(w)'
    <3>1. Thru(w)' = Thru(w) BY <1>5, <1>7, <1>9, <2>1, <2>5 DEF AnyGraph
    <3>2. CASE w = node
      BY <1>1, <1>7, <2>1, <3>1, <3>2 DEF Replaced, Thru, AnyGraph
    <3>3. CASE w # node
      <4>1. Replaced(w) BY <1>3, <1>5, <2>5, <3>3
      <4>2. pruned_node_predecessors'[w] = pruned_node_predecessors[w]
        BY <1>7, <2>1, <3>3 DEF AnyGraph
      <4>3. QED BY <1>1, <2>1, <3>1, <4>1, <4>2 DEF Replaced, Thru
    <3>4. QED BY <3>2, <3>3
  <2>6. QED BY <1>0, <2>2, <2>3, <2>4, <2>5 DEF PruneInv
<1>12. CASE Keep(node)
  <2>1. /\ pruned_node_predecessors' = [pruned_node_predecessors EXCEPT ![node] = {node}]
        /\ kept' = kept \cup {node}
        /\ result' = [result EXCEPT ![node] = NewPredecessors(node)]
        /\ failed' = failed /\ node \notin unwanted
    BY <1>12 DEF Keep
  <2>2. PruneTypeOK' BY <1>1, <1>3, <1>7, <1>8, <2>1 DEF PruneTypeOK, AnyGraph, Thru
  <2>3. KeptOK' BY <1>1, <1>3, <1>5, <2>1 DEF KeptOK
  <2>4. ASSUME NEW w \in Vertex, IsVisited(w)' PROVE Replaced(w)'
    <3>1. Thru(w)' = Thru(w) BY <1>5, <1>7, <1>9, <2>1, <2>4 DEF AnyGraph
    <3>2. CASE w = node
      BY <1>1, <1>7, <2>1, <3>1, <3>2 DEF Replaced, Thru, AnyGraph
    <3>3. CASE w # node
      <4>1. Replaced(w) BY <1>3, <1>5, <2>4, <3>3
      <4>2. pruned_node_predecessors'[w] = pruned_node_predecessors[w] /\ result'[w] = result[w]
        BY <1>7, <2>1, <3>3 DEF AnyGraph
      <4>3. QED BY <1>1, <2>1, <3>1, <4>1, <4>2 DEF Replaced, Thru
    <3>4. QED BY <3>2, <3>3
  <2>5. NewPredecessors(node)
          = {p \in Vertex \ unwanted :
               \E d \in 1..N : p \in Reached(dag, Vertex \ (unwanted \cup {node}), node)[d]}
    BY <1>3, <1>4, <2>1, NewPredecessorsRight
  <2>6. ASSUME NEW v \in kept'
        PROVE  result'[v] = {p \in Vertex \ unwanted :
                 \E d \in 1..N : p \in Reached(dag, Vertex \ (unwanted \cup {v}), v)[d]}
    <3>1. CASE v = node BY <1>7, <2>1, <2>5, <3>1 DEF AnyGraph
    <3>2. CASE v # node
      <4>1. v \in kept /\ result'[v] = result[v] BY <1>7, <2>1, <3>2 DEF AnyGraph
      <4>2. QED BY <1>1, <1>3, <4>1 DEF WaysKept, N
    <3>3. QED BY <3>1, <3>2
  <2>7. WaysKept' BY <1>1, <2>6 DEF WaysKept, N
  <2>8. QED BY <1>0, <2>2, <2>3, <2>4, <2>7 DEF PruneInv
<1>13. QED BY <1>2, <1>10, <1>11, <1>12

LEMMA LeastWithStart ==
  ASSUME NEW g \in AnyGraph, NEW stops, NEW v \in Vertex, NEW S, v \in S,
         \A u \in (S \cap Vertex) \ stops : g[u] \subseteq S
  PROVE  \A d \in 0..N : Reached(g, stops, v)[d] \subseteq S
<1>1. \A d \in 1..N : Reached(g, stops, v)[d] \subseteq S BY LevelsLeast
<1>2. Reached(g, stops, v)[0] = {v} BY ReachedStep
<1>3. \A d \in 0..N : d = 0 \/ d \in 1..N BY NType
<1>4. QED BY <1>1, <1>2, <1>3

LEMMA TagsSeenSame ==
  ASSUME IterInv, PruneInv, Pruned, preserve_context, NEW v \in kept
  PROVE  TagsSeen(result, v) = TagsSeen(dag, v)
<1> DEFINE pnp == pruned_node_predecessors
           before == Reached(dag, tagged, v)
           after == Reached(result, tagged, v)
           Before == {u \in Vertex : \E d \in 0..N : u \in before[d]}
           After == {u \in Vertex : \E d \in 0..N : u \in after[d]}
<1>1. /\ IterTypeOK /\ PruneTypeOK /\ KeptOK /\ WaysKept /\ NoneBusy /\ method = "prune"
      /\ \A w \in Vertex : IsVisited(w) => Replaced(w)
  BY DEF IterInv, PruneInv, Pruned
<1>2. \A w \in Vertex : Replaced(w)
  <2>1. \A w \in Vertex : states[w] # NOT_VISITED
    BY DEF Pruned, Exhausted, IterInv, NonVisitedExact
  <2>2. \A w \in Vertex : IsVisited(w)
    BY <1>1, <2>1 DEF NoneBusy, IsVisited, IterTypeOK
  <2>3. QED BY <1>1, <2>2
<1>3. \A w \in unwanted : w \notin tagged /\ pnp[w] = NewPredecessors(w)
  BY <1>1, <1>2 DEF Replaced, PruneTypeOK
<1>4. \A w \in Vertex \ unwanted : w \in kept /\ pnp[w] = {w} /\ result[w] = NewPredecessors(w)
  BY <1>2 DEF Replaced
<1>5. dag \in AnyGraph /\ result \in AnyGraph /\ pnp \in AnyGraph
  BY <1>1 DEF IterTypeOK, PruneTypeOK, AnyGraph
<1>6. v \in Vertex \ unwanted BY <1>1 DEF KeptOK
<1>7. /\ \A d \in 0..N : before[d] \subseteq Vertex /\ after[d] \subseteq Vertex
      /\ before[0] = {v} /\ after[0] = {v} /\ 0 \in 0..N
  BY <1>5, <1>6, ReachedStep, NType
<1>8. v \in Before /\ v \in After
  <2> HIDE DEF before, after
  <2>1. QED BY <1>6, <1>7
<1>9. \A u \in Before \ tagged : dag[u] \subseteq Before
  <2> SUFFICES ASSUME NEW u \in Before \ tagged, NEW k \in dag[u] PROVE k \in Before OBVIOUS
  <2>1. PICK d \in 0..N : u \in before[d] OBVIOUS
  <2>2. PICK e \in 0..(N - 1) : e + 1 \in 1..N /\ k \in before[e + 1]
    BY <1>5, <1>6, <2>1, LevelsClosed
  <2>3. e + 1 \in 0..N BY <2>2, NType
  <2>4. k \in Vertex BY <1>7, <2>2, <2>3
  <2>5. QED BY <2>2, <2>3, <2>4
<1>10. \A u \in After \ tagged : result[u] \subseteq After
  <2> SUFFICES ASSUME NEW u \in After \ tagged, NEW k \in result[u] PROVE k \in After OBVIOUS
  <2>1. PICK d \in 0..N : u \in after[d] OBVIOUS
  <2>2. PICK e \in 0..(N - 1) : e + 1 \in 1..N /\ k \in after[e + 1]
    BY <1>5, <1>6, <2>1, LevelsClosed
  <2>3. e + 1 \in 0..N BY <2>2, NType
  <2>4. k \in Vertex BY <1>7, <2>2, <2>3
  <2>5. QED BY <2>2, <2>3, <2>4
<1>11. Before \subseteq {w \in Vertex : pnp[w] \subseteq After}
  <2> DEFINE S == {w \in Vertex : pnp[w] \subseteq After}
  <2>1. v \in S BY <1>4, <1>6, <1>8
  <2>2. ASSUME NEW w \in S \ tagged, NEW k \in dag[w] PROVE k \in S
    <3>1. NewPredecessors(w) \subseteq After
      <4>1. CASE w \in unwanted BY <1>3, <2>2, <4>1
      <4>2. CASE w \notin unwanted
        <5>1. w \in After BY <1>4, <2>2, <4>2
        <5>2. QED BY <1>4, <1>10, <2>2, <4>2, <5>1
      <4>3. QED BY <4>1, <4>2
    <3>2. pnp[k] \subseteq NewPredecessors(w) BY <2>2 DEF NewPredecessors
    <3>3. QED BY <1>5, <2>2, <3>1, <3>2 DEF AnyGraph
  <2> HIDE DEF S
  <2>3. \A d \in 0..N : before[d] \subseteq S
    <3>1. \A u \in (S \cap Vertex) \ tagged : dag[u] \subseteq S BY <2>2
    <3>2. QED BY <1>5, <1>6, <2>1, <3>1, LeastWithStart
  <2> HIDE DEF before
  <2>4. QED BY <2>3 DEF S
<1>12. After \subseteq Before
  <2> DEFINE S == Before \ unwanted
  <2>1. v \in S BY <1>6, <1>8
  <2>2. ASSUME NEW u \in S \ tagged PROVE result[u] \subseteq S
    <3> DEFINE stops == Vertex \ (unwanted \cup {u})
    <3>1. u \in Vertex \ unwanted /\ u \in kept BY <1>4, <2>2
    <3>2. result[u] = {p \in Vertex \ unwanted : \E d \in 1..N : p \in Reached(dag, stops, u)[d]}
      BY <1>1, <3>1 DEF WaysKept, N
    <3>3. dag[u] \subseteq Before BY <1>9, <2>2
    <3>4. \A x \in (Before \cap Vertex) \ stops : dag[x] \subseteq Before
      BY <1>3, <1>9, <2>2
    <3>5. \A d \in 1..N : Reached(dag, stops, u)[d] \subseteq Before
      <4> HIDE DEF Before, stops
      <4>1. QED BY <1>5, <3>1, <3>3, <3>4, LevelsLeast
    <3> HIDE DEF Before
    <3>6. QED BY <3>2, <3>5
  <2> HIDE DEF S
  <2>3. \A d \in 0..N : after[d] \subseteq S
    <3>1. \A u \in (S \cap Vertex) \ tagged : result[u] \subseteq S BY <2>2
    <3>2. QED BY <1>5, <1>6, <2>1, <3>1, LeastWithStart
  <2> HIDE DEF after, Before
  <2>4. QED BY <2>3 DEF S
<1>13. TagsSeen(dag, v) = tagged \cap Before
  <2>1. TagsSeen(dag, v) = {u \in tagged : \E d \in 0..N : u \in before[d]}
    BY <1>5, <1>6, NearestSeen DEF TagsSeen
  <2> HIDE DEF before
  <2>2. QED BY <1>7, <2>1
<1>14. TagsSeen(result, v) = tagged \cap After
  <2>1. TagsSeen(result, v) = {u \in tagged : \E d \in 0..N : u \in after[d]}
    BY <1>5, <1>6, NearestSeen DEF TagsSeen
  <2> HIDE DEF after
  <2>2. QED BY <1>7, <2>1
<1> HIDE DEF Before, After
<1>15. ASSUME NEW t \in tagged, t \in Before PROVE t \in After
  <2>1. t \in Vertex \ unwanted BY <1>1, <1>3 DEF PruneTypeOK
  <2>2. pnp[t] = {t} BY <1>4, <2>1
  <2>3. QED BY <1>11, <1>15, <2>2
<1>16. QED BY <1>12, <1>13, <1>14, <1>15

LEMMA PruneStutter ==
  ASSUME PruneInv, method # "prune" \/ UNCHANGED <<queryVars, pruneVars>>, method' = method
  PROVE  PruneInv'
<1>1. CASE method # "prune" BY <1>1 DEF PruneInv
<1>2. CASE UNCHANGED <<queryVars, pruneVars>>
  <2>1. UNCHANGED <<dag, states, method, tagged, unwanted, preserve_context,
                    pruned_node_predecessors, kept, result, failed>>
    BY <1>2 DEF queryVars, iterVars, pruneVars
  <2>2. \A w : NewPredecessors(w)' = NewPredecessors(w) BY <2>1 DEF NewPredecessors
  <2>3. QED
    BY <2>1, <2>2
    DEF PruneInv, PruneTypeOK, KeptOK, NoneBusy, Replaced, IsVisited, WaysKept
<1>3. QED BY <1>1, <1>2

LEMMA IterInvOfQueries == IterInv /\ [QueriesNext]_vars => IterInv'
<1> SUFFICES ASSUME IterInv, [QueriesNext]_vars PROVE IterInv' OBVIOUS
<1>1. CASE Iterate BY <1>1, NextVisitedInv DEF Iterate, PlainNext
<1>2. CASE SearchNext
  BY <1>2, StutterInv DEF SearchNext, Visit, queryVars
<1>3. CASE ContextNext
  BY <1>3, StutterInv
  DEF ContextNext, DistanceReached, EnoughFound, NextLevel, contextCall, queryVars
<1>4. CASE PruneNext
  BY <1>4, NextVisitedInv DEF PruneNext, Prune, Refuse, Keep
<1>5. CASE UNCHANGED vars BY <1>5, StutterInv DEF vars, queryVars
<1>6. QED BY <1>1, <1>2, <1>3, <1>4, <1>5 DEF QueriesNext

LEMMA PruneInvStep == IterInv /\ PruneInv /\ [QueriesNext]_vars => PruneInv'
<1> SUFFICES ASSUME IterInv, PruneInv, [QueriesNext]_vars PROVE PruneInv' OBVIOUS
<1>1. CASE Iterate BY <1>1, PruneStutter DEF Iterate
<1>2. CASE SearchNext
  BY <1>2, PruneStutter DEF SearchNext, Visit, queryVars
<1>3. CASE ContextNext
  BY <1>3, PruneStutter
  DEF ContextNext, DistanceReached, EnoughFound, NextLevel, contextCall, queryVars
<1>4. CASE PruneNext BY <1>4, PruneStep
<1>5. CASE UNCHANGED vars BY <1>5, PruneStutter DEF vars, queryVars
<1>6. QED BY <1>1, <1>2, <1>3, <1>4, <1>5 DEF QueriesNext

LEMMA QueriesIterInit == QueriesInit => IterInv
<1>1. QueriesInit => IterInit BY DEF QueriesInit, QueryInit
<1>2. QED BY <1>1, IterInitInv

\* Whatever is pruned, and in whatever order the vertices come: the vertices
\* that are kept are connected as they were, and with preserve_context they see
\* the tags they saw (DAG.prune).
THEOREM PruneKeepsViewHolds == QueriesSpec => []PruneKeepsView
<1>1. IterInv /\ PruneInv => PruneKeepsView
  <2> SUFFICES ASSUME IterInv, PruneInv PROVE PruneKeepsView OBVIOUS
  <2>1. WaysKept BY DEF PruneInv, WaysKept
  <2>2. SameTagsSeen BY TagsSeenSame DEF SameTagsSeen
  <2>3. QED BY <2>1, <2>2 DEF PruneKeepsView
<1>2. QED
  BY <1>1, QueriesIterInit, IterInvOfQueries, PruneInitInv, PruneInvStep, PTL DEF QueriesSpec

----------------------------------------------------------------------------
(* get_context.                                                            *)

Levels == Reached(dag, tagged, vertex)

\* The vertices at the distances 1 to n.
UpTo(n) == {u \in Vertex : \E e \in 1..n : u \in Levels[e]}

TagsUpTo(n) == {du \in Nearest(dag, tagged, vertex) : du[1] <= n}

ContextTypeOK ==
  /\ dag \in AnyGraph /\ vertex \in Vertex /\ tagged \subseteq Vertex
  /\ max_distance \in MaxDistances /\ max_element \in MaxElements

\* The search has seen the levels up to the distance, and closure has the next
\* one; there was something new at each of them.
SearchOK ==
  /\ vertex \notin tagged
  /\ distance \in Nat /\ distance + 1 <= N
  /\ distance = 0 \/ Cardinality(closure) >= distance + 1
  /\ visited = UpTo(distance) /\ closure = UpTo(distance + 1)
  /\ tags = TagsUpTo(distance)
  /\ max_distance = NoLimit \/ distance <= max_distance
  /\ max_element = NoLimit \/ Cardinality(tags) < max_element

ContextInv ==
  method = "get_context" =>
    /\ ContextTypeOK /\ over \in BOOLEAN
    /\ ~over => SearchOK
    /\ ContextExact

LEMMA LevelsStep ==
  ASSUME ContextTypeOK
  PROVE  /\ Levels[0] = {vertex}
         /\ \A d \in 1..N : Levels[d] = UNION {dag[u] : u \in Levels[d - 1] \ tagged}
         /\ \A d \in 0..N : Levels[d] \subseteq Vertex
BY ReachedStep DEF ContextTypeOK, Levels

LEMMA NearestDef ==
  Nearest(dag, tagged, vertex)
    = {du \in (0..N) \X tagged : du[2] \in Levels[du[1]]
                                  /\ \A e \in 0..(du[1] - 1) : du[2] \notin Levels[e]}
BY DEF Nearest, Levels, N

LEMMA TagsFinite ==
  ASSUME ContextTypeOK
  PROVE  /\ IsFiniteSet(Nearest(dag, tagged, vertex))
         /\ \A T \in SUBSET Nearest(dag, tagged, vertex) :
              IsFiniteSet(T) /\ Cardinality(T) \in Nat
<1>1. IsFiniteSet(0..N) /\ IsFiniteSet(tagged)
  BY NType, FS_Interval, FS_Subset, VertexAssumption DEF ContextTypeOK
<1>2. IsFiniteSet((0..N) \X tagged) BY <1>1, FS_Product
<1>3. Nearest(dag, tagged, vertex) \subseteq (0..N) \X tagged BY NearestDef
<1>4. QED BY <1>2, <1>3, FS_Subset, FS_CardinalityType

\* The vertex itself has a tag: nothing else is seen.
LEMMA OwnTagOnly ==
  ASSUME ContextTypeOK, vertex \in tagged
  PROVE  Nearest(dag, tagged, vertex) = {<<0, vertex>>}
<1>1. /\ Levels[0] = {vertex}
      /\ \A d \in 1..N : Levels[d] = UNION {dag[u] : u \in Levels[d - 1] \ tagged}
  BY LevelsStep
<1>2. \A d \in 1..N : Levels[d] = {}
  <2> DEFINE Bad == {d \in 1..N : Levels[d] # {}}
  <2> SUFFICES ASSUME Bad # {} PROVE FALSE OBVIOUS
  <2>1. Bad \in SUBSET Nat BY NType
  <2>2. PICK d \in Bad : \A e \in Bad : d <= e
    <3> HIDE DEF Bad
    <3>1. QED BY <2>1, SmallestOf
  <2>3. PICK u \in Levels[d - 1] : u \notin tagged BY <1>1, <2>2
  <2>4. d # 1 BY <1>1, <2>3
  <2>5. d - 1 \in 1..N BY <2>2, <2>4, NType
  <2>6. d - 1 \in Bad BY <2>3, <2>5
  <2>7. d <= d - 1
    <3> HIDE DEF Bad
    <3>1. QED BY <2>2, <2>6
  <2>8. QED BY <2>2, <2>7, NType
<1>3. ASSUME NEW du \in Nearest(dag, tagged, vertex) PROVE du = <<0, vertex>>
  <2>1. du \in (0..N) \X tagged /\ du[2] \in Levels[du[1]] BY NearestDef
  <2>2. du[1] = 0 BY <1>2, <2>1, NType
  <2>3. QED BY <1>1, <2>1, <2>2
<1>4. <<0, vertex>> \in Nearest(dag, tagged, vertex)
  <2>1. <<0, vertex>> \in (0..N) \X tagged BY NType
  <2>2. QED BY <1>1, <2>1, NearestDef
<1>5. QED BY <1>3, <1>4

LEMMA NoTagAtZero ==
  ASSUME ContextTypeOK, vertex \notin tagged
  PROVE  TagsUpTo(0) = {}
<1> SUFFICES ASSUME NEW du \in TagsUpTo(0) PROVE FALSE OBVIOUS
<1>1. du \in (0..N) \X tagged /\ du[2] \in Levels[du[1]] /\ du[1] <= 0
  BY NearestDef DEF TagsUpTo
<1>2. du[1] = 0 BY <1>1, NType
<1>3. QED BY <1>1, <1>2, LevelsStep

LEMMA ContextInitInv == QueriesInit => ContextInv
<1> SUFFICES ASSUME QueriesInit, method = "get_context" PROVE ContextInv
  BY DEF ContextInv
<1>1. /\ vertex \in Vertex /\ max_distance \in MaxDistances /\ max_element \in MaxElements
      /\ closure = dag[vertex] /\ visited = {} /\ distance = 0
      /\ tags = (IF vertex \in tagged THEN {<<0, vertex>>} ELSE {})
      /\ over = (vertex \in tagged)
      /\ tagged \in SUBSET Vertex
  BY DEF QueriesInit, QueryInit, ContextInit
<1>2. dag \in AnyGraph
  BY GraphsAssumption DEF QueriesInit, QueryInit, IterInit, AnyGraph
<1>3. ContextTypeOK BY <1>1, <1>2 DEF ContextTypeOK
<1>4. CASE vertex \in tagged
  <2>1. Nearest(dag, tagged, vertex) = {<<0, vertex>>} BY <1>3, <1>4, OwnTagOnly
  <2>2. max_distance = NoLimit \/ 0 <= max_distance BY <1>1, ContextAssumption
  <2>3. Expected = tags BY <1>1, <1>4, <2>1, <2>2 DEF Expected
  <2>4. ContextExact BY <2>3 DEF ContextExact
  <2>5. QED BY <1>1, <1>3, <1>4, <2>4 DEF ContextInv
<1>5. CASE vertex \notin tagged
  <2>1. N \in Nat /\ N >= 1
    <3>1. {vertex} \subseteq Vertex /\ Cardinality({vertex}) = 1 BY <1>1, FS_Singleton
    <3>2. Cardinality({vertex}) <= N BY <3>1, VertexAssumption, FS_Subset DEF N
    <3>3. QED BY <3>1, <3>2, NType
  <2>2. visited = UpTo(0) BY <1>1 DEF UpTo
  <2>3. closure = UpTo(0 + 1)
    <3>1. 1 \in 1..N BY <2>1
    <3>2. Levels[0] = {vertex} /\ Levels[1] = UNION {dag[u] : u \in Levels[1 - 1] \ tagged}
      BY <1>3, <3>1, LevelsStep
    <3>3. Levels[1] = dag[vertex] BY <1>5, <3>2
    <3>4. 1..(0 + 1) = {1} OBVIOUS
    <3>5. dag[vertex] \subseteq Vertex BY <1>1, <1>2 DEF AnyGraph
    <3>6. QED BY <1>1, <3>3, <3>4, <3>5 DEF UpTo
  <2>4. tags = TagsUpTo(0) BY <1>1, <1>3, <1>5, NoTagAtZero
  <2>5. max_distance = NoLimit \/ 0 <= max_distance BY <1>1, ContextAssumption
  <2>6. max_element = NoLimit \/ Cardinality(tags) < max_element
    BY <1>1, <1>5, ContextAssumption, FS_EmptySet
  <2>7. SearchOK BY <1>1, <1>5, <2>1, <2>2, <2>3, <2>4, <2>5, <2>6 DEF SearchOK
  <2>8. ContextExact BY <1>1, <1>5 DEF ContextExact
  <2>9. QED BY <1>1, <1>3, <2>7, <2>8 DEF ContextInv
<1>6. QED BY <1>4, <1>5

\* The tags of the next level are those found first at its distance.
LEMMA LevelTagsRight ==
  ASSUME ContextTypeOK, SearchOK
  PROVE  /\ \A t \in LevelTags : t[1] = distance + 1
         /\ tags \cap LevelTags = {}
         /\ TagsUpTo(distance + 1) = tags \cup LevelTags
<1>1. /\ Levels[0] = {vertex} /\ vertex \notin tagged /\ distance \in Nat
      /\ visited = UpTo(distance) /\ closure = UpTo(distance + 1)
      /\ tags = TagsUpTo(distance) /\ distance + 1 <= N
  BY LevelsStep DEF SearchOK
<1>2. \A t \in LevelTags : t[1] = distance + 1 BY DEF LevelTags
<1>3. \A t \in tags : t[1] <= distance BY <1>1 DEF TagsUpTo
<1>4. tags \cap LevelTags = {} BY <1>1, <1>2, <1>3
<1>5. ASSUME NEW t \in LevelTags PROVE t \in TagsUpTo(distance + 1)
  <2>1. PICK n \in Level \cap tagged : t = <<distance + 1, n>> BY <1>5 DEF LevelTags
  <2>2. n \in closure /\ n \notin visited /\ n # vertex BY <1>1, <2>1 DEF Level
  <2>3. \A e \in 1..distance : n \notin Levels[e] BY <1>1, <2>2 DEF UpTo
  <2>4. \A e \in 0..distance : n \notin Levels[e] BY <1>1, <2>2, <2>3
  <2>5. n \in Levels[distance + 1]
    <3>1. PICK e \in 1..(distance + 1) : n \in Levels[e] BY <1>1, <2>2 DEF UpTo
    <3>2. e = distance + 1 BY <1>1, <2>3, <3>1
    <3>3. QED BY <3>1, <3>2
  <2>6. t \in (0..N) \X tagged /\ t[1] = distance + 1 /\ t[2] = n BY <1>1, <2>1, NType
  <2>7. 0..((distance + 1) - 1) = 0..distance BY <1>1
  <2>8. t \in Nearest(dag, tagged, vertex) BY <2>4, <2>5, <2>6, <2>7, NearestDef
  <2>9. QED BY <1>1, <2>6, <2>8 DEF TagsUpTo
<1>6. ASSUME NEW t \in TagsUpTo(distance + 1), t \notin tags PROVE t \in LevelTags
  <2>1. /\ t \in (0..N) \X tagged /\ t[2] \in Levels[t[1]] /\ t[1] <= distance + 1
        /\ \A e \in 0..(t[1] - 1) : t[2] \notin Levels[e]
    BY NearestDef DEF TagsUpTo
  <2>2. t[1] = distance + 1
    <3>1. ~(t[1] <= distance) BY <1>1, <1>6 DEF TagsUpTo
    <3>2. QED BY <1>1, <2>1, <3>1, NType
  <2>3. t[2] \in closure /\ t[2] \notin visited
    <3>1. t[2] \in Vertex BY <2>1 DEF ContextTypeOK
    <3>2. distance + 1 \in 1..(distance + 1) BY <1>1
    <3>3. t[2] \in closure BY <1>1, <2>1, <2>2, <3>1, <3>2 DEF UpTo
    <3>4. \A e \in 1..distance : e \in 0..(t[1] - 1) BY <1>1, <2>2
    <3>5. t[2] \notin visited BY <1>1, <2>1, <3>4 DEF UpTo
    <3>6. QED BY <3>3, <3>5
  <2>4. t = <<distance + 1, t[2]>> BY <2>1, <2>2
  <2>5. QED BY <2>1, <2>3, <2>4 DEF LevelTags, Level
<1>7. tags \subseteq TagsUpTo(distance + 1)
  <2>1. \A n \in Nat : n <= distance => n <= distance + 1 BY <1>1
  <2>2. \A t \in Nearest(dag, tagged, vertex) : t[1] \in Nat BY NearestDef, NType
  <2>3. QED BY <1>1, <2>1, <2>2 DEF TagsUpTo
<1>8. QED BY <1>2, <1>4, <1>5, <1>6, <1>7

LEMMA OnwardsRight ==
  ASSUME ContextTypeOK, SearchOK
  PROVE  /\ \A u \in closure \ tagged : dag[u] \subseteq closure \cup Onwards
         /\ closure \cup Onwards \subseteq Vertex
         /\ distance + 2 <= N => closure \cup Onwards = UpTo(distance + 2)
<1> DEFINE D == distance
<1>1. /\ D \in Nat /\ visited = UpTo(D) /\ closure = UpTo(D + 1) /\ D + 1 <= N
      /\ dag \in AnyGraph
  BY DEF SearchOK, ContextTypeOK
<1>2. /\ \A d \in 1..N : Levels[d] = UNION {dag[u] : u \in Levels[d - 1] \ tagged}
      /\ \A d \in 0..N : Levels[d] \subseteq Vertex
  BY LevelsStep
<1> HIDE DEF D
<1>3. ASSUME NEW e \in 1..N, e + 1 \in 1..N, NEW u \in Levels[e] \ tagged
      PROVE  dag[u] \subseteq Levels[e + 1]
  <2>1. (e + 1) - 1 = e BY NType
  <2>2. QED BY <1>2, <1>3, <2>1
<1>4. Level \subseteq Levels[D + 1]
  <2> SUFFICES ASSUME NEW u \in Level PROVE u \in Levels[D + 1] OBVIOUS
  <2>1. PICK e \in 1..(D + 1) : u \in Levels[e] BY <1>1 DEF Level, UpTo
  <2>2. e \notin 1..D BY <1>1, <2>1 DEF Level, UpTo
  <2>3. e = D + 1 BY <1>1, <2>1, <2>2
  <2>4. QED BY <2>1, <2>3
<1>5. ASSUME NEW u \in closure \ tagged PROVE dag[u] \subseteq closure \cup Onwards
  <2>1. CASE u \in visited
    <3>1. PICK e \in 1..D : u \in Levels[e] BY <1>1, <2>1 DEF UpTo
    <3>2. e \in 1..N /\ e + 1 \in 1..N /\ e + 1 \in 1..(D + 1) BY <1>1, <3>1, NType
    <3>3. dag[u] \subseteq Levels[e + 1] BY <1>3, <1>5, <3>1, <3>2
    <3>4. e + 1 \in 0..N BY <3>2, NType
    <3>5. Levels[e + 1] \subseteq UpTo(D + 1) BY <1>2, <3>2, <3>4 DEF UpTo
    <3>6. QED BY <1>1, <3>3, <3>5
  <2>2. CASE u \notin visited BY <1>5, <2>2 DEF Level, Onwards
  <2>3. QED BY <2>1, <2>2
<1>6. closure \cup Onwards \subseteq Vertex
  <2>1. closure \subseteq Vertex BY <1>1 DEF UpTo
  <2>2. QED BY <1>1, <2>1 DEF Onwards, Level, AnyGraph
<1>7. ASSUME D + 2 <= N PROVE closure \cup Onwards = UpTo(D + 2)
  <2>1. D + 1 \in 1..N /\ (D + 1) + 1 \in 1..N /\ (D + 1) + 1 = D + 2 /\ D + 2 \in 1..N
        /\ (D + 2) - 1 = D + 1 /\ D + 2 \in 1..(D + 2) /\ D + 1 \in 1..(D + 1)
        /\ D + 1 \in 0..N
    BY <1>1, <1>7, NType
  <2>2. Onwards \subseteq Levels[D + 2]
    <3>1. \A u \in Level \ tagged : dag[u] \subseteq Levels[D + 2]
      BY <1>3, <1>4, <2>1
    <3>2. QED BY <3>1 DEF Onwards
  <2>3. Levels[D + 1] \subseteq closure BY <1>1, <1>2, <2>1 DEF UpTo
  <2>4. Levels[D + 2] \subseteq closure \cup Onwards
    BY <1>2, <1>5, <2>1, <2>3
  <2>5. closure \subseteq UpTo(D + 2)
    <3>1. 1..(D + 1) \subseteq 1..(D + 2) BY <1>1
    <3>2. QED BY <1>1, <3>1 DEF UpTo
  <2>6. Onwards \subseteq UpTo(D + 2) BY <1>6, <2>1, <2>2 DEF UpTo
  <2>7. ASSUME NEW u \in UpTo(D + 2) PROVE u \in closure \cup Onwards
    <3>1. PICK e \in 1..(D + 2) : u \in Levels[e] BY <2>7 DEF UpTo
    <3>2. CASE e = D + 2 BY <2>4, <3>1, <3>2
    <3>3. CASE e # D + 2
      <4>1. e \in 1..(D + 1) BY <1>1, <3>3
      <4>2. QED BY <1>1, <2>7, <3>1, <4>1 DEF UpTo
    <3>4. QED BY <3>2, <3>3
  <2>8. QED BY <2>5, <2>6, <2>7
<1>8. QED BY <1>5, <1>6, <1>7 DEF D

\* A tag of what is expected that was not found is further than what was seen.
LEMMA OthersFurther ==
  ASSUME ContextTypeOK, NEW n \in Nat, NEW t \in Expected, t \notin TagsUpTo(n)
  PROVE  t[1] \in Nat /\ t[1] >= n + 1
<1>1. t \in Nearest(dag, tagged, vertex) /\ t[1] \in 0..N BY NearestDef DEF Expected
<1>2. ~(t[1] <= n) BY <1>1 DEF TagsUpTo
<1>3. QED BY <1>1, <1>2, NType

\* No tag is further than the search when it leads nowhere new.
LEMMA NothingFurther ==
  ASSUME ContextTypeOK, SearchOK, closure \cup Onwards = closure
  PROVE  Nearest(dag, tagged, vertex) = TagsUpTo(distance + 1)
<1>1. /\ dag \in AnyGraph /\ vertex \in Vertex /\ closure = UpTo(distance + 1)
      /\ vertex \notin tagged /\ distance \in Nat /\ distance + 1 <= N
  BY DEF ContextTypeOK, SearchOK
<1>2. \A u \in (closure \cap Vertex) \ tagged : dag[u] \subseteq closure BY OnwardsRight
<1>3. dag[vertex] \subseteq closure
  <2>1. 1 \in 1..N /\ 1 \in 0..N /\ 1 \in 1..(distance + 1) BY <1>1, NType
  <2>2. Levels[0] = {vertex} /\ Levels[1] = UNION {dag[u] : u \in Levels[1 - 1] \ tagged}
        /\ Levels[1] \subseteq Vertex
    BY <2>1, LevelsStep
  <2>3. Levels[1] = dag[vertex] BY <1>1, <2>2
  <2>4. QED BY <1>1, <2>1, <2>2, <2>3 DEF UpTo
<1>4. \A d \in 1..N : Levels[d] \subseteq closure BY <1>1, <1>2, <1>3, LevelsLeast DEF Levels
<1>5. ASSUME NEW t \in Nearest(dag, tagged, vertex) PROVE t[1] <= distance + 1
  <2>1. /\ t \in (0..N) \X tagged /\ t[2] \in Levels[t[1]]
        /\ \A e \in 0..(t[1] - 1) : t[2] \notin Levels[e]
    BY NearestDef
  <2>2. t[1] # 0 BY <1>1, <2>1, LevelsStep
  <2>3. t[2] \in closure BY <1>4, <2>1, <2>2, NType
  <2>4. PICK e \in 1..(distance + 1) : t[2] \in Levels[e] BY <1>1, <2>3 DEF UpTo
  <2>5. ~(e <= t[1] - 1) BY <2>1, <2>4, <1>1, NType
  <2>6. QED BY <1>1, <2>1, <2>4, <2>5, NType
<1>6. QED BY <1>5 DEF TagsUpTo

SameCall == UNCHANGED <<dag, method, tagged, vertex, max_distance, max_element>>

LEMMA SameLevels ==
  ASSUME SameCall
  PROVE  /\ Levels' = Levels /\ Expected' = Expected
         /\ \A n : UpTo(n)' = UpTo(n) /\ TagsUpTo(n)' = TagsUpTo(n)
         /\ ContextTypeOK => ContextTypeOK'
BY DEF SameCall, Levels, Expected, UpTo, TagsUpTo, ContextTypeOK

LEMMA DistanceReachedStep ==
  ASSUME ContextTypeOK, SearchOK, DistanceReached, SameCall
  PROVE  over' = TRUE /\ ContextExact'
<1>1. over' = TRUE /\ tags' = tags BY DEF DistanceReached
<1>2. max_distance # NoLimit /\ distance + 1 > max_distance BY DEF DistanceReached, TooFar
<1>3. distance \in Nat /\ distance <= max_distance /\ max_distance \in Nat
      /\ tags = TagsUpTo(distance)
  BY <1>2, ContextAssumption DEF SearchOK, ContextTypeOK
<1>4. max_distance = distance BY <1>2, <1>3
<1>5. tags = Expected BY <1>2, <1>3, <1>4 DEF TagsUpTo, Expected
<1>6. QED BY <1>1, <1>5, SameLevels DEF ContextExact

\* The tags up to the next level are expected, if it is not too far.
LEMMA NextExpected ==
  ASSUME ContextTypeOK, SearchOK, ~TooFar
  PROVE  TagsUpTo(distance + 1) \subseteq Expected
<1>1. distance \in Nat BY DEF SearchOK
<1>2. max_distance = NoLimit \/ (max_distance \in Nat /\ distance + 1 <= max_distance)
  BY <1>1, ContextAssumption DEF TooFar, ContextTypeOK
<1>3. \A t \in Nearest(dag, tagged, vertex) : t[1] \in Nat BY NearestDef, NType
<1>4. QED BY <1>1, <1>2, <1>3 DEF TagsUpTo, Expected

LEMMA EnoughFoundStep ==
  ASSUME ContextTypeOK, SearchOK, EnoughFound, SameCall
  PROVE  over' = TRUE /\ ContextExact'
<1>1. /\ over' = TRUE /\ ~TooFar /\ max_element # NoLimit
      /\ \E T \in SUBSET LevelTags :
            Cardinality(T) = max_element - Cardinality(tags) /\ tags' = tags \cup T
  BY DEF EnoughFound, Enough, kSubset
<1>2. PICK T \in SUBSET LevelTags :
            Cardinality(T) = max_element - Cardinality(tags) /\ tags' = tags \cup T
  BY <1>1
<1>3. /\ \A t \in LevelTags : t[1] = distance + 1
      /\ tags \cap LevelTags = {} /\ TagsUpTo(distance + 1) = tags \cup LevelTags
  BY LevelTagsRight
<1>4. TagsUpTo(distance + 1) \subseteq Expected BY <1>1, NextExpected
<1>5. tags' \subseteq Expected BY <1>2, <1>3, <1>4
<1>6. Cardinality(tags') = max_element
  <2>1. tags \cup T \subseteq Nearest(dag, tagged, vertex) BY <1>2, <1>3 DEF TagsUpTo
  <2>2. IsFiniteSet(tags) /\ IsFiniteSet(T) /\ Cardinality(tags) \in Nat /\ Cardinality(T) \in Nat
    BY <2>1, TagsFinite
  <2>3. tags \cap T = {} BY <1>2, <1>3
  <2>4. Cardinality(tags \cup T) = Cardinality(tags) + Cardinality(T) - 0
    <3>1. Cardinality(tags \cap T) = 0 BY <2>3, FS_EmptySet
    <3>2. Cardinality(tags \cup T)
            = Cardinality(tags) + Cardinality(T) - Cardinality(tags \cap T)
      BY <2>2, FS_Union
    <3>3. QED BY <3>1, <3>2
  <2>5. max_element \in Nat BY <1>1, ContextAssumption DEF ContextTypeOK
  <2>6. QED BY <1>2, <2>2, <2>4, <2>5
<1>7. distance \in Nat /\ tags = TagsUpTo(distance) BY DEF SearchOK
<1>8. \A near \in tags' : near[1] \in Nat /\ near[1] <= distance + 1
  <2>1. \A t \in Nearest(dag, tagged, vertex) : t[1] \in Nat BY NearestDef, NType
  <2>2. QED BY <1>2, <1>3, <1>7, <2>1 DEF TagsUpTo
<1>9. \A far \in Expected \ tags' : far[1] \in Nat /\ far[1] >= distance + 1
  BY <1>2, <1>7, OthersFurther
<1>10. \A near \in tags', far \in Expected \ tags' : near[1] <= far[1]
  BY <1>7, <1>8, <1>9
<1>11. QED BY <1>1, <1>5, <1>6, <1>10, SameLevels DEF ContextExact, SameCall

LEMMA NextLevelStep ==
  ASSUME ContextTypeOK, SearchOK, NextLevel, SameCall
  PROVE  over' \in BOOLEAN /\ (~over' => SearchOK') /\ ContextExact'
<1>1. /\ ~TooFar /\ ~Enough /\ tags' = tags \cup LevelTags
      /\ closure' = closure \cup Onwards /\ visited' = closure /\ distance' = distance + 1
      /\ over' = (closure' = closure)
  BY DEF NextLevel
<1>2. tags' = TagsUpTo(distance + 1) BY <1>1, LevelTagsRight
<1>3. tags' \subseteq Expected BY <1>1, <1>2, NextExpected
<1>4. /\ distance \in Nat /\ distance + 1 <= N /\ closure = UpTo(distance + 1)
      /\ distance = 0 \/ Cardinality(closure) >= distance + 1
      /\ vertex \notin tagged
  BY DEF SearchOK
<1>5. CASE closure' = closure
  <2>1. tags' = Expected
    <3>1. Nearest(dag, tagged, vertex) = TagsUpTo(distance + 1) BY <1>1, <1>5, NothingFurther
    <3>2. QED BY <1>2, <1>3, <3>1 DEF Expected
  <2>2. QED BY <1>1, <1>5, <2>1, SameLevels DEF ContextExact
<1>6. CASE closure' # closure
  <2>1. closure' \subseteq Vertex /\ closure \subseteq Vertex BY <1>1, OnwardsRight
  <2>2. /\ IsFiniteSet(closure) /\ IsFiniteSet(closure') /\ Cardinality(closure) \in Nat
        /\ Cardinality(closure') \in Nat /\ Cardinality(closure') <= N
    BY <2>1, VertexAssumption, FS_Subset, FS_CardinalityType DEF N
  <2>3. Cardinality(closure) < Cardinality(closure')
    <3>1. closure \subseteq closure' BY <1>1
    <3>2. Cardinality(closure) <= Cardinality(closure')
          /\ (Cardinality(closure) = Cardinality(closure') => closure = closure')
      BY <2>2, <3>1, FS_Subset
    <3>3. QED BY <1>6, <2>2, <3>2
  <2>4. Cardinality(closure) >= 1
    <3>1. Onwards # {} BY <1>1, <1>6
    <3>2. closure # {} BY <3>1 DEF Onwards, Level
    <3>3. Cardinality(closure) # 0 BY <2>2, <3>2, FS_EmptySet
    <3>4. QED BY <2>2, <3>3
  <2>5. Cardinality(closure') >= distance + 2 /\ distance + 2 <= N
    BY <1>4, <2>2, <2>3, <2>4, NType
  <2>6. closure' = UpTo(distance + 2) BY <1>1, <2>5, OnwardsRight
  <2>7. max_distance = NoLimit \/ distance + 1 <= max_distance
    BY <1>1, <1>4, ContextAssumption DEF TooFar, ContextTypeOK
  <2>8. max_element = NoLimit \/ Cardinality(tags') < max_element
    <3> SUFFICES ASSUME max_element # NoLimit PROVE Cardinality(tags') < max_element OBVIOUS
    <3>1. max_element \in Nat BY ContextAssumption DEF ContextTypeOK
    <3>2. Cardinality(tags') \in Nat
      BY <1>3, TagsFinite DEF Expected
    <3>3. CASE LevelTags = {} BY <1>1, <3>3 DEF SearchOK
    <3>4. CASE LevelTags # {} BY <1>1, <3>1, <3>2, <3>4 DEF Enough
    <3>5. QED BY <3>3, <3>4
  <2>9. SearchOK'
    <3>1. distance' \in Nat /\ distance' + 1 = distance + 2 BY <1>1, <1>4
    <3>2. Levels' = Levels /\ vertex' = vertex /\ dag' = dag /\ tagged' = tagged
      BY SameLevels DEF SameCall
    <3>3. visited' = UpTo(distance)' BY <1>1, <1>4, <3>2 DEF UpTo
    <3>4. closure' = UpTo(distance + 1)' BY <2>6, <3>1, <3>2 DEF UpTo
    <3>5. tags' = TagsUpTo(distance)' BY <1>1, <1>2, <3>2 DEF TagsUpTo
    <3>6. vertex' \notin tagged' BY <1>4 DEF SameCall
    <3>7. /\ max_distance' = NoLimit \/ distance' <= max_distance'
          /\ max_element' = NoLimit \/ Cardinality(tags)' < max_element'
      BY <1>1, <2>7, <2>8 DEF SameCall
    <3>8. distance' + 1 <= N' /\ Cardinality(closure)' >= distance' + 1
      BY <2>5, <3>1 DEF N
    <3>9. QED BY <3>1, <3>3, <3>4, <3>5, <3>6, <3>7, <3>8 DEF SearchOK
  <2>10. QED BY <1>1, <1>6, <2>9 DEF ContextExact
<1>7. QED BY <1>5, <1>6

LEMMA ContextStutter ==
  ASSUME ContextInv, method # "get_context" \/ UNCHANGED <<queryVars, contextVars>>,
         method' = method
  PROVE  ContextInv'
<1>1. CASE method # "get_context" BY <1>1 DEF ContextInv
<1>2. CASE UNCHANGED <<queryVars, contextVars>> /\ method = "get_context"
  <2>1. SameCall /\ UNCHANGED <<closure, visited, tags, distance, over>>
    BY <1>2 DEF queryVars, iterVars, contextVars, SameCall
  <2>2. Levels' = Levels /\ Expected' = Expected /\ ContextTypeOK' BY <1>2, <2>1, SameLevels DEF ContextInv
  <2>3. SearchOK => SearchOK'
    BY <2>1, <2>2 DEF SearchOK, SameCall, UpTo, TagsUpTo
  <2>4. ContextExact => ContextExact' BY <2>1, <2>2 DEF ContextExact, SameCall
  <2>5. QED BY <1>2, <2>1, <2>2, <2>3, <2>4 DEF ContextInv
<1>3. QED BY <1>1, <1>2

LEMMA ContextStep ==
  ASSUME ContextInv, ContextNext
  PROVE  ContextInv'
<1>1. /\ method = "get_context" /\ ~over /\ SameCall /\ ContextTypeOK /\ SearchOK
      /\ DistanceReached \/ EnoughFound \/ NextLevel
  BY DEF ContextNext, DistanceReached, EnoughFound, NextLevel, contextCall, queryVars, iterVars,
         SameCall, ContextInv
<1>2. ContextTypeOK' BY <1>1, SameLevels
<1>3. over' \in BOOLEAN /\ (~over' => SearchOK') /\ ContextExact'
  BY <1>1, DistanceReachedStep, EnoughFoundStep, NextLevelStep
<1>4. QED BY <1>2, <1>3 DEF ContextInv

LEMMA ContextInvStep == ContextInv /\ [QueriesNext]_vars => ContextInv'
<1> SUFFICES ASSUME ContextInv, [QueriesNext]_vars PROVE ContextInv' OBVIOUS
<1>1. CASE Iterate BY <1>1, ContextStutter DEF Iterate
<1>2. CASE SearchNext BY <1>2, ContextStutter DEF SearchNext, Visit, queryVars
<1>3. CASE ContextNext BY <1>3, ContextStep
<1>4. CASE PruneNext
  BY <1>4, ContextStutter DEF PruneNext, Prune, Refuse, Keep, pruneCall
<1>5. CASE UNCHANGED vars BY <1>5, ContextStutter DEF vars, queryVars
<1>6. QED BY <1>1, <1>2, <1>3, <1>4, <1>5 DEF QueriesNext

\* get_context returns the first tag of each branch, with the length of the
\* shortest way to it, and the nearest ones when it stops early, on any graph.
THEOREM ContextExactHolds == QueriesSpec => []ContextExact
<1>1. ContextInv => ContextExact BY DEF ContextInv, ContextExact
<1>2. QED BY <1>1, ContextInitInv, ContextInvStep, PTL DEF QueriesSpec

----------------------------------------------------------------------------
(* shortest_path.                                                          *)

FromTarget == Reached(dag, {}, target)

\* The vertex a node stands for.
Stands(n) == IF n = Fake THEN target ELSE n

SearchTypeOK ==
  /\ dag \in AnyGraph /\ source \in Vertex /\ target \in Vertex
  /\ dist \in [Node -> 0..infinite] /\ prev \in [Node -> Vertex \cup {Fake}]
  /\ unvisited \subseteq Node /\ found \in BOOLEAN

\* A finite distance is that of a path, and prev is the way back along it.
WayBack ==
  /\ dist[target] = 0
  /\ \A n \in Node : dist[n] = 0 => n = target
  /\ \A n \in Node : prev[n] = Fake <=> n = target \/ dist[n] = infinite
  /\ \A n \in Node : prev[n] # Fake =>
       /\ prev[n] \in Node \ unvisited /\ n \in ReachedFrom(prev[n])
       /\ dist[n] = dist[prev[n]] + 1
  /\ \A n \in Node : dist[n] < infinite => Stands(n) \in FromTarget[dist[n]]

\* Nodes are visited by distance, and a visited node was looked behind.
ByDistance ==
  /\ \A x \in Node \ unvisited, y \in unvisited : dist[x] <= dist[y]
  /\ \A u \in Node \ unvisited : u # path_source =>
       \A n \in ReachedFrom(u) : dist[n] <= dist[u] + 1
  /\ found <=> path_source \notin unvisited

SearchInv ==
  method = "shortest_path" => SearchTypeOK /\ WayBack /\ ByDistance

LEMMA NodeFacts ==
  ASSUME SearchTypeOK
  PROVE  /\ target \in Node /\ path_source \in Node /\ infinite = N + 1 /\ infinite \in Nat
         /\ Vertex \subseteq Node /\ Fake \notin Vertex
         /\ \A u \in Node : u # path_source => u \in Vertex
         /\ \A u \in Vertex : ReachedFrom(u) \subseteq Node
         /\ \A u \in Vertex : \A n \in ReachedFrom(u) : Stands(n) \in dag[u]
         /\ \A u \in Vertex : Stands(u) = u
         /\ Stands(path_source) = source
         /\ source = target => path_source = Fake
         /\ source # target => path_source = source /\ Node = Vertex
         /\ path_source # target
<1>1. Fake \notin Vertex BY ShortestPathAssumption
<1>2. infinite = N + 1 /\ infinite \in Nat BY NType DEF infinite, N
<1>3. ASSUME NEW u \in Vertex, NEW n \in ReachedFrom(u) PROVE n \in Node /\ Stands(n) \in dag[u]
  <2>1. PICK p \in dag[u] : n = (IF source = target /\ p = target THEN Fake ELSE p)
    BY <1>3 DEF ReachedFrom
  <2>2. p \in Vertex BY DEF SearchTypeOK, AnyGraph
  <2>3. CASE source = target /\ p = target BY <2>1, <2>3 DEF Node, Stands
  <2>4. CASE ~(source = target /\ p = target) BY <1>1, <2>1, <2>2, <2>4 DEF Node, Stands
  <2>5. QED BY <2>3, <2>4
<1>4. QED BY <1>1, <1>2, <1>3 DEF SearchTypeOK, Node, path_source, Stands

LEMMA SearchInitInv == QueriesInit => SearchInv
<1> SUFFICES ASSUME QueriesInit, method = "shortest_path" PROVE SearchInv
  BY DEF SearchInv
<1>1. /\ source \in Vertex /\ target \in Vertex
      /\ dist = [n \in Node |-> IF n = target THEN 0 ELSE infinite]
      /\ prev = [n \in Node |-> Fake] /\ unvisited = Node /\ found = FALSE
  BY ShortestPathAssumption DEF QueriesInit, SearchInit
<1>2. dag \in AnyGraph
  BY GraphsAssumption DEF QueriesInit, QueryInit, IterInit, AnyGraph
<1>3. infinite = N + 1 /\ infinite \in Nat /\ infinite # 0 BY NType DEF infinite, N
<1>4. SearchTypeOK
  <2>1. 0 \in 0..infinite /\ infinite \in 0..infinite BY <1>3
  <2>2. dist \in [Node -> 0..infinite] BY <1>1, <2>1
  <2>3. prev \in [Node -> Vertex \cup {Fake}] BY <1>1
  <2>4. QED BY <1>1, <1>2, <2>2, <2>3 DEF SearchTypeOK
<1>5. target \in Node /\ path_source \in Node /\ Fake \notin Vertex BY <1>4, NodeFacts
<1>6. WayBack
  <2>1. target \in FromTarget[0]
    <3>1. FromTarget[0] = {target} BY <1>1, <1>2, ReachedStep DEF FromTarget
    <3>2. QED BY <3>1
  <2>2. Stands(target) = target BY <1>1, <1>5 DEF Stands
  <2>3. QED BY <1>1, <1>3, <1>5, <2>1, <2>2 DEF WayBack
<1>7. ByDistance BY <1>1, <1>5 DEF ByDistance
<1>8. QED BY <1>4, <1>6, <1>7 DEF SearchInv

LEMMA VisitStep ==
  ASSUME SearchTypeOK, WayBack, ByDistance, ~found, NEW u \in Node, Visit(u)
  PROVE  (SearchTypeOK /\ WayBack /\ ByDistance)'
<1>1. /\ u \in unvisited /\ \A w \in unvisited : dist[u] <= dist[w]
      /\ unvisited' = unvisited \ {u} /\ found' = (u = path_source)
      /\ dist' = [n \in Node |-> IF n \in Closer(u) THEN dist[u] + 1 ELSE dist[n]]
      /\ prev' = [n \in Node |-> IF n \in Closer(u) THEN u ELSE prev[n]]
      /\ dag' = dag /\ source' = source /\ target' = target
  BY DEF Visit, Closest, queryVars, iterVars
<1>2. /\ Node' = Node /\ path_source' = path_source /\ FromTarget' = FromTarget
      /\ \A n : Stands(n)' = Stands(n) /\ ReachedFrom(n)' = ReachedFrom(n)
  BY <1>1 DEF Node, path_source, FromTarget, Stands, ReachedFrom
<1>3. dist \in [Node -> 0..infinite] /\ prev \in [Node -> Vertex \cup {Fake}]
      /\ unvisited \subseteq Node
  BY DEF SearchTypeOK
<1>4. /\ infinite = N + 1 /\ infinite \in Nat /\ N \in Nat /\ target \in Node
      /\ path_source \in Node /\ Fake \notin Vertex /\ path_source # target
  BY NodeFacts, NType
<1>5. ASSUME NEW n \in Closer(u)
      PROVE  /\ n \in Node /\ u # path_source /\ u \in Vertex /\ n \in ReachedFrom(u)
             /\ dist[u] + 1 < dist[n] /\ n \in unvisited /\ n # u /\ n # target
             /\ dist[u] + 1 \in 1..N /\ dist[u] \in 0..N
  <2>1. u # path_source /\ n \in ReachedFrom(u) /\ dist[u] + 1 < dist[n]
    BY <1>5 DEF Closer
  <2>2. u \in Vertex /\ n \in Node BY <2>1, NodeFacts
  <2>3. dist[u] \in 0..infinite /\ dist[n] \in 0..infinite BY <1>3, <2>2
  <2>4. n # u /\ n # target BY <2>1, <2>3, <1>4 DEF WayBack
  <2>5. n \in unvisited
    <3>1. CASE n \notin unvisited
      <4>1. dist[n] <= dist[u] BY <1>1, <2>2, <3>1 DEF ByDistance
      <4>2. QED BY <2>1, <2>3, <4>1, <1>4
    <3>2. QED BY <3>1
  <2>6. QED BY <1>4, <2>1, <2>2, <2>3, <2>4, <2>5
<1>6. \A n \in Node : dist[n] \in 0..infinite /\ dist'[n] \in 0..infinite /\ dist'[n] <= dist[n]
  <2> SUFFICES ASSUME NEW n \in Node
               PROVE  dist[n] \in 0..infinite /\ dist'[n] \in 0..infinite /\ dist'[n] <= dist[n]
    OBVIOUS
  <2>1. dist[n] \in 0..infinite BY <1>3
  <2>2. CASE n \in Closer(u)
    <3>1. dist'[n] = dist[u] + 1 BY <1>1, <2>2
    <3>2. dist[u] + 1 < dist[n] /\ dist[u] + 1 \in 1..N BY <1>5, <2>2
    <3>3. QED BY <1>4, <2>1, <3>1, <3>2
  <2>3. CASE n \notin Closer(u)
    <3>1. dist'[n] = dist[n] BY <1>1, <2>3
    <3>2. QED BY <1>4, <2>1, <3>1
  <2>4. QED BY <2>2, <2>3
<1>7. \A n \in Node : n \notin unvisited \/ n = u => dist'[n] = dist[n] /\ prev'[n] = prev[n]
  BY <1>1, <1>5
<1>8. SearchTypeOK'
  <2>1. dist' \in [Node -> 0..infinite] BY <1>1, <1>6
  <2>2. prev' \in [Node -> Vertex \cup {Fake}] BY <1>1, <1>3, <1>5
  <2>3. infinite' = infinite BY DEF infinite
  <2>4. QED BY <1>1, <1>2, <2>1, <2>2, <2>3 DEF SearchTypeOK
<1>9. WayBack'
  <2>1. dist'[target] = 0 BY <1>1, <1>4, <1>5 DEF WayBack
  <2>2. ASSUME NEW n \in Node, dist'[n] = 0 PROVE n = target
    <3>1. n \notin Closer(u)
      <4>1. n \in Closer(u) => dist'[n] = dist[u] + 1 /\ dist[u] + 1 \in 1..N BY <1>1, <1>5
      <4>2. QED BY <1>4, <2>2, <4>1
    <3>2. dist'[n] = dist[n] BY <1>1, <3>1
    <3>3. QED BY <2>2, <3>2 DEF WayBack
  <2>3. ASSUME NEW n \in Node PROVE prev'[n] = Fake <=> n = target \/ dist'[n] = infinite
    <3>1. CASE n \in Closer(u)
      <4>1. prev'[n] = u /\ dist'[n] = dist[u] + 1 BY <1>1, <3>1
      <4>2. u \in Vertex /\ dist[u] + 1 \in 1..N /\ n # target BY <1>5, <3>1
      <4>3. QED BY <1>4, <4>1, <4>2
    <3>2. CASE n \notin Closer(u)
      <4>1. prev'[n] = prev[n] /\ dist'[n] = dist[n] BY <1>1, <3>2
      <4>2. QED BY <4>1 DEF WayBack
    <3>3. QED BY <3>1, <3>2
  <2>4. ASSUME NEW n \in Node, prev'[n] # Fake
        PROVE  /\ prev'[n] \in Node \ unvisited' /\ n \in ReachedFrom(prev'[n])
               /\ dist'[n] = dist'[prev'[n]] + 1
    <3>1. CASE n \in Closer(u)
      <4>1. prev'[n] = u /\ dist'[n] = dist[u] + 1 BY <1>1, <3>1
      <4>2. dist'[u] = dist[u] BY <1>7
      <4>3. QED BY <1>1, <1>5, <3>1, <4>1, <4>2
    <3>2. CASE n \notin Closer(u)
      <4>1. prev'[n] = prev[n] /\ dist'[n] = dist[n] BY <1>1, <3>2
      <4>2. /\ prev[n] \in Node \ unvisited /\ n \in ReachedFrom(prev[n])
            /\ dist[n] = dist[prev[n]] + 1
        BY <2>4, <4>1 DEF WayBack
      <4>3. dist'[prev[n]] = dist[prev[n]] BY <1>7, <4>2
      <4>4. QED BY <1>1, <4>1, <4>2, <4>3
    <3>3. QED BY <3>1, <3>2
  <2>5. ASSUME NEW n \in Node, dist'[n] < infinite PROVE Stands(n) \in FromTarget[dist'[n]]
    <3>1. CASE n \in Closer(u)
      <4>1. dist'[n] = dist[u] + 1 BY <1>1, <3>1
      <4>2. u \in Vertex /\ n \in ReachedFrom(u) /\ dist[u] + 1 \in 1..N /\ dist[u] \in 0..N
        BY <1>5, <3>1
      <4>3. Stands(n) \in dag[u] /\ Stands(u) = u BY <4>2, NodeFacts
      <4>4. u \in FromTarget[dist[u]] BY <1>4, <4>2, <4>3 DEF WayBack
      <4>5. FromTarget[dist[u] + 1]
              = UNION {dag[w] : w \in FromTarget[(dist[u] + 1) - 1] \ {}}
        BY <4>2, ReachedStep DEF FromTarget, SearchTypeOK
      <4>6. (dist[u] + 1) - 1 = dist[u] BY <4>2, NType
      <4>7. QED BY <4>1, <4>3, <4>4, <4>5, <4>6
    <3>2. CASE n \notin Closer(u)
      <4>1. dist'[n] = dist[n] BY <1>1, <3>2
      <4>2. QED BY <2>5, <4>1 DEF WayBack
    <3>3. QED BY <3>1, <3>2
  <2>6. infinite' = infinite BY DEF infinite
  <2>7. dist'[target'] = 0 BY <1>1, <2>1
  <2>8. \A n \in Node' : dist'[n] = 0 => n = target' BY <1>1, <1>2, <2>2
  <2>9. \A n \in Node' : prev'[n] = Fake <=> n = target' \/ dist'[n] = infinite'
    BY <1>1, <1>2, <2>3, <2>6
  <2>10. \A n \in Node' : prev'[n] # Fake =>
           /\ prev'[n] \in Node' \ unvisited' /\ n \in ReachedFrom(prev[n])'
           /\ dist'[n] = dist'[prev'[n]] + 1
    BY <1>1, <1>2, <2>4 DEF ReachedFrom
  <2>11. \A n \in Node' : dist'[n] < infinite' => Stands(n)' \in FromTarget'[dist'[n]]
    BY <1>2, <2>5, <2>6
  <2>12. QED BY <2>7, <2>8, <2>9, <2>10, <2>11 DEF WayBack
<1>10. ByDistance'
  <2>1. ASSUME NEW x \in Node \ unvisited', NEW y \in unvisited' PROVE dist'[x] <= dist'[y]
    <3>1. x \in Node /\ (x \notin unvisited \/ x = u) /\ y \in unvisited /\ y # u /\ y \in Node
      BY <1>1, <1>3, <2>1
    <3>2. dist'[x] = dist[x] BY <1>7, <3>1
    <3>3. dist[x] <= dist[u] /\ dist[x] <= dist[y] /\ dist[u] <= dist[y]
      BY <1>1, <1>3, <1>6, <3>1 DEF ByDistance
    <3>4. CASE y \in Closer(u)
      <4>1. dist'[y] = dist[u] + 1 BY <1>1, <3>1, <3>4
      <4>2. QED BY <1>6, <3>1, <3>2, <3>3, <4>1
    <3>5. CASE y \notin Closer(u)
      <4>1. dist'[y] = dist[y] BY <1>1, <3>1, <3>5
      <4>2. QED BY <3>2, <3>3, <4>1
    <3>6. QED BY <3>4, <3>5
  <2>2. ASSUME NEW x \in Node \ unvisited', x # path_source, NEW n \in ReachedFrom(x)
        PROVE  dist'[n] <= dist'[x] + 1
    <3>1. x \in Vertex /\ n \in Node BY <2>2, NodeFacts
    <3>2. x \in Node /\ (x \notin unvisited \/ x = u) BY <1>1, <2>2
    <3>3. dist'[x] = dist[x] BY <1>7, <3>2
    <3>4. dist[n] \in 0..infinite /\ dist'[n] \in 0..infinite /\ dist'[n] <= dist[n]
          /\ dist[x] \in 0..infinite
      BY <1>6, <3>1, <3>2
    <3>5. CASE x = u
      <4>1. CASE n \in Closer(u)
        <5>1. dist'[n] = dist[u] + 1 BY <1>1, <3>1, <4>1
        <5>2. QED BY <3>3, <3>4, <3>5, <5>1
      <4>2. CASE n \notin Closer(u)
        <5>1. ~(dist[u] + 1 < dist[n]) BY <2>2, <3>5, <4>2 DEF Closer
        <5>2. QED BY <3>3, <3>4, <3>5, <5>1, <1>4
      <4>3. QED BY <4>1, <4>2
    <3>6. CASE x # u
      <4>1. dist[n] <= dist[x] + 1 BY <2>2, <3>2, <3>6 DEF ByDistance
      <4>2. QED BY <3>3, <3>4, <4>1, <1>4
    <3>7. QED BY <3>5, <3>6
  <2>3. found' <=> path_source \notin unvisited' BY <1>1, <1>4 DEF ByDistance
  <2>4. \A x \in Node' \ unvisited', y \in unvisited' : dist'[x] <= dist'[y] BY <1>2, <2>1
  <2>5. \A x \in Node' \ unvisited' : x # path_source' =>
          \A n \in ReachedFrom(x)' : dist'[n] <= dist'[x] + 1
    BY <1>2, <2>2
  <2>6. QED BY <1>2, <2>3, <2>4, <2>5 DEF ByDistance
<1>11. QED BY <1>8, <1>9, <1>10

LEMMA SearchStutter ==
  ASSUME SearchInv, method' = method,
         method # "shortest_path" \/ UNCHANGED <<queryVars, searchVars>>
  PROVE  SearchInv'
<1>1. CASE method # "shortest_path" BY <1>1 DEF SearchInv
<1>2. CASE method = "shortest_path" /\ UNCHANGED <<queryVars, searchVars>>
  <2>1. UNCHANGED <<dag, source, target, dist, prev, unvisited, found>>
    BY <1>2 DEF queryVars, iterVars, searchVars
  <2>2. Node' = Node /\ path_source' = path_source /\ FromTarget' = FromTarget
        /\ infinite' = infinite /\ \A n : Stands(n)' = Stands(n) /\ ReachedFrom(n)' = ReachedFrom(n)
    BY <2>1 DEF Node, path_source, FromTarget, infinite, Stands, ReachedFrom
  <2>3. SearchTypeOK' BY <1>2, <2>1, <2>2 DEF SearchInv, SearchTypeOK
  <2>4. WayBack'
    <3>1. WayBack BY <1>2 DEF SearchInv
    <3>2. \A n \in Node : prev[n] # Fake => ReachedFrom(prev[n])' = ReachedFrom(prev[n])
      BY <2>1 DEF ReachedFrom
    <3>3. QED BY <2>1, <2>2, <3>1, <3>2 DEF WayBack
  <2>5. ByDistance' BY <1>2, <2>1, <2>2 DEF SearchInv, ByDistance
  <2>6. QED BY <2>3, <2>4, <2>5 DEF SearchInv
<1>3. QED BY <1>1, <1>2

LEMMA SearchInvStep == SearchInv /\ [QueriesNext]_vars => SearchInv'
<1> SUFFICES ASSUME SearchInv, [QueriesNext]_vars PROVE SearchInv' OBVIOUS
<1>1. CASE Iterate BY <1>1, SearchStutter DEF Iterate
<1>2. CASE SearchNext
  <2>1. SearchTypeOK /\ WayBack /\ ByDistance /\ ~found /\ method = "shortest_path"
    BY <1>2 DEF SearchNext, SearchInv
  <2>2. PICK u \in Node : Visit(u) BY <1>2 DEF SearchNext
  <2>3. SearchTypeOK' /\ WayBack' /\ ByDistance' BY <2>1, <2>2, VisitStep
  <2>4. QED BY <2>3 DEF SearchInv
<1>3. CASE ContextNext
  BY <1>3, SearchStutter
  DEF ContextNext, DistanceReached, EnoughFound, NextLevel, contextCall, queryVars
<1>4. CASE PruneNext
  BY <1>4, SearchStutter DEF PruneNext, Prune, Refuse, Keep, pruneCall
<1>5. CASE UNCHANGED vars BY <1>5, SearchStutter DEF vars, queryVars
<1>6. QED BY <1>1, <1>2, <1>3, <1>4, <1>5 DEF QueriesNext

\* The node a vertex behind another one stands for.
Behind(x) == IF source = target /\ x = target THEN Fake ELSE x

\* When the path source is visited, no vertex is nearer than the smaller of
\* its distance and of the distance of the path source.
LEMMA ShortestBound ==
  ASSUME SearchTypeOK, WayBack, ByDistance, found,
         NEW d \in 1..N, NEW x \in FromTarget[d]
  PROVE  dist[Behind(x)] <= d \/ dist[path_source] <= d
<1> DEFINE Bad == {e \in 1..N : \E y \in FromTarget[e] :
                      ~(dist[Behind(y)] <= e) /\ ~(dist[path_source] <= e)}
<1>0. /\ \A e \in 1..N : FromTarget[e] = UNION {dag[u] : u \in FromTarget[e - 1]}
      /\ FromTarget[0] = {target} /\ \A e \in 0..N : FromTarget[e] \subseteq Vertex
  <2>1. \A S : S \ {} = S OBVIOUS
  <2>2. QED BY <2>1, ReachedStep DEF SearchTypeOK, FromTarget
<1>1. ASSUME Bad # {} PROVE FALSE
  <2>1. Bad \in SUBSET Nat BY NType
  <2>2. PICK e \in Bad : \A m \in Bad : e <= m
    <3> HIDE DEF Bad
    <3>1. QED BY <1>1, <2>1, SmallestOf
  <2>3. PICK y \in FromTarget[e] : ~(dist[Behind(y)] <= e) /\ ~(dist[path_source] <= e)
    BY <2>2
  <2>4. e \in 1..N /\ e - 1 \in 0..N /\ (e # 1 => e - 1 \in 1..N /\ e - 1 \notin Bad)
    BY <2>2, NType
  <2> HIDE DEF Bad
  <2>5. PICK u \in FromTarget[e - 1] : y \in dag[u] BY <1>0, <2>3, <2>4
  <2>6. u \in Vertex /\ y \in Vertex /\ u \in Node BY <1>0, <2>3, <2>4, <2>5, NodeFacts
  <2>7. y \in dag[u] => Behind(y) \in ReachedFrom(u) BY DEF Behind, ReachedFrom
  <2>8. /\ Behind(y) \in Node /\ path_source \in Node /\ target \in Node
        /\ \A n \in Node : dist[n] \in Nat
    BY <2>5, <2>6, <2>7, NodeFacts DEF SearchTypeOK
  <2>9. dist[u] <= e - 1
    <3>1. CASE e = 1
      <4>1. u = target /\ dist[u] = 0 BY <1>0, <2>5, <3>1 DEF WayBack
      <4>2. QED BY <3>1, <4>1
    <3>2. CASE e # 1
      <4>1. dist[Behind(u)] <= e - 1 \/ dist[path_source] <= e - 1
        BY <2>4, <2>5, <3>2 DEF Bad
      <4>2. ~(dist[path_source] <= e - 1) BY <2>3, <2>4, <2>8
      <4>3. CASE source = target /\ u = target
        <5>1. dist[u] = 0 BY <4>3 DEF WayBack
        <5>2. 0 <= e - 1 BY <2>4, NType
        <5>3. QED BY <5>1, <5>2
      <4>4. CASE ~(source = target /\ u = target)
        <5>1. Behind(u) = u BY <4>4 DEF Behind
        <5>2. QED BY <4>1, <4>2, <5>1
      <4>5. QED BY <4>3, <4>4
    <3>3. QED BY <3>1, <3>2
  <2>10. u # path_source
    <3>1. dist[u] <= e BY <2>4, <2>6, <2>8, <2>9, NType
    <3>2. QED BY <2>3, <3>1
  <2>11. u \notin unvisited
    <3>1. path_source \notin unvisited BY DEF ByDistance
    <3>2. u \in unvisited => dist[path_source] <= dist[u] BY <2>8, <3>1 DEF ByDistance
    <3>3. QED BY <2>3, <2>4, <2>6, <2>8, <2>9, <3>2, NType
  <2>12. dist[Behind(y)] <= dist[u] + 1 BY <2>5, <2>6, <2>7, <2>10, <2>11 DEF ByDistance
  <2>13. QED BY <2>3, <2>4, <2>6, <2>8, <2>9, <2>12, NType
<1>2. QED BY <1>1

LEMMA NoShorter ==
  ASSUME SearchTypeOK, WayBack, ByDistance, found, NEW d \in Lengths
  PROVE  dist[path_source] <= d
<1>1. d \in 1..N /\ source \in FromTarget[d] BY DEF Lengths, N, FromTarget
<1>2. Behind(source) = path_source BY DEF Behind, path_source
<1>3. QED BY <1>1, <1>2, ShortestBound

\* The equation of the recursive definition in Way.
Back(f) == [n \in Node |-> IF prev[n] = Fake THEN <<n>> ELSE <<n>> \o f[prev[n]]]

\* Every node is nearer than the one it leads to, so that the recursion ends.
LEMMA WayDef ==
  ASSUME SearchTypeOK, WayBack
  PROVE  \E f : f = Back(f) /\ Way = f[path_source]
<1> DEFINE Upto(f, k) == /\ f = [n \in Node |-> f[n]]
                         /\ \A n \in Node : dist[n] <= k => f[n] = Back(f)[n]
           Bad == {k \in Nat : ~ \E f : Upto(f, k)}
<1>0. /\ \A n \in Node : dist[n] \in Nat /\ dist[n] <= infinite
      /\ infinite \in Nat
      /\ \A n \in Node : prev[n] # Fake => prev[n] \in Node /\ dist[n] = dist[prev[n]] + 1
      /\ \A n \in Node : dist[n] = 0 => prev[n] = Fake
  BY NodeFacts DEF SearchTypeOK, WayBack
<1>1. ASSUME Bad # {} PROVE FALSE
  <2>1. PICK k \in Bad : \A m \in Bad : k <= m
    <3>1. Bad \in SUBSET Nat OBVIOUS
    <3> HIDE DEF Bad
    <3>2. QED BY <1>1, <3>1, SmallestOf
  <2>2. k # 0
    <3> DEFINE f == [n \in Node |-> <<n>>]
    <3>1. \A n \in Node : dist[n] <= 0 => f[n] = Back(f)[n] BY <1>0 DEF Back
    <3>2. Upto(f, 0) BY <3>1
    <3>3. 0 \notin Bad BY <3>2
    <3>4. QED BY <2>1, <3>3
  <2>3. k \in Nat /\ k - 1 \in Nat /\ k - 1 \notin Bad
    <3>1. k \in Nat BY <2>1
    <3> HIDE DEF Bad
    <3>2. QED BY <2>1, <2>2, <3>1
  <2>4. PICK f : Upto(f, k - 1) BY <2>3
  <2>5. ASSUME NEW n \in Node, dist[n] <= k PROVE Back(f)[n] = Back(Back(f))[n]
    <3>1. CASE prev[n] = Fake BY <3>1 DEF Back
    <3>2. CASE prev[n] # Fake
      <4>1. prev[n] \in Node /\ dist[prev[n]] <= k - 1 BY <1>0, <2>3, <2>5, <3>2
      <4>2. Back(f)[prev[n]] = f[prev[n]] BY <2>4, <4>1
      <4>3. QED BY <3>2, <4>1, <4>2 DEF Back
    <3>3. QED BY <3>1, <3>2
  <2>6. Upto(Back(f), k)
    <3>1. Back(f) = [n \in Node |-> Back(f)[n]] BY DEF Back
    <3>2. QED BY <2>5, <3>1
  <2>7. k \notin Bad BY <2>6
  <2>8. QED BY <2>1, <2>7
<1>2. PICK f : Upto(f, infinite) BY <1>0, <1>1
<1>3. f = Back(f)
  <2>1. \A n \in Node : f[n] = Back(f)[n] BY <1>0, <1>2
  <2>2. QED BY <1>2, <2>1 DEF Back
<1>4. Way = (CHOOSE g : g = Back(g))[path_source] BY DEF Way, Back
<1>5. QED BY <1>3, <1>4

\* The way from a node: its length is the distance, it ends at the target, and
\* each node is a predecessor of the next one.
IsWay(s, n) ==
  /\ s \in Seq(Node) /\ Len(s) = dist[n] + 1
  /\ s[1] = n /\ s[dist[n] + 1] = target
  /\ \A i \in 1..dist[n] : s[i + 1] \in Vertex /\ s[i] \in ReachedFrom(s[i + 1])

LEMMA WaysRight ==
  ASSUME SearchTypeOK, WayBack, NEW f, f = Back(f), NEW n \in Node, dist[n] < infinite
  PROVE  IsWay(f[n], n)
<1> DEFINE Bad == {k \in Nat : \E m \in Node : dist[m] = k /\ k < infinite /\ ~IsWay(f[m], m)}
<1>0. /\ \A m \in Node : dist[m] \in Nat
      /\ \A m \in Node : f[m] = IF prev[m] = Fake THEN <<m>> ELSE <<m>> \o f[prev[m]]
  <2>1. \A m \in Node : dist[m] \in Nat BY NodeFacts DEF SearchTypeOK
  <2>2. \A m \in Node : Back(f)[m] = IF prev[m] = Fake THEN <<m>> ELSE <<m>> \o f[prev[m]]
    BY DEF Back
  <2>3. \A m \in Node : f[m] = Back(f)[m] OBVIOUS
  <2>4. QED BY <2>1, <2>2, <2>3
<1>1. ASSUME Bad # {} PROVE FALSE
  <2>1. PICK k \in Bad : \A m \in Bad : k <= m
    <3>1. Bad \in SUBSET Nat OBVIOUS
    <3> HIDE DEF Bad
    <3>2. QED BY <1>1, <3>1, SmallestOf
  <2>2. PICK m \in Node : dist[m] = k /\ k < infinite /\ ~IsWay(f[m], m) BY <2>1
  <2>3. k \in Nat BY <2>1
  <2>4. CASE prev[m] = Fake
    <3>1. m = target /\ dist[m] = 0 BY <2>2, <2>4, NodeFacts DEF WayBack
    <3>2. f[m] = <<m>> BY <1>0, <2>2, <2>4
    <3>3. IsWay(<<m>>, m) BY <2>2, <3>1 DEF IsWay
    <3>4. QED BY <2>2, <3>2, <3>3
  <2>5. CASE prev[m] # Fake
    <3>1. /\ prev[m] \in Node /\ prev[m] \in Vertex /\ m \in ReachedFrom(prev[m])
          /\ dist[m] = dist[prev[m]] + 1
      BY <2>2, <2>5 DEF WayBack, SearchTypeOK
    <3>2. dist[prev[m]] \in Nat /\ dist[prev[m]] = k - 1 BY <1>0, <2>2, <3>1
    <3>3. k - 1 \notin Bad
      <4> HIDE DEF Bad
      <4>1. QED BY <2>1, <2>3
    <3>4. IsWay(f[prev[m]], prev[m])
      <4>1. k - 1 < infinite BY <2>2, <2>3, NodeFacts
      <4>2. QED BY <3>1, <3>2, <3>3, <4>1
    <3> DEFINE s == f[prev[m]]
               t == <<m>> \o s
    <3>5. s \in Seq(Node) /\ Len(s) = k /\ s[1] = prev[m] /\ s[k] = target
          /\ \A i \in 1..(k - 1) : s[i + 1] \in Vertex /\ s[i] \in ReachedFrom(s[i + 1])
      BY <2>3, <3>2, <3>4 DEF IsWay
    <3>6. f[m] = t BY <1>0, <2>2, <2>5
    <3> HIDE DEF s
    <3>7. t \in Seq(Node) /\ Len(t) = k + 1 /\ t[1] = m
          /\ \A i \in 1..k : t[i + 1] = s[i]
      BY <2>2, <2>3, <3>5
    <3>8. k # 0 BY <3>2
    <3> HIDE DEF t
    <3>9. t[k + 1] = target BY <2>3, <3>5, <3>7, <3>8
    <3>10. ASSUME NEW i \in 1..k PROVE t[i + 1] \in Vertex /\ t[i] \in ReachedFrom(t[i + 1])
      <4>1. CASE i = 1
        <5>1. t[i + 1] = prev[m] BY <3>5, <3>7, <4>1
        <5>2. t[i] = m BY <3>7, <4>1
        <5>3. QED BY <3>1, <5>1, <5>2
      <4>2. CASE i # 1
        <5>1. i - 1 \in 1..(k - 1) /\ i - 1 \in 1..k /\ (i - 1) + 1 = i BY <2>3, <4>2
        <5>2. t[i + 1] = s[i] /\ t[i] = s[i - 1] BY <3>7, <5>1
        <5>3. QED BY <3>5, <5>1, <5>2
      <4>3. QED BY <4>1, <4>2
    <3>11. IsWay(t, m) BY <2>2, <3>7, <3>9, <3>10 DEF IsWay
    <3>12. QED BY <2>2, <3>6, <3>11
  <2>6. QED BY <2>4, <2>5
<1>2. dist[n] \notin Bad BY <1>1
<1>3. QED BY <1>0, <1>2

LEMMA ResultRight == SearchInv => ResultIsShortest
<1> SUFFICES ASSUME SearchInv, method = "shortest_path", found = TRUE
             PROVE  IF Result = <<>> THEN Lengths = {}
                    ELSE /\ Head(Result) = source
                         /\ Last(Result) = target
                         /\ \A i \in 1..(Len(Result) - 1) : Result[i] \in dag[Result[i + 1]]
                         /\ Len(Result) - 1 \in Lengths
                         /\ \A d \in Lengths : Len(Result) - 1 <= d
  BY DEF ResultIsShortest
<1>1. SearchTypeOK /\ WayBack /\ ByDistance BY DEF SearchInv
<1> DEFINE far == dist[path_source]
<1>2. far \in 0..infinite /\ far # 0 /\ infinite = N + 1 /\ N \in Nat
  BY <1>1, NodeFacts, NType DEF SearchTypeOK, WayBack
<1>3. \A d \in Lengths : d \in 1..N /\ far <= d BY <1>1, NoShorter DEF Lengths, N
<1>4. CASE far = infinite
  <2>1. Result = <<>> BY <1>4 DEF Result
  <2>2. Lengths = {} BY <1>2, <1>3, <1>4
  <2>3. QED BY <2>1, <2>2
<1>5. CASE far # infinite
  <2>1. far \in 1..N /\ far < infinite BY <1>2, <1>5
  <2>2. PICK f : f = Back(f) /\ Way = f[path_source] BY <1>1, WayDef
  <2>3. IsWay(Way, path_source) BY <1>1, <2>1, <2>2, WaysRight, NodeFacts
  <2>4. /\ Way \in Seq(Node) /\ Len(Way) = far + 1 /\ Way[1] = path_source
        /\ Way[far + 1] = target
        /\ \A i \in 1..far : Way[i + 1] \in Vertex /\ Way[i] \in ReachedFrom(Way[i + 1])
    BY <2>3 DEF IsWay
  <2> HIDE DEF far
  <2>5. \A i \in 2..(far + 1) : Way[i] \in Vertex
    <3> SUFFICES ASSUME NEW i \in 2..(far + 1) PROVE Way[i] \in Vertex OBVIOUS
    <3>1. i - 1 \in 1..far /\ (i - 1) + 1 = i BY <2>1
    <3>2. QED BY <2>4, <3>1
  <2>6. /\ Len(Result) = far + 1 /\ Result \in Seq(Node)
        /\ \A i \in 1..(far + 1) : Result[i] = Stands(Way[i])
    <3>1. \A u \in Vertex : Stands(u) = u BY <1>1, NodeFacts
    <3>2. CASE source = target
      <4>1. Result = <<target>> \o Tail(Way) BY <1>5, <3>2 DEF Result, far
      <4>2. path_source = Fake BY <3>2 DEF path_source
      <4>3. Tail(Way) \in Seq(Node) /\ Len(Tail(Way)) = far
            /\ \A i \in 1..far : Tail(Way)[i] = Way[i + 1]
        BY <2>1, <2>4
      <4>4. Len(Result) = far + 1 /\ Result \in Seq(Node) /\ Result[1] = target
            /\ \A i \in 2..(far + 1) : Result[i] = Tail(Way)[i - 1]
        BY <1>1, <2>1, <4>1, <4>3, NodeFacts
      <4>5. \A i \in 2..(far + 1) : i - 1 \in 1..far /\ (i - 1) + 1 = i BY <2>1
      <4>6. \A i \in 2..(far + 1) : Result[i] = Stands(Way[i])
        BY <2>5, <3>1, <4>3, <4>4, <4>5
      <4>7. Result[1] = Stands(Way[1]) BY <2>4, <4>2, <4>4 DEF Stands
      <4>8. \A i \in 1..(far + 1) : i = 1 \/ i \in 2..(far + 1) BY <2>1
      <4>9. QED BY <4>4, <4>6, <4>7, <4>8
    <3>3. CASE source # target
      <4>1. Result = Way BY <1>5, <3>3 DEF Result, far
      <4>2. Node = Vertex BY <3>3 DEF Node
      <4>3. QED BY <2>4, <3>1, <4>1, <4>2
    <3>4. QED BY <3>2, <3>3
  <2>7. Head(Result) = source /\ Last(Result) = target /\ Result # <<>>
    <3>1. Stands(path_source) = source /\ Stands(target) = target /\ target \in Vertex
      BY <1>1, NodeFacts DEF SearchTypeOK
    <3>2. 1 \in 1..(far + 1) /\ far + 1 \in 1..(far + 1) BY <2>1
    <3>3. Result[1] = source /\ Result[far + 1] = target BY <2>4, <2>6, <3>1, <3>2
    <3>4. Result # <<>> BY <2>1, <2>6
    <3>5. QED BY <2>6, <3>3, <3>4 DEF Last
  <2>8. ASSUME NEW i \in 1..far PROVE Result[i] \in dag[Result[i + 1]]
    <3>1. i \in 1..(far + 1) /\ i + 1 \in 1..(far + 1) BY <2>1
    <3>2. Way[i + 1] \in Vertex /\ Way[i] \in ReachedFrom(Way[i + 1]) BY <2>4
    <3>3. Stands(Way[i]) \in dag[Way[i + 1]] /\ Stands(Way[i + 1]) = Way[i + 1]
      BY <1>1, <3>2, NodeFacts
    <3>4. QED BY <2>6, <3>1, <3>3
  <2>9. far \in Lengths
    <3>1. Stands(path_source) \in FromTarget[far] /\ Stands(path_source) = source
      BY <1>1, <2>1, NodeFacts DEF WayBack, far
    <3>2. QED BY <2>1, <3>1 DEF Lengths, N, FromTarget
  <2>10. Len(Result) - 1 = far BY <2>1, <2>6
  <2>11. QED BY <1>3, <2>7, <2>8, <2>9, <2>10
<1>6. QED BY <1>4, <1>5

\* shortest_path returns a path, or a cycle, from the source to the target and
\* no longer than any other, and none only if there is none, on any graph.
THEOREM ResultIsShortestHolds == QueriesSpec => []ResultIsShortest
<1>1. QED BY SearchInitInv, SearchInvStep, ResultRight, PTL DEF QueriesSpec

=============================================================================
