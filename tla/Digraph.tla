------------------------------- MODULE Digraph -------------------------------
(***************************************************************************)
(* Directed graphs the way e3.collection.dag.DAG keeps them: for each      *)
(* vertex, the set of its predecessors.                                    *)
(***************************************************************************)
EXTENDS Integers, FiniteSets

CONSTANT Vertex   \* the vertex ids

ASSUME VertexAssumption == IsFiniteSet(Vertex)

\* Every non-empty set of vertices has a member without predecessor in it.
\* On a finite graph this says that there is no cycle.
AcyclicOn(g, S) ==
  \A T \in (SUBSET S) \ {{}} : \E v \in T : g[v] \cap T = {}

Acyclic(g) == AcyclicOn(g, Vertex)

\* The ancestors of v: what is in every set that holds the predecessors of
\* v and, with a vertex, its predecessors.
Ancestors(g, v) ==
  {a \in Vertex : \A S \in SUBSET Vertex :
     g[v] \cup UNION {g[s] : s \in S} \subseteq S => a \in S}

\* Reached(g, stops, v)[d]: where the paths of d edges lead that start at v,
\* follow the predecessors and go no further than a vertex of stops.
Reached(g, stops, v) ==
  LET at[d \in 0..Cardinality(Vertex)] ==
        IF d = 0 THEN {v} ELSE UNION {g[u] : u \in at[d - 1] \ stops}
  IN at

\* The members of stops that such paths reach, with their distances.
Nearest(g, stops, v) ==
  LET at == Reached(g, stops, v)
  IN {du \in (0..Cardinality(Vertex)) \X stops :
        /\ du[2] \in at[du[1]]
        /\ \A e \in 0..(du[1] - 1) : du[2] \notin at[e]}

=============================================================================
