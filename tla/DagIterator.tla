---------------------------- MODULE DagIterator ----------------------------
(***************************************************************************)
(* e3.collection.dag.DAGIterator: the traversal of a graph in topological  *)
(* order, by in-degree counting.                                           *)
(*                                                                         *)
(* The iterator has two modes.  In the plain one (used by DAG.check and by *)
(* iteration over a DAG) a vertex is VISITED as soon as it is returned.    *)
(* With enable_busy_state (used by the job scheduler) a returned vertex is *)
(* BUSY until leave() is called for it, and several vertices can be BUSY   *)
(* at the same time.                                                       *)
(*                                                                         *)
(* The graph is a variable because one object iterates over the graph it   *)
(* was given; it never changes during an iteration.                        *)
(***************************************************************************)
EXTENDS Digraph, Integers, FiniteSets

CONSTANT Graphs   \* the graphs that can be iterated over, by their predecessors

\* The vertices are self.dag.vertex_data.keys().  A predecessor is always one
\* of them: DAG.check refuses any other graph before it iterates.
ASSUME GraphsAssumption == Graphs \subseteq [Vertex -> SUBSET Vertex]

NOT_VISITED == 0
BUSY == 1
VISITED == 2

VARIABLES
  dag,          \* dag[v]: the predecessors of v
  non_visited,  \* vertices not returned yet
  states,       \* NOT_VISITED, BUSY or VISITED, per vertex
  pred_number   \* number of predecessors not VISITED, per vertex

iterVars == <<dag, non_visited, states, pred_number>>

----------------------------------------------------------------------------
(* The iterator.                                                           *)

IterInit ==
  /\ dag \in Graphs
  /\ non_visited = Vertex
  /\ states = [v \in Vertex |-> NOT_VISITED]
  /\ pred_number = [v \in Vertex |-> Cardinality(dag[v])]

\* next_element returns one of these; which one is the choice of the hash
\* table behind the set.
Ready == {v \in non_visited : pred_number[v] = 0}

\* Variant: the counters of the successors are left alone.
MarkVisitedUncounted(v) ==
  /\ states' = [states EXCEPT ![v] = VISITED]
  /\ UNCHANGED pred_number

\* v becomes VISITED: its successors wait for one predecessor less.
MarkVisited(v) ==
  /\ states' = [states EXCEPT ![v] = VISITED]
  /\ pred_number' =
       [w \in Vertex |-> pred_number[w] - (IF v \in dag[w] THEN 1 ELSE 0)]

\* next_element() returns v, enable_busy_state = False.
NextVisited(v) ==
  /\ v \in Ready
  /\ non_visited' = non_visited \ {v}
  /\ MarkVisited(v)
  /\ UNCHANGED dag

\* next_element() returns v, enable_busy_state = True.
NextBusy(v) ==
  /\ v \in Ready
  /\ non_visited' = non_visited \ {v}
  /\ states' = [states EXCEPT ![v] = BUSY]
  /\ UNCHANGED <<dag, pred_number>>

\* leave(v).  The assertion of the code is the guard.
Leave(v) ==
  /\ states[v] = BUSY
  /\ MarkVisited(v)
  /\ UNCHANGED <<dag, non_visited>>

\* The two ways for next_element to return no vertex.
Exhausted == non_visited = {}                     \* raise StopIteration
NoneReady == non_visited # {} /\ Ready = {}

\* Without the busy state the iterator takes NoneReady for a cycle.
CycleDetected == NoneReady /\ \A v \in Vertex : states[v] # BUSY

PlainNext == \E v \in Vertex : NextVisited(v)
BusyNext == \E v \in Vertex : NextBusy(v) \/ Leave(v)

PlainSpec == IterInit /\ [][PlainNext]_iterVars
BusySpec == IterInit /\ [][BusyNext]_iterVars

----------------------------------------------------------------------------
(* Properties.                                                             *)

IterTypeOK ==
  /\ dag \in [Vertex -> SUBSET Vertex]
  /\ non_visited \subseteq Vertex
  /\ states \in [Vertex -> {NOT_VISITED, BUSY, VISITED}]
  /\ pred_number \in [Vertex -> Nat]

\* The counters computed once in __init__ and decremented ever since agree
\* with the states: pred_number[v] is the number of predecessors of v that
\* are not VISITED (so it is never negative, and 0 means that v may start).
CountsExact ==
  \A v \in Vertex :
    pred_number[v] = Cardinality({p \in dag[v] : states[p] # VISITED})

\* A vertex is returned only after next_element or leave() has made all of
\* its predecessors VISITED: what "topological order" promises.
TopologicalOrder ==
  \A v \in Vertex : states[v] # NOT_VISITED =>
    \A p \in dag[v] : states[p] = VISITED

\* The iteration raises "cycle detected" only on a graph that has a cycle,
\* and returns every vertex only of a graph that has none: DAG.check relies
\* on both directions.
CycleVerdictExact ==
  /\ CycleDetected => ~Acyclic(dag)
  /\ Exhausted => Acyclic(dag)

\* When a cycle is detected one of the remaining vertices is its own
\* ancestor, so that the search for a minimal cycle succeeds and the
\* fallback message "cycle detected (unknown error)" is never used.
CycleFound ==
  CycleDetected => \E v \in non_visited : v \in Ancestors(dag, v)

\* The diagnosis of cycles is right, and has a cycle to show.
CycleDiagnosed == CycleVerdictExact /\ CycleFound

\* On an acyclic graph the iteration with busy states is never stuck: as long
\* as vertices remain, one is ready or a BUSY one can still be left.
NeverStuck ==
  Acyclic(dag) /\ NoneReady => \E v \in Vertex : states[v] = BUSY

=============================================================================
