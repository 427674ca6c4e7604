------------------------------ MODULE DagQuery ------------------------------
(***************************************************************************)
(* A call of one of the methods of e3.collection.dag.DAG that look at the  *)
(* whole graph: the iteration over it, which check() does as well,         *)
(* shortest_path, get_context or prune.  The graph does not change while   *)
(* the method runs.                                                        *)
(*                                                                         *)
(* ShortestPath and DagViews extend this module, by the local variables of *)
(* each method; MCDagQueries puts them together.                           *)
(***************************************************************************)
EXTENDS DagIterator

CONSTANTS
  GraphsOf,   \* for each method, the graphs it is called on
  Idle        \* the value of the variables of the methods not called

Method == {"iterate", "shortest_path", "get_context", "prune"}

\* get_context and prune iterate over the graph before they do anything, and
\* so raise DAGError if there is a cycle.
ASSUME GraphsOfAssumption ==
  /\ DOMAIN GraphsOf = Method
  /\ \A m \in Method : GraphsOf[m] \subseteq Graphs
  /\ \A m \in {"get_context", "prune"} : \A g \in GraphsOf[m] : Acyclic(g)

VARIABLES
  method,   \* the method called
  tagged    \* the vertices that have a tag

queryVars == <<iterVars, method, tagged>>

QueryInit ==
  /\ method \in Method
  /\ dag \in GraphsOf[method]
  /\ IterInit
  /\ tagged \in IF method \in {"get_context", "prune"} THEN SUBSET Vertex ELSE {{}}

\* for vertex_id, data in dag
Iterate ==
  /\ method = "iterate"
  /\ PlainNext
  /\ UNCHANGED <<method, tagged>>

=============================================================================
