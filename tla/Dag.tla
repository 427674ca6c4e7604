--------------------------------- MODULE Dag ---------------------------------
(***************************************************************************)
(* e3.collection.dag.DAG: a graph that is built one vertex at a time, with *)
(* or without checks, and what the object remembers between two calls: the *)
(* successors, the verdict of the last check and the topological order it  *)
(* found.  All three go stale as soon as an edge is added.                 *)
(*                                                                         *)
(* The iteration check() makes is DagIterator's; here it is one step with  *)
(* the result that module shows it to have.  Vertex data other than the    *)
(* presence of a vertex, and tags, are left out.                           *)
(***************************************************************************)
EXTENDS Digraph, Sequences, SequencesExt

CONSTANTS
  Merged,        \* the graphs an other DAG may hold when it is merged
  ReverseOpen    \* reverse_graph is called on a graph with missing vertices

ASSUME DagAssumption ==
  /\ Merged \subseteq [Vertex -> SUBSET Vertex]
  /\ ReverseOpen \in BOOLEAN

VARIABLES
  vertex_data,     \* the vertices that were added
  predecessors,    \* __vertex_predecessors; {} is get()'s default
  successors,      \* __vertex_successors, a function on some vertices
  has_cycle,       \* __has_cycle: "unknown", "no" or "yes"
  cached_order,    \* {s} when __cached_topological_order is s, {} for None
  outcome          \* how the last call ended; "checked" for a checked update

graph == <<vertex_data, predecessors>>
caches == <<successors, has_cycle, cached_order>>
dagVars == <<graph, caches, outcome>>

NoSuccessors == <<>>
NoPredecessors == [v \in Vertex |-> {}]

DagInit ==
  /\ vertex_data = {}
  /\ predecessors = NoPredecessors
  /\ successors = NoSuccessors
  /\ has_cycle = "unknown"
  /\ cached_order = {}
  /\ outcome = "ok"

----------------------------------------------------------------------------
(* Graphs with some of the vertices.                                       *)

\* Every predecessor has been added.
Closed(V, g) == \A v \in V : g[v] \subseteq V

ValidGraph(V, g) == Closed(V, g) /\ AcyclicOn(g, V)
Valid == ValidGraph(vertex_data, predecessors)

SuccessorsOf(V, g) == [p \in V |-> {v \in V : p \in g[v]}]

\* The orders in which an iteration over a valid graph may return V.
TopologicalOrders(V, g) ==
  {s \in SetToSeqs(V) : \A i \in DOMAIN s : \A p \in g[s[i]] : \E j \in 1..(i - 1) : s[j] = p}

----------------------------------------------------------------------------
(* Caches.                                                                 *)

\* Variants of SetPredecessors: one of the caches is kept.
SetPredecessorsKeepsVerdict(v, P) ==
  /\ predecessors' = [predecessors EXCEPT ![v] = P]
  /\ successors' = NoSuccessors
  /\ cached_order' = {}
  /\ UNCHANGED has_cycle
SetPredecessorsKeepsSuccessors(v, P) ==
  /\ predecessors' = [predecessors EXCEPT ![v] = P]
  /\ has_cycle' = "unknown"
  /\ cached_order' = {}
  /\ UNCHANGED successors

\* set_predecessors, with reset_caches
SetPredecessors(v, P) ==
  /\ predecessors' = [predecessors EXCEPT ![v] = P]
  /\ successors' = NoSuccessors
  /\ has_cycle' = "unknown"
  /\ cached_order' = {}

\* The successors after a call of get_successors; nothing is stored when it
\* meets a predecessor that is not there (KeyError).
Filled(V, g, known) ==
  IF known = NoSuccessors /\ Closed(V, g) THEN SuccessorsOf(V, g) ELSE known

\* What check() may make of the caches c of a graph.  An iteration that
\* returns a vertex calls get_successors.
Checked(V, g, c) ==
  IF c.has_cycle # "unknown" THEN {c}
  ELSE IF ~Closed(V, g) THEN {[c EXCEPT !.has_cycle = "yes"]}
  ELSE LET filled == IF \E v \in V : g[v] = {}
                       THEN Filled(V, g, c.successors) ELSE c.successors
       IN IF AcyclicOn(g, V)
            THEN {[successors |-> filled, has_cycle |-> "no", cached_order |-> {s}] :
                    s \in TopologicalOrders(V, g)}
            ELSE {[c EXCEPT !.has_cycle = "yes", !.successors = filled]}

Caches == [successors |-> successors, has_cycle |-> has_cycle, cached_order |-> cached_order]

SetCaches(c) ==
  /\ successors' = c.successors
  /\ has_cycle' = c.has_cycle
  /\ cached_order' = c.cached_order

\* check() raises DAGError when it leaves this verdict.
Raises(c) == c.has_cycle = "yes"

CheckPasses == \E c \in Checked(vertex_data, predecessors, Caches) : ~Raises(c)

----------------------------------------------------------------------------
(* Operations.                                                             *)

\* check(), which get_context starts with.
Check ==
  /\ \E c \in Checked(vertex_data, predecessors, Caches) :
       /\ SetCaches(c)
       /\ outcome' = IF Raises(c) THEN "DAGError" ELSE "ok"
  /\ UNCHANGED graph

\* get_successors(), also called by an iteration that finds no cached order.
GetSuccessors ==
  /\ successors' = Filled(vertex_data, predecessors, successors)
  /\ outcome' = IF successors = NoSuccessors /\ ~Closed(vertex_data, predecessors)
                  THEN "KeyError" ELSE "ok"
  /\ UNCHANGED <<graph, has_cycle, cached_order>>

\* add_vertex() of a vertex that is there.
AddExisting(v) ==
  /\ v \in vertex_data
  /\ outcome' = "DAGError"
  /\ UNCHANGED <<graph, caches>>

\* A checked update starts with check(), and stops if the graph is already
\* invalid or a predecessor does not exist.
UpdateRefused(v, P) ==
  /\ \E c \in Checked(vertex_data, predecessors, Caches) :
       /\ Raises(c) \/ ~(P \subseteq vertex_data)
       /\ SetCaches(c)
  /\ outcome' = "DAGError"
  /\ UNCHANGED graph

\* v is new.  Nothing can depend on it yet if the graph is valid.
UpdateAdds(v, P, enable_checks) ==
  /\ v \notin vertex_data
  /\ enable_checks => CheckPasses /\ P \subseteq vertex_data
  /\ vertex_data' = vertex_data \cup {v}
  /\ SetPredecessors(v, P)
  /\ outcome' = IF enable_checks THEN "checked" ELSE "ok"

\* Variant: only the direct predecessors are looked at.
ClosureWithDirect(v, P) == predecessors[v] \cup P

\* get_closure(v) of the graph with the new predecessors of v.
ClosureWith(v, P) ==
  Ancestors([predecessors EXCEPT ![v] = @ \cup P], v)

\* v gets more predecessors.
UpdateExtends(v, P, enable_checks) ==
  /\ v \in vertex_data
  /\ enable_checks => /\ CheckPasses
                      /\ P \subseteq vertex_data
                      /\ v \notin ClosureWith(v, P)
  /\ SetPredecessors(v, predecessors[v] \cup P)
  /\ outcome' = IF enable_checks THEN "checked" ELSE "ok"
  /\ UNCHANGED vertex_data

\* Variant: the new predecessors stay.
UpdateMakesCycleAndStays(v, P) ==
  /\ v \in vertex_data
  /\ CheckPasses /\ P \subseteq vertex_data
  /\ v \in ClosureWith(v, P)
  /\ SetPredecessors(v, predecessors[v] \cup P)
  /\ outcome' = "DAGError"
  /\ UNCHANGED vertex_data

\* The former predecessors of v are put back.
UpdateMakesCycle(v, P) ==
  /\ v \in vertex_data
  /\ CheckPasses /\ P \subseteq vertex_data
  /\ v \in ClosureWith(v, P)
  /\ SetPredecessors(v, predecessors[v])
  /\ outcome' = "DAGError"
  /\ UNCHANGED vertex_data

\* update_vertex and, for a new vertex, add_vertex
UpdateVertex(v, P, enable_checks) ==
  \/ enable_checks /\ UpdateRefused(v, P)
  \/ UpdateAdds(v, P, enable_checks)
  \/ UpdateExtends(v, P, enable_checks)
  \/ enable_checks /\ UpdateMakesCycle(v, P)

\* The graph and the caches of a reversed graph before it is checked.
ReversedVertices == vertex_data \cup UNION {predecessors[v] : v \in vertex_data}
ReversedEdges == [p \in Vertex |-> {v \in vertex_data : p \in predecessors[v]}]
ReversedCaches ==
  [successors |-> NoSuccessors, has_cycle |-> has_cycle,
   cached_order |-> {Reverse(s) : s \in cached_order}]

\* reverse_graph(): the caller goes on with the result, or with the graph.
ReverseGraph(enable_checks) ==
  /\ ReverseOpen \/ Closed(vertex_data, predecessors)
  /\ \E c \in IF enable_checks
                THEN Checked(ReversedVertices, ReversedEdges, ReversedCaches)
                ELSE {ReversedCaches} :
       \/ /\ has_cycle' = IF enable_checks THEN c.has_cycle ELSE has_cycle
          /\ outcome' = IF enable_checks /\ Raises(c) THEN "DAGError" ELSE "ok"
          /\ UNCHANGED <<graph, successors, cached_order>>
       \/ /\ ~(enable_checks /\ Raises(c))
          /\ vertex_data' = ReversedVertices
          /\ predecessors' = ReversedEdges
          /\ SetCaches(c)
          /\ outcome' = "ok"

\* __or__: the union, in a new graph and checked, is what the caller goes on
\* with if it is valid.
Merge(g) ==
  LET V == vertex_data \cup {v \in Vertex : g[v] # {}}
      union == [v \in Vertex |-> predecessors[v] \cup g[v]]
  IN IF ValidGraph(V, union)
       THEN /\ vertex_data' = V
            /\ predecessors' = union
            /\ \E c \in Checked(V, union, [successors |-> NoSuccessors,
                                           has_cycle |-> "unknown",
                                           cached_order |-> {}]) : SetCaches(c)
            /\ outcome' = "checked"
       ELSE outcome' = "DAGError" /\ UNCHANGED <<graph, caches>>

DagNext ==
  \/ Check
  \/ GetSuccessors
  \/ \E v \in Vertex : AddExisting(v)
  \/ \E v \in Vertex, P \in SUBSET Vertex, enable_checks \in BOOLEAN :
       UpdateVertex(v, P, enable_checks)
  \/ \E enable_checks \in BOOLEAN : ReverseGraph(enable_checks)
  \/ \E g \in Merged : Merge(g)

DagSpec == DagInit /\ [][DagNext]_dagVars

----------------------------------------------------------------------------
(* Properties.                                                             *)

DagTypeOK ==
  /\ vertex_data \subseteq Vertex
  /\ predecessors \in [Vertex -> SUBSET Vertex]
  /\ \A v \in Vertex \ vertex_data : predecessors[v] = {}
  /\ successors = NoSuccessors \/ successors \in [vertex_data -> SUBSET vertex_data]
  /\ has_cycle \in {"unknown", "no", "yes"}
  /\ \A s \in cached_order : cached_order = {s} /\ s \in SetToSeqs(vertex_data)

\* The verdict of the last check, believed without a look at the graph by the
\* checks that follow, is still right: no edge was added since then, by no
\* sequence of checked, unchecked, refused and undone updates.
VerdictExact ==
  /\ has_cycle = "no" => Valid
  /\ has_cycle = "yes" => ~Valid

\* The order that an iteration returns without a look at the graph has each
\* vertex once, after its predecessors, also in a graph that was reversed.
OrderExact ==
  \A s \in cached_order : s \in TopologicalOrders(vertex_data, predecessors)

\* The successors that are remembered are the inverse of the predecessors.
SuccessorsExact ==
  successors # NoSuccessors => successors = SuccessorsOf(vertex_data, predecessors)

\* No cache is stale.
CachesExact == VerdictExact /\ OrderExact /\ SuccessorsExact

\* After a checked update that was accepted the graph is valid, although only
\* the ancestors of one vertex were looked at after the change.
CheckedMeansValid == outcome = "checked" => Valid

\* Whatever the calls before, no cache and no checked update misleads.
CachesSound == CachesExact /\ CheckedMeansValid

\* A call that raises leaves the graph as it was.
RefusalChangesNothing ==
  [][outcome' \in {"DAGError", "KeyError"} => UNCHANGED graph]_dagVars

\* A checked update is refused for a reason: the graph is invalid, or would be.
NoFalseRefusal ==
  [][\A v \in Vertex, P \in SUBSET Vertex :
       UpdateVertex(v, P, TRUE) /\ outcome' = "DAGError" =>
         \/ ~Valid
         \/ ~ValidGraph(vertex_data \cup {v}, [predecessors EXCEPT ![v] = @ \cup P])]_dagVars

\* An update that is refused changes nothing, and is refused for a reason.
RefusalsRight == RefusalChangesNothing /\ NoFalseRefusal

=============================================================================
