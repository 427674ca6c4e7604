------------------------------ MODULE DagViews -------------------------------
(***************************************************************************)
(* The two methods of e3.collection.dag.DAG about what a vertex sees.      *)
(*                                                                         *)
(* get_context: the first tags on the branches that lead away from a       *)
(* vertex, with their distances, level by level.  With reverse_order it    *)
(* follows the successors, which is the same search on the reverse graph.  *)
(*                                                                         *)
(* prune: the graph without the vertices for which a function says so,     *)
(* where the predecessors of such a vertex take its place.                 *)
(***************************************************************************)
EXTENDS DagQuery, FiniteSetsExt

----------------------------------------------------------------------------
(* get_context.                                                            *)

CONSTANTS
  NoLimit,       \* None for the two limits below
  MaxDistances,  \* the values of max_distance
  MaxElements    \* the values of max_element

ASSUME ContextAssumption ==
  /\ MaxDistances \subseteq Nat \cup {NoLimit}
  /\ MaxElements \subseteq (Nat \ {0}) \cup {NoLimit}

VARIABLES
  vertex, max_distance, max_element,   \* the call
  closure, visited, tags, distance,    \* its local variables
  over

contextCall == <<queryVars, vertex, max_distance, max_element>>
contextVars == <<vertex, max_distance, max_element, closure, visited, tags, distance, over>>

ContextInit ==
  IF method = "get_context"
    THEN /\ vertex \in Vertex
         /\ max_distance \in MaxDistances
         /\ max_element \in MaxElements
         /\ closure = dag[vertex]
         /\ visited = {}
         /\ tags = IF vertex \in tagged THEN {<<0, vertex>>} ELSE {}
         /\ distance = 0
         /\ over = (vertex \in tagged)
    ELSE /\ vertex = Idle /\ max_distance = Idle /\ max_element = Idle
         /\ closure = Idle /\ visited = Idle /\ tags = Idle
         /\ distance = Idle /\ over = Idle

TooFar == max_distance # NoLimit /\ distance + 1 > max_distance

\* The vertices of the next level, and the tags there.
Level == closure \ visited
LevelTags == {<<distance + 1, n>> : n \in Level \cap tagged}

\* With the tags of this level there are enough.
Enough ==
  /\ max_element # NoLimit
  /\ LevelTags # {}
  /\ Cardinality(tags \cup LevelTags) >= max_element

\* Variant: the search goes on behind the tags.
OnwardsFromAll == UNION {dag[n] : n \in Level}

\* Only behind the vertices without tag does the search go on.
Onwards == UNION {dag[n] : n \in Level \ tagged}

DistanceReached ==
  /\ TooFar
  /\ over' = TRUE
  /\ distance' = distance + 1
  /\ UNCHANGED <<contextCall, closure, visited, tags>>

\* The search stops in the middle of a level; which tags of that level it has
\* found by then depends on the order of the set.
EnoughFound ==
  /\ ~TooFar
  /\ Enough
  /\ \E T \in kSubset(max_element - Cardinality(tags), LevelTags) : tags' = tags \cup T
  /\ over' = TRUE
  /\ distance' = distance + 1
  /\ UNCHANGED <<contextCall, closure, visited>>

\* A whole level; the search is over when it leads nowhere new.
NextLevel ==
  /\ ~TooFar
  /\ ~Enough
  /\ tags' = tags \cup LevelTags
  /\ closure' = closure \cup Onwards
  /\ visited' = closure
  /\ distance' = distance + 1
  /\ over' = (closure' = closure)
  /\ UNCHANGED contextCall

ContextNext ==
  /\ method = "get_context"
  /\ ~over
  /\ DistanceReached \/ EnoughFound \/ NextLevel

----------------------------------------------------------------------------
(* Properties.                                                             *)

\* The tags that should be found.
Expected ==
  {du \in Nearest(dag, tagged, vertex) : max_distance = NoLimit \/ du[1] <= max_distance}

\* The result has the first tag of each branch, once, with the length of the
\* shortest way to it and never one behind another tag; with max_element,
\* that many of the nearest ones, or all there are.
ContextExact ==
  method = "get_context" /\ over = TRUE =>
    /\ tags \subseteq Expected
    /\ \/ tags = Expected
       \/ max_element # NoLimit /\ Cardinality(tags) = max_element
    /\ \A near \in tags, far \in Expected \ tags : near[1] <= far[1]

----------------------------------------------------------------------------
(* prune.                                                                  *)

VARIABLES
  unwanted, preserve_context,   \* the call: fun is true on `unwanted'
  pruned_node_predecessors,
  kept, result,                 \* the vertices and the predecessors of the new graph
  failed                        \* DAGError

pruneCall == <<method, tagged, unwanted, preserve_context>>
pruneVars == <<unwanted, preserve_context, pruned_node_predecessors, kept, result, failed>>

NoEdge == [v \in Vertex |-> {}]

PruneInit ==
  IF method = "prune"
    THEN /\ unwanted \in SUBSET Vertex
         /\ preserve_context \in BOOLEAN
         /\ pruned_node_predecessors = NoEdge
         /\ kept = {}
         /\ result = NoEdge
         /\ failed = FALSE
    ELSE /\ unwanted = Idle /\ preserve_context = Idle
         /\ pruned_node_predecessors = Idle
         /\ kept = Idle /\ result = Idle /\ failed = Idle

\* Variant: a predecessor that is pruned is not replaced.
NewPredecessorsDirect(node) == dag[node] \cap kept

NewPredecessors(node) == UNION {pruned_node_predecessors[k] : k \in dag[node]}

\* Variant: tags do not matter.
PruneTagged(node) ==
  /\ NextVisited(node)
  /\ node \in unwanted
  /\ pruned_node_predecessors' =
       [pruned_node_predecessors EXCEPT ![node] = NewPredecessors(node)]
  /\ UNCHANGED <<pruneCall, kept, result, failed>>

Prune(node) ==
  /\ NextVisited(node)
  /\ node \in unwanted
  /\ ~(node \in tagged /\ preserve_context)
  /\ pruned_node_predecessors' =
       [pruned_node_predecessors EXCEPT ![node] = NewPredecessors(node)]
  /\ UNCHANGED <<pruneCall, kept, result, failed>>

Refuse(node) ==
  /\ NextVisited(node)
  /\ node \in unwanted
  /\ node \in tagged /\ preserve_context
  /\ failed' = TRUE
  /\ UNCHANGED <<pruneCall, pruned_node_predecessors, kept, result>>

Keep(node) ==
  /\ NextVisited(node)
  /\ node \notin unwanted
  /\ pruned_node_predecessors' = [pruned_node_predecessors EXCEPT ![node] = {node}]
  /\ kept' = kept \cup {node}
  /\ result' = [result EXCEPT ![node] = NewPredecessors(node)]
  /\ UNCHANGED <<pruneCall, failed>>

PruneNext ==
  /\ method = "prune"
  /\ ~failed
  /\ \E node \in Vertex : Prune(node) \/ Refuse(node) \/ Keep(node)

----------------------------------------------------------------------------
(* Properties.                                                             *)

\* The predecessors of a kept vertex are the kept vertices from which a way
\* leads to it over pruned ones only, in whatever topological order the
\* vertices came.
WaysKept ==
  method = "prune" => \A v \in kept :
    result[v] = {p \in Vertex \ unwanted :
                   \E d \in 1..Cardinality(Vertex) :
                     p \in Reached(dag, Vertex \ (unwanted \cup {v}), v)[d]}

Pruned == method = "prune" /\ Exhausted /\ ~failed

TagsSeen(g, v) == {du[2] : du \in Nearest(g, tagged, v)}

\* With preserve_context the tags that a vertex sees are the same ones before
\* and after: pruning brings no tag from behind another, and hides none.  Their
\* distances may be others (see ContextKept).
SameTagsSeen ==
  Pruned /\ preserve_context => \A v \in kept : TagsSeen(result, v) = TagsSeen(dag, v)

\* "preserve_context: if True ensure that context is preserved (i.e: that calls
\* to get_context will return the same value for both current graph and pruned
\* graph)" (dag.py:728-730).  This is not so: a vertex that is pruned between a
\* vertex and its tag brings the tag nearer.
ContextKept ==
  Pruned /\ preserve_context =>
    \A v \in kept : Nearest(result, tagged, v) = Nearest(dag, tagged, v)

\* What pruning keeps is connected as it was, and has the tags in view it had,
\* if not at the same distances.
PruneKeepsView == WaysKept /\ SameTagsSeen

=============================================================================
