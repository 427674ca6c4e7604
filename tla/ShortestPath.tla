---------------------------- MODULE ShortestPath ----------------------------
(***************************************************************************)
(* e3.collection.dag.DAG.shortest_path: Dijkstra's algorithm from target   *)
(* to source along the predecessors, on any graph.  It is what names the   *)
(* cycle when an update or an iteration is refused: then source and target *)
(* are the same vertex, and a fake node stands for it as the source.       *)
(***************************************************************************)
EXTENDS DagQuery, SequencesExt

CONSTANTS
  Source,   \* the vertices a path is searched from
  Target,   \* the vertices it should lead to
  Fake      \* the fake node, None in the code

ASSUME ShortestPathAssumption ==
  /\ Source \subseteq Vertex /\ Target \subseteq Vertex
  /\ Fake \notin Vertex

VARIABLES source, target, dist, prev, unvisited, found

searchVars == <<source, target, dist, prev, unvisited, found>>

\* Variant: the fake node is not counted.
infiniteLess == Cardinality(Vertex)

infinite == Cardinality(Vertex) + 1

\* The node the search ends at.
path_source == IF source = target THEN Fake ELSE source

Node == IF source = target THEN Vertex \cup {Fake} ELSE Vertex

SearchInit ==
  IF method = "shortest_path"
    THEN /\ source \in Source
         /\ target \in Target
         /\ dist = [n \in Node |-> IF n = target THEN 0 ELSE infinite]
         /\ prev = [n \in Node |-> Fake]
         /\ unvisited = Node
         /\ found = FALSE
    ELSE /\ source = Idle /\ target = Idle /\ dist = Idle
         /\ prev = Idle /\ unvisited = Idle /\ found = Idle

\* min(unvisited, key=dist); which one is the choice of the hash table.
Closest == {u \in unvisited : \A w \in unvisited : dist[u] <= dist[w]}

\* The predecessors of u, the fake node for the source of a cycle.
ReachedFrom(u) ==
  {IF source = target /\ p = target THEN Fake ELSE p : p \in dag[u]}

\* The nodes to which the way over u is shorter; there is no need to look
\* further than the path source.
Closer(u) ==
  IF u = path_source THEN {} ELSE {n \in ReachedFrom(u) : dist[u] + 1 < dist[n]}

\* One turn of the loop: the search is over when the path source is the
\* closest node that is left.
Visit(u) ==
  /\ u \in Closest
  /\ unvisited' = unvisited \ {u}
  /\ found' = (u = path_source)
  /\ dist' = [n \in Node |-> IF n \in Closer(u) THEN dist[u] + 1 ELSE dist[n]]
  /\ prev' = [n \in Node |-> IF n \in Closer(u) THEN u ELSE prev[n]]
  /\ UNCHANGED <<queryVars, source, target>>

SearchNext ==
  /\ method = "shortest_path"
  /\ ~found
  /\ \E u \in Node : Visit(u)

\* The nodes on the way from n, as prev tells.
Way ==
  LET from[n \in Node] == IF prev[n] = Fake THEN <<n>> ELSE <<n>> \o from[prev[n]]
  IN from[path_source]

\* What the function returns; no path is <<>>.
Result ==
  IF dist[path_source] = infinite THEN <<>>
  ELSE IF source = target THEN <<target>> \o Tail(Way) ELSE Way

----------------------------------------------------------------------------
(* Properties.                                                             *)

\* The numbers of edges of the paths, or of the cycles, there are.
Lengths ==
  {d \in 1..Cardinality(Vertex) : source \in Reached(dag, {}, target)[d]}

\* The result goes from the source to the target, each vertex is a
\* predecessor of the next one, and no path is shorter; there is no result if
\* and only if there is no path.  For source = target, a cycle through it,
\* never the empty path.
ResultIsShortest ==
  method = "shortest_path" /\ found = TRUE =>
    IF Result = <<>> THEN Lengths = {}
    ELSE /\ Head(Result) = source
         /\ Last(Result) = target
         /\ \A i \in 1..(Len(Result) - 1) : Result[i] \in dag[Result[i + 1]]
         /\ Len(Result) - 1 \in Lengths
         /\ \A d \in Lengths : Len(Result) - 1 <= d

=============================================================================
