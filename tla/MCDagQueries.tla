---------------------------- MODULE MCDagQueries ----------------------------
(***************************************************************************)
(* One call of any of the methods of DagQuery, on graphs of four vertices. *)
(*                                                                         *)
(* Iteration: every graph.  shortest_path: up to two predecessors for each *)
(* vertex, cycles and loops included; this set of graphs is closed under   *)
(* permutations of the vertices, so that one source is enough, and one     *)
(* target other than the source.  get_context and prune: the graphs where  *)
(* the predecessors of a vertex are smaller; every acyclic graph is one of *)
(* them, but for the names of its vertices.                                *)
(***************************************************************************)
EXTENDS ShortestPath, DagViews

MCVertex == 1..4
AllGraphs == [MCVertex -> SUBSET MCVertex]
SmallGraphs == [MCVertex -> {P \in SUBSET MCVertex : Cardinality(P) <= 2}]
OrderedGraphs == {g \in AllGraphs : \A v \in MCVertex : g[v] \subseteq 1..(v - 1)}

MCGraphsOf ==
  [m \in Method |-> CASE m = "iterate" -> AllGraphs
                      [] m = "shortest_path" -> SmallGraphs
                      [] OTHER -> OrderedGraphs]

Limits == {1, 2, NoLimit}

----------------------------------------------------------------------------

vars == <<queryVars, searchVars, contextVars, pruneVars>>

QueriesInit == QueryInit /\ SearchInit /\ ContextInit /\ PruneInit

QueriesNext ==
  \/ Iterate /\ UNCHANGED <<searchVars, contextVars, pruneVars>>
  \/ SearchNext /\ UNCHANGED <<contextVars, pruneVars>>
  \/ ContextNext /\ UNCHANGED <<searchVars, pruneVars>>
  \/ PruneNext /\ UNCHANGED <<searchVars, contextVars>>

QueriesSpec == QueriesInit /\ [][QueriesNext]_vars

=============================================================================
