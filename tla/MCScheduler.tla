---------------------------- MODULE MCScheduler ----------------------------
(***************************************************************************)
(* Small instances of graphs and of what runs them, in one run: a          *)
(* behaviour is a behaviour of one module, its part.                       *)
(*                                                                         *)
(*   "dag"        Dag: three vertices, two graphs to merge                 *)
(*   "scheduler"  Scheduler: three jobs with distinct needs                *)
(***************************************************************************)
EXTENDS Scheduler, Dag

CONSTANTS Parts, j1, j2, j3

MCVertex == {j1, j2, j3}

AllGraphs == [Vertex -> SUBSET Vertex]

\* The edges another graph may bring: one that fits most graphs, one that is
\* a cycle by itself, one whose predecessor is missing but for the merge.
MCMerged ==
  {[v \in MCVertex |-> IF v = j3 THEN {j1} ELSE {}],
   [v \in MCVertex |-> CASE v = j1 -> {j2} [] v = j2 -> {j1} [] v = j3 -> {}]}

\* Two queues: j1 takes all of the first one, in which j2 goes first; j3 is
\* in the second one.
TwoQueues == [j \in Vertex |-> IF j = j3 THEN 2 ELSE 1]
TwoQueueTokens == <<2, 1>>
J1Big == [j \in Vertex |-> IF j = j1 THEN 2 ELSE 1]
J2First == [j \in Vertex |-> IF j = j2 THEN 1 ELSE 0]

----------------------------------------------------------------------------

VARIABLE part

allVars == <<vars, dagVars, part>>

\* In part "dag" the scheduler has a graph it can do nothing with.
GraphsInit ==
  /\ part \in Parts
  /\ SchedInit /\ (part = "scheduler" \/ dag = [v \in Vertex |-> Vertex])
  /\ DagInit

GraphsNext ==
  \/ part = "dag" /\ DagNext /\ UNCHANGED <<vars, part>>
  \/ part = "scheduler" /\ SchedNext /\ UNCHANGED <<dagVars, part>>

\* Scheduler's fairness in its part; nothing need be done to a graph.
GraphsFairness ==
  /\ WF_vars(part = "scheduler" /\ MainStep)
  /\ \A j \in Vertex :
        WF_vars(part = "scheduler" /\ JobEnd(j) /\ (j \in Hanging => interrupted[j]))

GraphsSpec == GraphsInit /\ [][GraphsNext]_allVars /\ GraphsFairness

=============================================================================
