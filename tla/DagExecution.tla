---------------------------- MODULE DagExecution ----------------------------
(***************************************************************************)
(* What e3.job.scheduler.Scheduler promises to the owner of a DAG of jobs, *)
(* without queues, slots, messages or threads: a job runs when all of its  *)
(* predecessors are done and when its queue has enough tokens left; it may *)
(* have to run again; and it ends up done.                                 *)
(*                                                                         *)
(* Scheduler implements this specification (Scheduler!Implements).         *)
(***************************************************************************)
EXTENDS Integers, FiniteSets

CONSTANTS
  Vertex,       \* the jobs
  NumQueues,    \* the queues are 1..NumQueues
  JobQueue,     \* the queue a job is pushed to
  JobTokens,    \* the tokens a job takes while it runs
  QueueTokens   \* the tokens of each queue

VARIABLES
  dag,      \* dag[j]: the predecessors of j
  status    \* "waiting", "running" or "done", per job

execVars == <<dag, status>>

\* The tokens of queue q in use when the jobs of S run: a job takes
\* JobTokens[j] of them.
TokensOf(S, q) == UNION {{j} \X (1..JobTokens[j]) : j \in {i \in S : JobQueue[i] = q}}

UsedTokens(S, q) == Cardinality(TokensOf(S, q))

Running == {j \in Vertex : status[j] = "running"}

ExecInit ==
  /\ dag \in [Vertex -> SUBSET Vertex]
  /\ status = [j \in Vertex |-> "waiting"]

\* Every predecessor of j is done.
Runnable(j) ==
  /\ status[j] = "waiting"
  /\ \A p \in dag[j] : status[p] = "done"

\* j starts to run.
Begin(j) ==
  /\ Runnable(j)
  /\ UsedTokens(Running \cup {j}, JobQueue[j]) <= QueueTokens[JobQueue[j]]
  /\ status' = [status EXCEPT ![j] = "running"]
  /\ UNCHANGED dag

\* j is done without running.
SkipJob(j) ==
  /\ Runnable(j)
  /\ status' = [status EXCEPT ![j] = "done"]
  /\ UNCHANGED dag

\* A run of j ends: for good, or to start again later.
Complete(j) ==
  /\ status[j] = "running"
  /\ \E s \in {"done", "waiting"} : status' = [status EXCEPT ![j] = s]
  /\ UNCHANGED dag

ExecNext == \E j \in Vertex : Begin(j) \/ SkipJob(j) \/ Complete(j)

ExecSpec == ExecInit /\ [][ExecNext]_execVars

=============================================================================
