------------------------------ MODULE Scheduler ------------------------------
(***************************************************************************)
(* e3.job.scheduler.Scheduler: the parallel execution of a DAG of jobs.    *)
(*                                                                         *)
(* Scheduler.run is a loop of the calling thread: push the ready jobs into *)
(* the queues, launch those that have their tokens, wait for the end of    *)
(* one active job.  Each job runs in a thread of its own that does one     *)
(* thing to the scheduler: it puts the uid of the job in message_queue.    *)
(* A Ctrl-C can hit the calling thread between any two of its steps.       *)
(*                                                                         *)
(* pc is the place of the calling thread:                                  *)
(*   "test"        the loop test, is_finished                              *)
(*   "enqueue"     enqueue()                                               *)
(*   "launch"      launch(), between two iterations of its inner loop      *)
(*   "started"     launch(), `current' runs but is not accounted for       *)
(*   "wait"        wait(), in message_queue.get                            *)
(*   "collect"     wait(), `current' has ended                             *)
(*   "finish"      wait(), `current' has been collected                    *)
(*   "interrupt"   the KeyboardInterrupt handler of run()                  *)
(*   "finished"    run() has returned                                      *)
(*   "interrupted" run() has raised KeyboardInterrupt                      *)
(***************************************************************************)
EXTENDS DagIterator, SequencesExt

CONSTANTS
  NumQueues,      \* the queues are 1..NumQueues, in the order of the dict
  JobQueue,       \* job.queue_name
  JobTokens,      \* job.tokens
  JobPriority,    \* job.priority
  QueueTokens,    \* the `queues' parameter: max number of tokens per queue
  Skippable,      \* the jobs that job_provider may return with should_skip
  Hanging,        \* the jobs that may not end unless interrupted
  MaxRequeue,     \* bound: how often collect asks to requeue a job
  AllowInterrupt, \* bound: TRUE iff one KeyboardInterrupt is possible
  NoJob           \* the value of `current' before the first job

Queue == 1..NumQueues

ASSUME SchedulerAssumption ==
  /\ NumQueues \in Nat
  /\ JobQueue \in [Vertex -> Queue]
  /\ JobTokens \in [Vertex -> Nat \ {0}]
  /\ JobPriority \in [Vertex -> Int]
  /\ QueueTokens \in [Queue -> Nat]
  /\ Skippable \subseteq Vertex
  /\ Hanging \subseteq Vertex
  /\ MaxRequeue \in Nat
  /\ AllowInterrupt \in BOOLEAN
  /\ NoJob \notin Vertex

VARIABLES
  pc,
  all_jobs_queued,
  queues,           \* per queue, the jobs in the order heappop returns them
  queued_jobs,      \* the number of jobs in the queues
  tokens,           \* per queue, the tokens left
  slots,            \* the free slot numbers, a stack
  active_jobs,      \* the launched jobs, oldest first
  message_queue,    \* the uids of the jobs whose thread has ended
  current,          \* next_job in launch(), job in wait()
  collect_result,   \* the local variable of wait()
  handled,          \* how many active jobs the interrupt handler has seen
  slot,             \* job.slot
  thread,           \* the thread of a job: "none", "running" or "ended"
  interrupted,      \* job.interrupted
  collected         \* how often collect has been called for a job

queueVars == <<queues, queued_jobs>>
resourceVars == <<tokens, slots>>
jobVars == <<slot, thread, interrupted>>
localVars == <<current, collect_result, handled>>
vars == <<iterVars, pc, all_jobs_queued, queueVars, resourceVars, active_jobs,
          message_queue, localVars, jobVars, collected>>

\* The tokens of the queues, one by one.
AllTokens == UNION {{q} \X (1..QueueTokens[q]) : q \in Queue}

\* self.n_tokens
NumTokens == Cardinality(AllTokens)

----------------------------------------------------------------------------
(* __init__ and init_state.                                                *)

SchedInit ==
  /\ IterInit
  /\ pc = "test"
  /\ all_jobs_queued = FALSE
  /\ queues = [q \in Queue |-> <<>>]
  /\ queued_jobs = 0
  /\ tokens = QueueTokens
  /\ slots = [i \in 1..NumTokens |-> i - 1]
  /\ active_jobs = <<>>
  /\ message_queue = <<>>
  /\ current = NoJob
  /\ collect_result = FALSE
  /\ handled = 0
  /\ slot = [j \in Vertex |-> 1]
  /\ thread = [j \in Vertex |-> "none"]
  /\ interrupted = [j \in Vertex |-> FALSE]
  /\ collected = [j \in Vertex |-> 0]

\* self.collect(job).
Collected(j) == collected' = [collected EXCEPT ![j] = @ + 1]

\* heappush of (-priority, global_queue_index, job): j goes behind the jobs
\* of the same or of a higher priority.
InQueueOrder(s, j) ==
  InsertAt(s, Cardinality({i \in DOMAIN s : JobPriority[s[i]] >= JobPriority[j]}) + 1, j)

\* Variant: the counter is forgotten.
PushUncounted(j) ==
  /\ queues' = [queues EXCEPT ![JobQueue[j]] = InQueueOrder(@, j)]
  /\ UNCHANGED queued_jobs

Push(j) ==
  /\ queues' = [queues EXCEPT ![JobQueue[j]] = InQueueOrder(@, j)]
  /\ queued_jobs' = queued_jobs + 1

----------------------------------------------------------------------------
(* run() and enqueue().                                                    *)

is_finished == all_jobs_queued /\ queued_jobs = 0 /\ active_jobs = <<>>

\* while not self.is_finished
Test ==
  /\ pc = "test"
  /\ pc' = IF is_finished THEN "finished" ELSE "enqueue"
  /\ UNCHANGED <<iterVars, all_jobs_queued, queueVars, resourceVars, active_jobs,
                 message_queue, localVars, jobVars, collected>>

\* One ready job is pushed into its queue.
EnqueueJob(j) ==
  /\ pc = "enqueue"
  /\ NextBusy(j)
  /\ Push(j)
  /\ UNCHANGED <<pc, all_jobs_queued, resourceVars, active_jobs, message_queue,
                 localVars, jobVars, collected>>

\* One ready job is skipped: taken from the iterator, collected and left.
EnqueueSkipped(j) ==
  /\ pc = "enqueue"
  /\ j \in Skippable
  /\ NextVisited(j)
  /\ Collected(j)
  /\ UNCHANGED <<pc, all_jobs_queued, queueVars, resourceVars, active_jobs,
                 message_queue, localVars, jobVars>>

\* next_element returns no vertex, or raises StopIteration.
EnqueueReturns ==
  /\ pc = "enqueue"
  /\ Ready = {}
  /\ pc' = "launch"
  /\ all_jobs_queued' = Exhausted
  /\ UNCHANGED <<iterVars, queueVars, resourceVars, active_jobs, message_queue,
                 localVars, jobVars, collected>>

----------------------------------------------------------------------------
(* launch().                                                               *)

\* Variant: any token left is enough.
LaunchableOnAny(q) == queues[q] # <<>> /\ tokens[q] > 0

\* q and q[0][2].tokens <= self.tokens[name]
Launchable(q) == queues[q] # <<>> /\ JobTokens[Head(queues[q])] <= tokens[q]

\* One job is removed from the first queue that has a launchable one, gets a
\* slot, and its thread is started.  SlotAvailable says that pop() finds one.
StartJob(q) ==
  /\ pc = "launch"
  /\ Launchable(q)
  /\ \A r \in 1..(q - 1) : ~Launchable(r)
  /\ slots # <<>>
  /\ pc' = "started"
  /\ current' = Head(queues[q])
  /\ queues' = [queues EXCEPT ![q] = Tail(@)]
  /\ queued_jobs' = queued_jobs - 1
  /\ slot' = [slot EXCEPT ![Head(queues[q])] = Last(slots)]
  /\ slots' = Front(slots)
  /\ thread' = [thread EXCEPT ![Head(queues[q])] = "running"]
  /\ UNCHANGED <<iterVars, all_jobs_queued, tokens, active_jobs, message_queue,
                 collect_result, handled, interrupted, collected>>

\* The started job is charged to its queue and becomes active.
Account ==
  /\ pc = "started"
  /\ pc' = "launch"
  /\ tokens' = [tokens EXCEPT ![JobQueue[current]] = @ - JobTokens[current]]
  /\ active_jobs' = Append(active_jobs, current)
  /\ UNCHANGED <<iterVars, all_jobs_queued, queueVars, slots, message_queue,
                 localVars, jobVars, collected>>

\* Variant: wait() is called after each launch.
LaunchReturnsEarly ==
  /\ pc = "launch"
  /\ active_jobs # <<>> \/ \A q \in Queue : ~Launchable(q)
  /\ pc' = IF active_jobs = <<>> THEN "test" ELSE "wait"
  /\ UNCHANGED <<iterVars, all_jobs_queued, queueVars, resourceVars, active_jobs,
                 message_queue, localVars, jobVars, collected>>

\* Nothing (more) to launch; wait() returns at once without active jobs.
LaunchReturns ==
  /\ pc = "launch"
  /\ \A q \in Queue : ~Launchable(q)
  /\ pc' = IF active_jobs = <<>> THEN "test" ELSE "wait"
  /\ UNCHANGED <<iterVars, all_jobs_queued, queueVars, resourceVars, active_jobs,
                 message_queue, localVars, jobVars, collected>>

----------------------------------------------------------------------------
(* wait().                                                                 *)

\* Variant: the timeout is logged only.
WaitTimeoutIgnored ==
  /\ pc = "wait"
  /\ message_queue = <<>>
  /\ UNCHANGED vars

\* Variant: the job that has timed out is taken for ended.
WaitTimeoutGivesUp ==
  /\ pc = "wait"
  /\ message_queue = <<>>
  /\ current' = Head(active_jobs)
  /\ pc' = "collect"
  /\ UNCHANGED <<iterVars, all_jobs_queued, queueVars, resourceVars, active_jobs,
                 message_queue, collect_result, handled, jobVars, collected>>

\* message_queue.get times out: the oldest job is interrupted.
WaitTimeout ==
  /\ pc = "wait"
  /\ message_queue = <<>>
  /\ interrupted' = [interrupted EXCEPT ![Head(active_jobs)] = TRUE]
  /\ UNCHANGED <<iterVars, pc, all_jobs_queued, queueVars, resourceVars, active_jobs,
                 message_queue, localVars, slot, thread, collected>>

\* Variant: the slot is given back, the tokens are not.
WaitGetLosesTokens ==
  /\ pc = "wait"
  /\ message_queue # <<>>
  /\ Head(message_queue) \in ToSet(active_jobs)
  /\ current' = Head(message_queue)
  /\ slots' = Append(slots, slot[Head(message_queue)])
  /\ message_queue' = Tail(message_queue)
  /\ pc' = "collect"
  /\ UNCHANGED <<iterVars, all_jobs_queued, queueVars, tokens, active_jobs,
                 collect_result, handled, jobVars, collected>>

\* message_queue.get returns the uid of an ended job: its slot and tokens are
\* given back.
WaitGet ==
  /\ pc = "wait"
  /\ message_queue # <<>>
  /\ Head(message_queue) \in ToSet(active_jobs)
  /\ LET j == Head(message_queue) IN
       /\ current' = j
       /\ slots' = Append(slots, slot[j])
       /\ tokens' = [tokens EXCEPT ![JobQueue[j]] = @ + JobTokens[j]]
  /\ message_queue' = Tail(message_queue)
  /\ pc' = "collect"
  /\ UNCHANGED <<iterVars, all_jobs_queued, queueVars, active_jobs, collect_result,
                 handled, jobVars, collected>>

\* safe_collect(job): the client says whether the job has to run again.
Collect ==
  /\ pc = "collect"
  /\ Collected(current)
  /\ \E again \in BOOLEAN :
       /\ again => collected[current] < MaxRequeue
       /\ collect_result' = again
  /\ pc' = "finish"
  /\ UNCHANGED <<iterVars, all_jobs_queued, queueVars, resourceVars, active_jobs,
                 message_queue, current, handled, jobVars>>

\* Variant: a requeued job is left as well.
FinishLeavesRequeued ==
  /\ pc = "finish"
  /\ IF collect_result THEN Push(current) ELSE UNCHANGED queueVars
  /\ Leave(current)
  /\ \E i \in DOMAIN active_jobs :
       /\ active_jobs[i] = current
       /\ active_jobs' = RemoveAt(active_jobs, i)
  /\ pc' = "test"
  /\ UNCHANGED <<all_jobs_queued, resourceVars, message_queue, localVars, jobVars,
                 collected>>

\* Variant: a requeued job stays in active_jobs.
FinishKeepsRequeued ==
  /\ pc = "finish"
  /\ IF collect_result
       THEN Push(current) /\ UNCHANGED <<iterVars, active_jobs>>
       ELSE /\ Leave(current)
            /\ UNCHANGED queueVars
            /\ \E i \in DOMAIN active_jobs :
                 /\ active_jobs[i] = current
                 /\ active_jobs' = RemoveAt(active_jobs, i)
  /\ pc' = "test"
  /\ UNCHANGED <<all_jobs_queued, resourceVars, message_queue, localVars, jobVars,
                 collected>>

\* Variant: the vertex stays BUSY in the iterator.
FinishForgetsLeave ==
  /\ pc = "finish"
  /\ IF collect_result THEN Push(current) ELSE UNCHANGED queueVars
  /\ \E i \in DOMAIN active_jobs :
       /\ active_jobs[i] = current
       /\ active_jobs' = RemoveAt(active_jobs, i)
  /\ pc' = "test"
  /\ UNCHANGED <<iterVars, all_jobs_queued, resourceVars, message_queue, localVars,
                 jobVars, collected>>

\* The job is requeued or left, and is active no more.
Finish ==
  /\ pc = "finish"
  /\ IF collect_result
       THEN Push(current) /\ UNCHANGED iterVars
       ELSE Leave(current) /\ UNCHANGED queueVars
  /\ \E i \in DOMAIN active_jobs :
       /\ active_jobs[i] = current
       /\ active_jobs' = RemoveAt(active_jobs, i)
  /\ pc' = "test"
  /\ UNCHANGED <<all_jobs_queued, resourceVars, message_queue, localVars, jobVars,
                 collected>>

----------------------------------------------------------------------------
(* Job threads and interruption.                                           *)

\* The thread of j ends: notify_end(uid).  The thread of an interrupted job
\* does not call run(), or its process has been killed.
JobEnd(j) ==
  /\ thread[j] = "running"
  /\ thread' = [thread EXCEPT ![j] = "ended"]
  /\ message_queue' = Append(message_queue, j)
  /\ UNCHANGED <<iterVars, pc, all_jobs_queued, queueVars, resourceVars, active_jobs,
                 localVars, slot, interrupted, collected>>

InRun == {"test", "enqueue", "launch", "started", "wait", "collect", "finish"}

\* Ctrl-C while run() is in its try block.
KeyboardInterrupt ==
  /\ AllowInterrupt
  /\ pc \in InRun
  /\ pc' = "interrupt"
  /\ UNCHANGED <<iterVars, all_jobs_queued, queueVars, resourceVars, active_jobs,
                 message_queue, localVars, jobVars, collected>>

\* The handler interrupts and collects the next active job.
InterruptNext ==
  /\ pc = "interrupt"
  /\ handled < Len(active_jobs)
  /\ interrupted' = [interrupted EXCEPT ![active_jobs[handled + 1]] = TRUE]
  /\ Collected(active_jobs[handled + 1])
  /\ handled' = handled + 1
  /\ UNCHANGED <<iterVars, pc, all_jobs_queued, queueVars, resourceVars, active_jobs,
                 message_queue, current, collect_result, slot, thread>>

\* Variant: the last active job is missed.
InterruptReturnsEarly ==
  /\ pc = "interrupt"
  /\ handled + 1 >= Len(active_jobs)
  /\ pc' = "interrupted"
  /\ UNCHANGED <<iterVars, all_jobs_queued, queueVars, resourceVars, active_jobs,
                 message_queue, localVars, jobVars, collected>>

\* raise
InterruptReturns ==
  /\ pc = "interrupt"
  /\ handled = Len(active_jobs)
  /\ pc' = "interrupted"
  /\ UNCHANGED <<iterVars, all_jobs_queued, queueVars, resourceVars, active_jobs,
                 message_queue, localVars, jobVars, collected>>

\* Nothing is left to do.
Ended ==
  /\ pc \in {"finished", "interrupted"}
  /\ \A j \in Vertex : thread[j] # "running"
  /\ UNCHANGED vars

----------------------------------------------------------------------------

\* The steps of the thread that called run(), Ctrl-C left aside.
MainStep ==
  \/ Test
  \/ \E j \in Vertex : EnqueueJob(j) \/ EnqueueSkipped(j)
  \/ EnqueueReturns
  \/ \E q \in Queue : StartJob(q)
  \/ Account
  \/ LaunchReturns
  \/ WaitTimeout
  \/ WaitGet
  \/ Collect
  \/ Finish
  \/ InterruptNext
  \/ InterruptReturns

SchedNext ==
  \/ MainStep
  \/ \E j \in Vertex : JobEnd(j)
  \/ KeyboardInterrupt
  \/ Ended

SchedSpec == SchedInit /\ [][SchedNext]_vars

\* The calling thread runs, and so does each job thread; but a job that may
\* hang is sure to end only once it is interrupted.
Fairness ==
  /\ WF_vars(MainStep)
  /\ \A j \in Vertex : WF_vars(JobEnd(j) /\ (j \in Hanging => interrupted[j]))

FairSchedSpec == SchedSpec /\ Fairness

----------------------------------------------------------------------------
(* Properties.                                                             *)

SchedTypeOK ==
  /\ IterTypeOK
  /\ pc \in InRun \cup {"interrupt", "finished", "interrupted"}
  /\ all_jobs_queued \in BOOLEAN
  /\ queues \in [Queue -> Seq(Vertex)]
  /\ queued_jobs \in Nat
  /\ tokens \in [Queue -> Int]
  /\ slots \in Seq(Nat)
  /\ active_jobs \in Seq(Vertex)
  /\ message_queue \in Seq(Vertex)
  /\ current \in Vertex \cup {NoJob}
  /\ collect_result \in BOOLEAN
  /\ handled \in Nat
  /\ slot \in [Vertex -> Nat]
  /\ thread \in [Vertex -> {"none", "running", "ended"}]
  /\ interrupted \in [Vertex -> BOOLEAN]
  /\ collected \in [Vertex -> Nat]

\* The job that launch() has started and not yet made active.
Starting == IF pc = "started" THEN {current} ELSE {}

\* The jobs that hold tokens and a slot: wait() gives them back before it
\* removes the job from active_jobs.
Ending == IF pc \in {"collect", "finish"} THEN {current} ELSE {}
Holders == (Starting \cup ToSet(active_jobs)) \ Ending

Queued == UNION {ToSet(queues[q]) : q \in Queue}

RunningJobs == {j \in Vertex : thread[j] = "running"}

\* The tokens that the jobs of S take from queue q, one by one: their number
\* is the sum of what the jobs take.
TokensOf(S, q) == UNION {{j} \X (1..JobTokens[j]) : j \in {i \in S : JobQueue[i] = q}}

UsedTokens(S, q) == Cardinality(TokensOf(S, q))

\* A job runs only after each of its predecessors is through for good: left,
\* and not running again because collect asked for a requeue.
Precedence ==
  \A j \in Vertex : thread[j] # "none" =>
    \A p \in dag[j] : states[p] = VISITED /\ thread[p] # "running"

\* The jobs whose threads run never take more tokens than their queue has,
\* Ctrl-C or not: the limit the `queues' parameter promises.
CapacityRespected ==
  \A q \in Queue : UsedTokens(RunningJobs, q) <= QueueTokens[q]

\* Tokens and slots are neither lost nor created as jobs start, end, are
\* requeued and start again: what is not held by a job is free.
ResourcesConserved ==
  pc \in InRun \cup {"finished"} =>
    /\ \A q \in Queue :
         tokens[q] + UsedTokens(Holders \ Starting, q) = QueueTokens[q]
    /\ ToSet(slots) \cup {slot[j] : j \in Holders} = 0..(NumTokens - 1)

\* "At a given time only one job have a given slot number": no two running
\* jobs share a slot, and a slot in use is not free.
SlotsDistinct ==
  \A j \in RunningJobs :
    /\ \A k \in RunningJobs : slot[j] = slot[k] => j = k
    /\ slot[j] \notin ToSet(slots)

\* self.slots.pop() always finds a slot.
SlotAvailable ==
  pc = "launch" /\ (\E q \in Queue : Launchable(q)) => slots # <<>>

\* The resources: the limits of the queues hold, and what launch() takes for a
\* job wait() gives back, once, however jobs end.
ResourcesExact ==
  CapacityRespected /\ ResourcesConserved /\ SlotsDistinct /\ SlotAvailable

\* Every notification wait() can receive is about an active job, so that the
\* search by uid succeeds, and about a job that has ended.
MessageExpected ==
  pc \in InRun => \A j \in ToSet(message_queue) :
    /\ j \in Starting \cup ToSet(active_jobs)
    /\ thread[j] = "ended"

\* A job is BUSY in the iterator exactly while it is in a queue, being
\* started or active, and it is in one of these places only, once.
OnePlace ==
  pc \in InRun =>
    /\ \A j \in Vertex :
         states[j] = BUSY <=> j \in Queued \cup Starting \cup ToSet(active_jobs)
    /\ Queued \cap ToSet(active_jobs) = {}
    /\ Starting \cap (Queued \cup ToSet(active_jobs)) = {}
    /\ \A q \in Queue : /\ IsInjective(queues[q])
                        /\ \A j \in ToSet(queues[q]) : JobQueue[j] = q
    /\ IsInjective(active_jobs)

\* queued_jobs, on which is_finished and launch() rely, is the number of jobs
\* in the queues.
QueuedJobsExact == pc \in InRun => queued_jobs = Cardinality(Queued)

\* When run() returns every job has been collected and left, no thread runs
\* and no message is pending.
FinishedMeansDone ==
  pc = "finished" =>
    /\ \A j \in Vertex : /\ states[j] = VISITED
                         /\ collected[j] > 0
                         /\ thread[j] # "running"
    /\ message_queue = <<>>

\* The four places where the scheduler keeps account of a job (the iterator,
\* the queues, active_jobs and the message queue) agree at every step.
Bookkeeping == OnePlace /\ QueuedJobsExact /\ MessageExpected /\ FinishedMeansDone

\* run() blocks in wait() only when it can start nothing more: no vertex of
\* the iterator is ready and no head of a queue has its tokens.
WorkConserving ==
  pc = "wait" => Ready = {} /\ \A q \in Queue : ~Launchable(q)

\* Every job fits into its queue.
JobsFit == \A j \in Vertex : JobTokens[j] <= QueueTokens[JobQueue[j]]

\* When all jobs fit, the loop of run() can turn without any job to wait for
\* only because of a cycle in the graph.
SpinDiagnosed ==
  /\ pc = "test"
  /\ ~is_finished
  /\ active_jobs = <<>>
  /\ NoneReady \/ all_jobs_queued
  /\ \A q \in Queue : ~Launchable(q)
  /\ JobsFit
  => ~Acyclic(dag)

\* wait() collects a job only after its thread has ended; only the
\* interrupt handler may collect a job that is still running.
CollectedAfterEnd ==
  [][\A j \in Vertex : collected'[j] # collected[j] /\ pc # "interrupt"
       => thread[j] # "running"]_vars

\* When run() raises KeyboardInterrupt all running jobs have been
\* interrupted, except the one that launch() may have started just before
\* without having put it in active_jobs.
InterruptedAll ==
  pc = "interrupted" => \A j \in RunningJobs :
    interrupted[j] \/ (j = current /\ j \notin ToSet(active_jobs))

\* run() ends on an acyclic graph of jobs that fit: jobs that hang are
\* interrupted in turn by the timeout, whatever their place in active_jobs.
Termination ==
  Acyclic(dag) /\ JobsFit => <>(pc \in {"finished", "interrupted"})

\* So run() returns, and it never spins in vain while the jobs could run.
RunReturns == Termination /\ []SpinDiagnosed

----------------------------------------------------------------------------
(* The scheduler implements DagExecution.                                  *)

ExecStatus ==
  [j \in Vertex |->
     IF states[j] = VISITED THEN "done"
     ELSE IF thread[j] = "running" \/ j \in Starting \cup ToSet(active_jobs)
            THEN "running"
     ELSE "waiting"]

Exec == INSTANCE DagExecution WITH status <- ExecStatus

\* Queues, slots, messages, requeues, timeouts and Ctrl-C never show: each
\* step of the scheduler is a step of DagExecution or none.
Implements == Exec!ExecSpec

=============================================================================
