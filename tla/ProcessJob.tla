----------------------------- MODULE ProcessJob -----------------------------
(***************************************************************************)
(* e3.job.ProcessJob: jobs that spawn a process, seen from the one lock    *)
(* they all share (Job.lock).  Three kinds of actors meet on it:           *)
(*   - the main thread, in Scheduler.wait and in the KeyboardInterrupt     *)
(*     handler of Scheduler.run: it starts, interrupts and collects jobs;  *)
(*   - the thread of each job: task_function, then ProcessJob.run;         *)
(*   - the processes, that end when they want or when they are killed.     *)
(*                                                                         *)
(* thread[j], the place of the thread of j:                                *)
(*   "none"     not started (again) yet                                    *)
(*   "begin"    task_function, before it reads `interrupted'               *)
(*   "options"  run(), evaluating cmd_options                              *)
(*   "run"      run(), before `with self.lock'                             *)
(*   "spawn"    run(), holding the lock, before Run(...)                   *)
(*   "handle"   run(), holding the lock, Run(...) has returned             *)
(*   "wait"     run(), in proc_handle.wait()                               *)
(*   "stop"     task_function, in its finally block                        *)
(*   "ended"    notify_end has been called                                 *)
(***************************************************************************)
EXTENDS Integers, FiniteSets

CONSTANTS
  Job,
  Hanging,   \* the jobs whose processes only end once killed
  MaxRuns,   \* bound: how often a job can be started
  Free,      \* the owner of a lock nobody holds
  Main       \* the main thread, as the owner of the lock

ASSUME ProcessJobAssumption ==
  /\ Hanging \subseteq Job
  /\ MaxRuns \in Nat
  /\ Free \notin Job
  /\ Main \notin Job \cup {Free}

\* The exit codes the model tells apart: values of ReturnValue ("notready" is
\* EX_TEMPFAIL, 75), and the code of a killed process, which is none.
ExitCodes == {"success", "failure", "notready"}
Killed == "killed"
NoStatus == "none"

VARIABLES
  lock,          \* Job.lock: its owner
  mainOp,        \* what the main thread is doing: "idle", "launch", "kill" or
  mainJob,       \*   "collect", and to which job
  stopping,      \* Ctrl-C: the main thread is in its handler
  cut,           \* history: the job that Ctrl-C found being launched or killed
  place,         \* per job: "queued", "started", "active" (in active_jobs) or "left"
  runs,          \* how often the job has been started
  thread,
  interrupted,
  raised,        \* cmd_options has raised an exception in the last run
  spawn_error,   \* self.__spawn_error
  spawned,       \* the number of processes spawned, the last one being
  alive,         \*   alive or not,
  exit_code,     \*   with this exit code,
  spawned_in,    \*   spawned in this run of the job
  proc_handle,   \* the number of the process proc_handle is about, 0 for None
  status         \* proc_handle.status

mainVars == <<mainOp, mainJob, stopping, cut, place, runs>>
procVars == <<spawned, alive, exit_code, spawned_in>>
handleVars == <<proc_handle, status>>
vars == <<lock, mainVars, thread, interrupted, raised, spawn_error, procVars,
          handleVars>>

Init ==
  /\ lock = Free
  /\ mainOp = "idle" /\ mainJob \in Job
  /\ stopping = FALSE
  /\ cut = {}
  /\ place = [j \in Job |-> "queued"]
  /\ runs = [j \in Job |-> 0]
  /\ thread = [j \in Job |-> "none"]
  /\ interrupted = [j \in Job |-> FALSE]
  /\ raised = [j \in Job |-> FALSE]
  /\ spawn_error = [j \in Job |-> FALSE]
  /\ spawned = [j \in Job |-> 0]
  /\ alive = [j \in Job |-> FALSE]
  /\ exit_code = [j \in Job |-> NoStatus]
  /\ spawned_in = [j \in Job |-> 0]
  /\ proc_handle = [j \in Job |-> 0]
  /\ status = [j \in Job |-> NoStatus]

----------------------------------------------------------------------------
(* The thread of job j.                                                    *)

\* record_start_time, and the first test of `interrupted'.
Begin(j) ==
  /\ thread[j] = "begin"
  /\ lock = Free
  /\ thread' = [thread EXCEPT ![j] = IF interrupted[j] THEN "stop" ELSE "options"]
  /\ UNCHANGED <<lock, mainVars, interrupted, raised, spawn_error, procVars, handleVars>>

\* cmd_options, provided by the client, returns or raises an exception.
Options(j) ==
  /\ thread[j] = "options"
  /\ \E error \in BOOLEAN :
       /\ raised' = [raised EXCEPT ![j] = error]
       /\ thread' = [thread EXCEPT ![j] = IF error THEN "stop" ELSE "run"]
  /\ UNCHANGED <<lock, mainVars, interrupted, spawn_error, procVars, handleVars>>

\* Variant: spawning does not wait for the lock, nor holds it.
RunUnlocked(j) ==
  /\ thread[j] = "run"
  /\ thread' = [thread EXCEPT ![j] = IF interrupted[j] THEN "stop" ELSE "spawn"]
  /\ UNCHANGED <<lock, mainVars, interrupted, raised, spawn_error, procVars, handleVars>>

\* Variant: run() does not look at `interrupted'.
RunAnyway(j) ==
  /\ thread[j] = "run"
  /\ lock = Free
  /\ lock' = j
  /\ thread' = [thread EXCEPT ![j] = "spawn"]
  /\ UNCHANGED <<mainVars, interrupted, raised, spawn_error, procVars, handleVars>>

\* Variant: run() returns without releasing the lock.
RunKeepsLock(j) ==
  /\ thread[j] = "run"
  /\ lock = Free
  /\ lock' = j
  /\ thread' = [thread EXCEPT ![j] = IF interrupted[j] THEN "stop" ELSE "spawn"]
  /\ UNCHANGED <<mainVars, interrupted, raised, spawn_error, procVars, handleVars>>

\* with self.lock: if self.interrupted: return
RunLock(j) ==
  /\ thread[j] = "run"
  /\ lock = Free
  /\ IF interrupted[j]
       THEN thread' = [thread EXCEPT ![j] = "stop"] /\ UNCHANGED lock
       ELSE thread' = [thread EXCEPT ![j] = "spawn"] /\ lock' = j
  /\ UNCHANGED <<mainVars, interrupted, raised, spawn_error, procVars, handleVars>>

\* Run(cmdline, ...) creates a process.
Spawn(j) ==
  /\ thread[j] = "spawn"
  /\ thread' = [thread EXCEPT ![j] = "handle"]
  /\ spawned' = [spawned EXCEPT ![j] = @ + 1]
  /\ spawned_in' = [spawned_in EXCEPT ![j] = runs[j]]
  /\ alive' = [alive EXCEPT ![j] = TRUE]
  /\ exit_code' = [exit_code EXCEPT ![j] = NoStatus]
  /\ UNCHANGED <<lock, mainVars, interrupted, raised, spawn_error, handleVars>>

\* Variant: the error is only logged.
SpawnErrorForgotten(j) ==
  /\ thread[j] = "spawn"
  /\ thread' = [thread EXCEPT ![j] = "stop"]
  /\ lock' = Free
  /\ UNCHANGED <<mainVars, interrupted, raised, spawn_error, procVars, handleVars>>

\* cmdline or Run(...) raises an exception.
SpawnError(j) ==
  /\ thread[j] = "spawn"
  /\ thread' = [thread EXCEPT ![j] = "stop"]
  /\ spawn_error' = [spawn_error EXCEPT ![j] = TRUE]
  /\ lock' = Free
  /\ UNCHANGED <<mainVars, interrupted, raised, procVars, handleVars>>

\* self.proc_handle = proc_handle, and the lock is released.
Handle(j) ==
  /\ thread[j] = "handle"
  /\ thread' = [thread EXCEPT ![j] = "wait"]
  /\ proc_handle' = [proc_handle EXCEPT ![j] = spawned[j]]
  /\ status' = [status EXCEPT ![j] = NoStatus]
  /\ lock' = Free
  /\ UNCHANGED <<mainVars, interrupted, raised, spawn_error, procVars>>

\* proc_handle.wait() returns.
WaitReturns(j) ==
  /\ thread[j] = "wait"
  /\ ~alive[j]
  /\ status' = [status EXCEPT ![j] = exit_code[j]]
  /\ thread' = [thread EXCEPT ![j] = "stop"]
  /\ UNCHANGED <<lock, mainVars, interrupted, raised, spawn_error, procVars, proc_handle>>

\* record_stop_time and notify_end.
Stop(j) ==
  /\ thread[j] = "stop"
  /\ lock = Free
  /\ thread' = [thread EXCEPT ![j] = "ended"]
  /\ UNCHANGED <<lock, mainVars, interrupted, raised, spawn_error, procVars, handleVars>>

\* The process of j ends by itself.
ProcessExits(j) ==
  /\ alive[j]
  /\ j \notin Hanging
  /\ alive' = [alive EXCEPT ![j] = FALSE]
  /\ \E c \in ExitCodes : exit_code' = [exit_code EXCEPT ![j] = c]
  /\ UNCHANGED <<lock, mainVars, thread, interrupted, raised, spawn_error, spawned,
                 spawned_in, handleVars>>

----------------------------------------------------------------------------
(* The main thread.                                                        *)

\* job.start(slot), for a new job or for one that has been requeued: the thread
\* runs, and active_jobs does not know the job yet.
StartJob(j) ==
  /\ mainOp = "idle" /\ ~stopping
  /\ place[j] = "queued"
  /\ runs[j] < MaxRuns
  /\ place' = [place EXCEPT ![j] = "started"]
  /\ mainOp' = "launch" /\ mainJob' = j
  /\ runs' = [runs EXCEPT ![j] = @ + 1]
  /\ thread' = [thread EXCEPT ![j] = "begin"]
  /\ raised' = [raised EXCEPT ![j] = FALSE]
  /\ UNCHANGED <<lock, stopping, cut, interrupted, spawn_error, procVars, handleVars>>

\* self.active_jobs.append(next_job)
Activate ==
  /\ mainOp = "launch"
  /\ place' = [place EXCEPT ![mainJob] = "active"]
  /\ mainOp' = "idle"
  /\ UNCHANGED <<lock, mainJob, stopping, cut, runs, thread, interrupted, raised,
                 spawn_error, procVars, handleVars>>

\* interrupt(): a timeout, or the handler of Ctrl-C.  Job.interrupt takes the
\* lock to set the flag; the second call does nothing.
Interrupt(j) ==
  /\ mainOp = "idle"
  /\ place[j] = "active"
  /\ lock = Free
  /\ ~interrupted[j]
  /\ interrupted' = [interrupted EXCEPT ![j] = TRUE]
  /\ mainOp' = "kill" /\ mainJob' = j
  /\ UNCHANGED <<lock, stopping, cut, place, runs, thread, raised, spawn_error, procVars,
                 handleVars>>

\* The rest of ProcessJob.interrupt, without the lock: what proc_handle is
\* about is killed if it still runs.
Kill ==
  /\ mainOp = "kill"
  /\ IF proc_handle[mainJob] = spawned[mainJob] /\ alive[mainJob]
       THEN /\ alive' = [alive EXCEPT ![mainJob] = FALSE]
            /\ exit_code' = [exit_code EXCEPT ![mainJob] = Killed]
       ELSE UNCHANGED <<alive, exit_code>>
  /\ mainOp' = "idle"
  /\ UNCHANGED <<lock, mainJob, stopping, cut, place, runs, thread, interrupted, raised,
                 spawn_error, spawned, spawned_in, handleVars>>

\* safe_collect takes the lock: in wait() when the thread has ended, in the
\* handler of Ctrl-C once the job has been interrupted.
CollectBegin(j) ==
  /\ mainOp = "idle"
  /\ place[j] = "active"
  /\ IF stopping THEN interrupted[j] ELSE thread[j] = "ended"
  /\ lock = Free
  /\ lock' = Main
  /\ mainOp' = "collect" /\ mainJob' = j
  /\ UNCHANGED <<stopping, cut, place, runs, thread, interrupted, raised, spawn_error,
                 procVars, handleVars>>

\* The property `status'.
JobStatus(j) ==
  IF spawn_error[j] THEN "failure"
  ELSE IF proc_handle[j] = 0 THEN "notready"
  ELSE IF status[j] \in ExitCodes THEN status[j]
  ELSE "failure"

\* Variant: any job may be requeued.
CollectEndAny ==
  /\ mainOp = "collect"
  /\ \E p \in {"queued", "left"} :
       /\ p = "queued" => ~stopping
       /\ place' = [place EXCEPT ![mainJob] = p]
  /\ lock' = Free
  /\ mainOp' = "idle"
  /\ UNCHANGED <<mainJob, stopping, cut, runs, thread, interrupted, raised, spawn_error,
                 procVars, handleVars>>

\* collect returns: a job that is "notready" may be requeued, as Walk.collect
\* does.
CollectEnd ==
  /\ mainOp = "collect"
  /\ \E p \in {"queued", "left"} :
       /\ p = "queued" => JobStatus(mainJob) = "notready" /\ ~stopping
       /\ place' = [place EXCEPT ![mainJob] = p]
  /\ lock' = Free
  /\ mainOp' = "idle"
  /\ UNCHANGED <<mainJob, stopping, cut, runs, thread, interrupted, raised, spawn_error,
                 procVars, handleVars>>

\* Ctrl-C hits the main thread: what it was doing is abandoned, and the lock is
\* released on the way to the handler.  If it was about to kill the process of
\* a job that has timed out, nobody will: the second interrupt() does nothing.
\* If it had started a job and not made it active yet, the handler does not
\* know the job: it goes on.
KeyboardInterrupt ==
  /\ ~stopping
  /\ stopping' = TRUE
  /\ cut' = IF mainOp \in {"launch", "kill"} THEN {mainJob} ELSE cut
  /\ mainOp' = "idle"
  /\ lock' = IF lock = Main THEN Free ELSE lock
  /\ UNCHANGED <<mainJob, place, runs, thread, interrupted, raised,
                 spawn_error, procVars, handleVars>>

\* Nothing is left to do, but for the thread that Ctrl-C has left to itself.
Done ==
  /\ mainOp = "idle"
  /\ \A j \in Job : /\ thread[j] \in {"none", "ended"} \/ j \in cut
                    /\ place[j] # "active"
  /\ UNCHANGED vars

----------------------------------------------------------------------------

ThreadStep(j) ==
  \/ Begin(j) \/ Options(j) \/ RunLock(j) \/ Spawn(j) \/ SpawnError(j)
  \/ Handle(j) \/ WaitReturns(j) \/ Stop(j)

Next ==
  \/ \E j \in Job : \/ ThreadStep(j) \/ ProcessExits(j)
                    \/ StartJob(j) \/ Interrupt(j) \/ CollectBegin(j)
  \/ Activate
  \/ Kill
  \/ CollectEnd
  \/ KeyboardInterrupt
  \/ Done

Spec == Init /\ [][Next]_vars

\* Every thread runs, and a process that does not hang ends.  The main thread
\* finishes what it has begun, and interrupts a job that lasts (job_timeout).
Fairness ==
  /\ \A j \in Job : WF_vars(ThreadStep(j)) /\ WF_vars(ProcessExits(j))
  /\ WF_vars(Activate) /\ WF_vars(Kill) /\ WF_vars(CollectEnd)
  /\ \A j \in Job : WF_vars(Interrupt(j))

FairSpec == Spec /\ Fairness

----------------------------------------------------------------------------
(* Properties.                                                             *)

ThreadPlaces ==
  {"none", "begin", "options", "run", "spawn", "handle", "wait", "stop", "ended"}

TypeOK ==
  /\ lock \in Job \cup {Free, Main}
  /\ mainOp \in {"idle", "launch", "kill", "collect"} /\ mainJob \in Job
  /\ stopping \in BOOLEAN
  /\ cut \subseteq Job
  /\ place \in [Job -> {"queued", "started", "active", "left"}]
  /\ runs \in [Job -> Nat]
  /\ thread \in [Job -> ThreadPlaces]
  /\ interrupted \in [Job -> BOOLEAN]
  /\ raised \in [Job -> BOOLEAN]
  /\ spawn_error \in [Job -> BOOLEAN]
  /\ spawned \in [Job -> Nat]
  /\ alive \in [Job -> BOOLEAN]
  /\ exit_code \in [Job -> ExitCodes \cup {NoStatus, Killed}]
  /\ spawned_in \in [Job -> Nat]
  /\ proc_handle \in [Job -> Nat]
  /\ status \in [Job -> ExitCodes \cup {NoStatus, Killed}]

\* "This ensures ... that there are no calls to Run during collect"
\* (safe_collect): no process is created while the callback runs.
NoSpawnDuringCollect ==
  [][mainOp = "collect" => spawned' = spawned]_vars

\* Once interrupt() has returned no process of the job runs, and none will:
\* whatever the thread of the job was doing, it had either published the
\* process it spawned or sees the interruption.  The job that Ctrl-C found between
\* the flag and the kill is the exception.
InterruptedForGood ==
  \A j \in Job \ cut :
    interrupted[j] /\ ~(mainOp = "kill" /\ mainJob = j) => ~alive[j]

\* The handler of Ctrl-C has interrupted and collected the active jobs.
HandlerDone == stopping /\ mainOp = "idle" /\ \A j \in Job : place[j] # "active"

\* What may survive the handler of Ctrl-C (scheduler.py:220-226), wherever it hit
\* the main thread: at most one process.  It is that of a job started but not
\* active yet, that nobody has interrupted, or that of a job Ctrl-C found
\* between the flag and the kill of interrupt(), which spawns no other.
OnlyCutSurvives ==
  /\ \A i, j \in cut : i = j
  /\ HandlerDone => \A j \in Job :
       alive[j] => /\ j \in cut
                   /\ IF interrupted[j] THEN thread[j] = "wait" ELSE place[j] = "started"

\* False: interrupt() is to "kill running process tree" (job/__init__.py:322), and
\* the handler calls it for every active job.
NoneSurvives == HandlerDone => \A j \in Job : ~alive[j]

\* When the end of a job is notified its process has ended.
EndedWithProcess ==
  \A j \in Job : thread[j] \in {"none", "begin", "ended"} => ~alive[j]

\* The job wait() is collecting.
Collecting(j) == mainOp = "collect" /\ mainJob = j /\ ~stopping

\* collect sees "success" only if the process of the last run succeeded, not
\* a former one: runs that were cancelled or failed to spawn keep the handle
\* of the previous process.
SuccessIsOfLastRun ==
  \A j \in Job : Collecting(j) /\ JobStatus(j) = "success" =>
    spawned_in[j] = runs[j] /\ exit_code[j] = "success"

\* "Detect spawn issue to avoid returning notready and creating a loop":
\* collect sees "notready" only if a process said so, if the job was cancelled,
\* or if cmd_options, which is read before the try block, raised an exception.
NotreadyExplained ==
  \A j \in Job : Collecting(j) /\ JobStatus(j) = "notready" =>
    interrupted[j] \/ exit_code[j] = "notready" \/ raised[j]

\* Whoever waits for the lock gets it and every run of a job ends, a process
\* that hangs included: it is interrupted, and killed.  The one Ctrl-C found being
\* launched or killed is the exception, if its process hangs.
EveryRunEnds ==
  \A j \in Job : thread[j] = "begin" ~> thread[j] = "ended" \/ j \in cut \cap Hanging

=============================================================================
