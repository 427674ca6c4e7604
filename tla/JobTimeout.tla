----------------------------- MODULE JobTimeout -----------------------------
(***************************************************************************)
(* The clock of e3.job.scheduler.Scheduler.wait: how long it waits for a   *)
(* message, from what timing_info says of the oldest active job.           *)
(*                                                                         *)
(* A job that lasts is timed_out when wait() has waited job_timeout for    *)
(* its end.  The duration of a job comes from two times of its own: the    *)
(* last one at which it started, and the last one at which it ended.       *)
(*                                                                         *)
(* One unit of time is the 0.1 second wait() waits at least.  The threads  *)
(* are fast: time passes only when no one has anything to do.              *)
(***************************************************************************)
EXTENDS Integers, Sequences, SequencesExt

CONSTANTS
  TimedJob,
  JobTimeoutValue,  \* self.job_timeout
  MaxLaunches,      \* bound: how often a job runs
  MaxTime           \* bound: when the clock stops

ASSUME JobTimeoutAssumption ==
  /\ IsFiniteSet(TimedJob)
  /\ JobTimeoutValue \in Nat
  /\ MaxLaunches \in Nat
  /\ MaxTime \in Nat

NoTime == -1

VARIABLES
  clock,
  wait_pc,        \* "launch": in launch(), or about to wait; "wait": in get
  active_jobs,    \* oldest first
  message_queue,
  queued,         \* the jobs to launch
  launches,       \* how often a job has been launched
  running,        \* the jobs whose thread runs
  timed_out,
  start_time,     \* self.__start_time, self.__stop_time: NoTime for None
  stop_time,
  deadline        \* the time at which get raises Empty

jobVars == <<active_jobs, message_queue, queued, launches, running, timed_out,
             start_time, stop_time>>
clockVars == <<clock, wait_pc, jobVars, deadline>>

ClockInit ==
  /\ clock = 0
  /\ wait_pc = "launch"
  /\ active_jobs = <<>>
  /\ message_queue = <<>>
  /\ queued = TimedJob
  /\ launches = [j \in TimedJob |-> 0]
  /\ running = {}
  /\ timed_out = {}
  /\ start_time = [j \in TimedJob |-> NoTime]
  /\ stop_time = [j \in TimedJob |-> NoTime]
  /\ deadline = 0

\* timing_info.duration
Duration(j) ==
  IF start_time[j] = NoTime THEN 0
  ELSE (IF stop_time[j] = NoTime THEN clock ELSE stop_time[j]) - start_time[j]

AtLeast(x, y) == IF x < y THEN y ELSE x

\* Variant: the time already spent by the job is not deduced.
TimeLeftFull == AtLeast(JobTimeoutValue, 1)

\* Variant: the shortest wait.
TimeLeftShort == 1

\* max(0.1, self.job_timeout - first_job.timing_info.duration)
TimeLeft == AtLeast(JobTimeoutValue - Duration(Head(active_jobs)), 1)

\* A queued job starts: its thread records the time at once.
Launch(j) ==
  /\ wait_pc = "launch"
  /\ j \in queued
  /\ launches[j] < MaxLaunches
  /\ queued' = queued \ {j}
  /\ launches' = [launches EXCEPT ![j] = @ + 1]
  /\ active_jobs' = Append(active_jobs, j)
  /\ running' = running \cup {j}
  /\ start_time' = [start_time EXCEPT ![j] = clock]
  /\ UNCHANGED <<clock, wait_pc, message_queue, timed_out, stop_time, deadline>>

\* launch() returns, for want of tokens when jobs are queued, and wait()
\* calls message_queue.get.
Wait ==
  /\ wait_pc = "launch"
  /\ active_jobs # <<>>
  /\ wait_pc' = "wait"
  /\ deadline' = clock + TimeLeft
  /\ UNCHANGED <<clock, jobVars>>

\* get raises Empty: the oldest job is timed_out, and get is called again.
EmptyQueue ==
  /\ wait_pc = "wait"
  /\ message_queue = <<>>
  /\ clock >= deadline
  /\ timed_out' = timed_out \cup {Head(active_jobs)}
  /\ deadline' = clock + TimeLeft
  /\ UNCHANGED <<clock, wait_pc, active_jobs, message_queue, queued, launches, running,
                 start_time, stop_time>>

\* get returns: the job is removed, and may be requeued.
Message ==
  /\ wait_pc = "wait"
  /\ message_queue # <<>>
  /\ message_queue' = Tail(message_queue)
  /\ \E i \in DOMAIN active_jobs :
       /\ active_jobs[i] = Head(message_queue)
       /\ active_jobs' = RemoveAt(active_jobs, i)
  /\ \E again \in BOOLEAN :
       queued' = IF again THEN queued \cup {Head(message_queue)} ELSE queued
  /\ wait_pc' = "launch"
  /\ UNCHANGED <<clock, launches, running, timed_out, start_time, stop_time, deadline>>

\* The thread of j ends, of itself or because it has been timed_out:
\* record_stop_time and notify_end.
JobEnd(j) ==
  /\ j \in running
  /\ running' = running \ {j}
  /\ stop_time' = [stop_time EXCEPT ![j] = clock]
  /\ message_queue' = Append(message_queue, j)
  /\ UNCHANGED <<clock, wait_pc, active_jobs, queued, launches, timed_out, start_time, deadline>>

\* Time passes when every thread waits for something.
Tick ==
  /\ clock < MaxTime
  /\ IF wait_pc = "wait"
       THEN message_queue = <<>> /\ clock < deadline
       ELSE active_jobs = <<>> /\ \A j \in queued : launches[j] = MaxLaunches
  /\ running \cap timed_out = {}
  /\ clock' = clock + 1
  /\ UNCHANGED <<wait_pc, jobVars, deadline>>

Stopped == clock = MaxTime /\ UNCHANGED clockVars

ClockNext ==
  \/ \E j \in TimedJob : Launch(j) \/ JobEnd(j)
  \/ Wait \/ EmptyQueue \/ Message \/ Tick \/ Stopped

ClockSpec == ClockInit /\ [][ClockNext]_clockVars

----------------------------------------------------------------------------
(* Properties.                                                             *)

\* "job_timeout: maximum execution time for a job": no job runs longer, but
\* for the minimal waits: each end of a job makes wait() start again, and wait
\* at least one unit.
TimeoutRespected ==
  \A j \in running :
    clock - start_time[j] <= JobTimeoutValue + Cardinality(TimedJob) * MaxLaunches

\* The converse: a job is timed_out only once it has had job_timeout.
NotTooEarly ==
  [][\A j \in timed_out' \ timed_out :
       clock - start_time[j] >= JobTimeoutValue]_clockVars

=============================================================================
