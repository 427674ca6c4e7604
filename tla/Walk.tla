-------------------------------- MODULE Walk --------------------------------
(***************************************************************************)
(* e3.job.walk.Walk: the execution of a DAG of actions, once and again,    *)
(* where an action that has not changed since its last execution is        *)
(* skipped.  What tells is its fingerprint, saved when its job goes well.  *)
(*                                                                         *)
(* A walk gives its DAG to a Scheduler, of which only the promises matter  *)
(* here: those of DagExecution, whose actions this module composes with    *)
(* the two callbacks of Walk, get_job and collect.                         *)
(*                                                                         *)
(* Fingerprints are computed, saved and loaded by methods that a client    *)
(* defines.  They are modelled after the ones of the test suite            *)
(* (FingerprintWalk in tests/tests_e3/job/walk_test.py): the fingerprint   *)
(* of a job covers its source and the fingerprints of its predecessors,    *)
(* and is saved in a file that outlives the walk.                          *)
(*                                                                         *)
(* To say whether skipping is right the model has what the code has not:   *)
(* the output of each job, which depends on its source and on the outputs  *)
(* of its predecessors.  Between two walks the sources change.             *)
(***************************************************************************)
EXTENDS DagExecution

CONSTANTS
  Campaigns,    \* the series of walks: see Campaign
  Version,      \* the versions of a source
  Outcomes      \* the statuses an executed job may end with

\* late, untracked: the jobs that have no fingerprint before they are executed,
\*   and those that have none at all;
\* plain: the jobs that keep the `status' of class Job, "success";
\* walks, requeues: bounds on the number of walks, and on the requeues of a job
\*   that request_requeue grants in a walk.
Campaign ==
  [dag : [Vertex -> SUBSET Vertex],
   late : SUBSET Vertex, untracked : SUBSET Vertex, plain : SUBSET Vertex,
   walks : Nat, requeues : Nat]

ASSUME WalkAssumption ==
  /\ Campaigns \subseteq Campaign
  /\ Outcomes \subseteq {"success", "unchanged", "failure", "notready"}

Good == {"success", "skip", "unchanged"}
NoStatus == "none"

\* A fingerprint, and the content of an output, is the set of the sources it
\* covers, with their versions.  No fingerprint and no usable output: {}.
NoFingerprint == {}
Broken == {}

VARIABLES
  campaign,          \* the series of walks this is about
  walks,             \* the number of walks so far
  over,              \* the walk has ended, by itself or not
  job,               \* what get_job has returned: "none", "skipped", "created"
  result,            \* the status of the job of a vertex
  executing,         \* the jobs whose thread runs
  requeues,
  prev_fingerprints,
  new_fingerprints,
  job_status,
  failure_source,    \* {} for a key that is not there
  saved,             \* the fingerprints on disk
  source,            \* the version of the source of each job
  output,            \* the output of the last execution of each job
  untold             \* the plain jobs that, once, reported what they had not done

walkVars == <<prev_fingerprints, new_fingerprints, job_status, failure_source>>
diskVars == <<saved, source, output, untold>>
vars == <<campaign, execVars, walks, over, job, result, executing, requeues, walkVars, diskVars>>

ForAll(value) == [u \in Vertex |-> value]

WalkInit ==
  /\ campaign \in Campaigns
  /\ dag = campaign.dag
  /\ walks = 1
  /\ over = FALSE
  /\ status = ForAll("waiting")
  /\ job = ForAll("none")
  /\ result = ForAll(NoStatus)
  /\ executing = {}
  /\ requeues = ForAll(0)
  /\ prev_fingerprints = ForAll(NoFingerprint)
  /\ new_fingerprints = ForAll(NoFingerprint)
  /\ job_status = ForAll(NoStatus)
  /\ failure_source = ForAll({})
  /\ saved = ForAll(NoFingerprint)
  /\ source \in [Vertex -> Version]
  /\ output = ForAll(Broken)
  /\ untold = {}

----------------------------------------------------------------------------
(* Fingerprints.                                                           *)

\* compute_fingerprint
Compute(u, is_prediction, fingerprints) ==
  IF u \in campaign.untracked \/ (is_prediction /\ u \in campaign.late)
    THEN NoFingerprint
    ELSE {<<u, source[u]>>} \cup UNION {fingerprints[p] : p \in dag[u]}

\* What the execution of u produces.
Produced(u) == {<<u, source[u]>>} \cup UNION {output[p] : p \in dag[u]}

\* Variant: the fingerprints of the predecessors need not be known.
ShouldExecuteUnlessSame(u, prev, new) ==
  prev = NoFingerprint \/ new = NoFingerprint \/ prev # new

\* Variant: the prediction is not believed.
ShouldExecuteAlways(u, prev, new) == TRUE

\* should_execute_action
ShouldExecute(u, prev, new) ==
  \/ prev = NoFingerprint
  \/ new = NoFingerprint
  \/ \E p \in dag[u] : new_fingerprints[p] = NoFingerprint
  \/ prev # new

FailedPredecessors(u) == {p \in dag[u] : job_status[p] \notin Good}

----------------------------------------------------------------------------
(* get_job and collect.                                                    *)

\* Variants of GetJob, by what is on disk afterwards and by the sources of
\* the failure.
GetJobWith(u, onDisk, origins) ==
  /\ ~over
  /\ Runnable(u)
  /\ job[u] = "none"
  /\ saved' = onDisk
  /\ LET new == Compute(u, TRUE, new_fingerprints)
         verdict == IF FailedPredecessors(u) # {} THEN "force_fail"
                    ELSE IF ~ShouldExecute(u, saved[u], new) THEN "skip"
                    ELSE NoStatus
     IN /\ prev_fingerprints' = [prev_fingerprints EXCEPT ![u] = saved[u]]
        /\ new_fingerprints' = [new_fingerprints EXCEPT ![u] = new]
        /\ job' = [job EXCEPT ![u] = IF verdict = NoStatus THEN "created" ELSE "skipped"]
        /\ result' = [result EXCEPT ![u] = verdict]
        /\ failure_source' =
             IF verdict = "force_fail" THEN [failure_source EXCEPT ![u] = origins]
             ELSE failure_source
  /\ UNCHANGED <<campaign, execVars, walks, over, executing, requeues, job_status, source, output,
                 untold>>

\* The jobs that originate the failure of the predecessors of u.
Origins(u) ==
  UNION {IF failure_source[p] = {} THEN {p} ELSE failure_source[p] :
           p \in FailedPredecessors(u)}

Erased(u) == [saved EXCEPT ![u] = NoFingerprint]

\* Variants: the former fingerprint is kept; the predecessors are the origins.
GetJobKeepsSaved(u) == GetJobWith(u, saved, Origins(u))
GetJobBlamesPredecessors(u) == GetJobWith(u, Erased(u), FailedPredecessors(u))

\* The former fingerprint is loaded and removed from the disk; the job is
\* skipped because a predecessor failed or because nothing changed, or has to
\* be executed.
GetJob(u) ==
  /\ ~over
  /\ Runnable(u)
  /\ job[u] = "none"
  /\ saved' = Erased(u)
  /\ prev_fingerprints' = [prev_fingerprints EXCEPT ![u] = saved[u]]
  /\ LET new == Compute(u, TRUE, new_fingerprints)
         verdict == IF FailedPredecessors(u) # {} THEN "force_fail"
                    ELSE IF ~ShouldExecute(u, saved[u], new) THEN "skip"
                    ELSE NoStatus
     IN /\ new_fingerprints' = [new_fingerprints EXCEPT ![u] = new]
        /\ job' = [job EXCEPT ![u] = IF verdict = NoStatus THEN "created" ELSE "skipped"]
        /\ result' = [result EXCEPT ![u] = verdict]
        /\ failure_source' =
             IF verdict = "force_fail" THEN [failure_source EXCEPT ![u] = Origins(u)]
             ELSE failure_source
  /\ UNCHANGED <<campaign, execVars, walks, over, executing, requeues, job_status, source, output,
                 untold>>

\* collect for the jobs of S: those that went well have their final fingerprint
\* computed and saved.
CollectAll(S, statusOf) ==
  LET fine == {u \in S : statusOf[u] \in Good}
      final == [u \in Vertex |->
                  IF u \in fine THEN Compute(u, FALSE, new_fingerprints)
                  ELSE new_fingerprints[u]]
  IN /\ new_fingerprints' = final
     /\ saved' = [u \in Vertex |-> IF u \in fine THEN final[u] ELSE saved[u]]
     /\ job_status' = [u \in Vertex |-> IF u \in S THEN statusOf[u] ELSE job_status[u]]

\* enqueue() collects a job that should be skipped.
CollectSkipped(u) ==
  /\ ~over
  /\ job[u] = "skipped"
  /\ SkipJob(u)
  /\ CollectAll({u}, result)
  /\ UNCHANGED <<campaign, walks, over, job, result, executing, requeues, prev_fingerprints,
                 failure_source, source, output, untold>>

\* The scheduler launches a job, for the first time or again.
StartJob(u) ==
  /\ ~over
  /\ job[u] = "created"
  /\ Begin(u)
  /\ executing' = executing \cup {u}
  /\ result' = [result EXCEPT ![u] = NoStatus]
  /\ UNCHANGED <<campaign, walks, over, job, requeues, walkVars, diskVars>>

\* The thread of the job ends.  A plain job reports success whether it did what
\* it should, raised on its way or, cancelled, was not run.
JobEnds(u) ==
  /\ u \in executing
  /\ executing' = executing \ {u}
  /\ \E s \in IF u \in campaign.plain THEN {"success"} ELSE Outcomes,
        content \in {Produced(u), Broken, output[u]} :
       /\ u \notin campaign.plain => content = IF s \in Good THEN Produced(u) ELSE Broken
       /\ result' = [result EXCEPT ![u] = s]
       /\ output' = [output EXCEPT ![u] = content]
       /\ untold' = IF s \in Good /\ content # Produced(u) THEN untold \cup {u} ELSE untold
  /\ UNCHANGED <<campaign, execVars, walks, over, job, requeues, walkVars, saved, source>>

\* wait() collects the job; request_requeue may be granted.
Collect(u) ==
  /\ ~over
  /\ status[u] = "running"
  /\ u \notin executing
  /\ Complete(u)
  /\ CollectAll({u}, result)
  /\ status'[u] = "waiting" => result[u] = "notready" /\ requeues[u] < campaign.requeues
  /\ requeues' = [requeues EXCEPT ![u] = IF status'[u] = "waiting" THEN @ + 1 ELSE @]
  /\ UNCHANGED <<campaign, walks, over, job, result, executing, prev_fingerprints,
                 failure_source, source, output, untold>>

\* The status of a job the handler of Ctrl-C collects while it runs: a killed
\* or cancelled process is a failure.
InterruptedStatus ==
  [u \in Vertex |->
     IF u \notin executing THEN result[u]
     ELSE IF u \in campaign.plain THEN "success" ELSE "failure"]

\* Ctrl-C: the active jobs are interrupted and collected.  For a plain job that
\* is a flag its thread may no longer look at: it goes on.  So does a job that
\* was being launched, which is not among the active ones yet.
KeyboardInterrupt ==
  /\ ~over
  /\ over' = TRUE
  /\ \E left \in {{}} \cup {{u} : u \in executing} :
       LET active == {u \in Vertex : status[u] = "running"} \ left
           cut == (active \cap executing) \ campaign.plain
       IN /\ CollectAll(active, InterruptedStatus)
          /\ executing' = executing \ cut
          /\ output' = [u \in Vertex |-> IF u \in cut THEN Broken ELSE output[u]]
          /\ untold' = untold \cup ((active \cap executing) \ cut)
  /\ UNCHANGED <<campaign, execVars, walks, job, result, requeues, prev_fingerprints,
                 failure_source, source>>

\* The process that walks is killed.
Crash ==
  /\ ~over \/ executing # {}
  /\ over' = TRUE
  /\ output' = [u \in Vertex |-> IF u \in executing THEN Broken ELSE output[u]]
  /\ executing' = {}
  /\ UNCHANGED <<campaign, execVars, walks, job, result, requeues, walkVars, saved, source,
                 untold>>

Finished == \A u \in Vertex : status[u] = "done"

\* A new walk, in another process, after some sources have changed.  The former
\* process has waited for its threads.
NewWalk ==
  /\ over \/ Finished
  /\ executing = {}
  /\ walks < campaign.walks
  /\ walks' = walks + 1
  /\ over' = FALSE
  /\ status' = ForAll("waiting")
  /\ job' = ForAll("none")
  /\ result' = ForAll(NoStatus)
  /\ requeues' = ForAll(0)
  /\ prev_fingerprints' = ForAll(NoFingerprint)
  /\ new_fingerprints' = ForAll(NoFingerprint)
  /\ job_status' = ForAll(NoStatus)
  /\ failure_source' = ForAll({})
  /\ source' \in [Vertex -> Version]
  /\ UNCHANGED <<campaign, dag, executing, saved, output, untold>>

Stopped ==
  /\ over \/ Finished
  /\ walks = campaign.walks
  /\ UNCHANGED vars

WalkNext ==
  \/ \E u \in Vertex : \/ GetJob(u) \/ CollectSkipped(u) \/ StartJob(u)
                       \/ JobEnds(u) \/ Collect(u)
  \/ KeyboardInterrupt
  \/ Crash
  \/ NewWalk
  \/ Stopped

WalkSpec == WalkInit /\ [][WalkNext]_vars

----------------------------------------------------------------------------
(* Properties.                                                             *)

\* The vertices u depends on.
Ancestors(u) ==
  {a \in Vertex : \A S \in SUBSET Vertex :
     dag[u] \cup UNION {dag[s] : s \in S} \subseteq S => a \in S}

\* What the output of u would be if everything were built from the sources.
UpToDate(u) == {<<a, source[a]>> : a \in {u} \cup Ancestors(u)}

\* No plain job among u and those it depends on has reported what it had not
\* done, in this walk or in a former one.
Told(u) == ({u} \cup Ancestors(u)) \cap untold = {}

\* However many walks failed, crashed or were interrupted before, an action
\* that is done, executed or skipped, has the output its sources call for, if
\* what it is made of was reported as it was.
DoneIsUpToDate ==
  \A u \in Vertex :
    status[u] = "done" /\ job_status[u] \in Good /\ Told(u) => output[u] = UpToDate(u)

\* A fingerprint on disk is that of the last execution, which was not cut.
SavedIsOf(u) ==
  saved[u] # NoFingerprint =>
    u \notin executing /\ output[u] # Broken /\ saved[u] \subseteq output[u]

\* Of the jobs, and what they are made of, that were reported as they were.
SavedMeansDone == \A u \in Vertex : Told(u) => SavedIsOf(u)

\* "Only save the fingerprint if the job went as expected", as collect says it
\* of all jobs.  It does not hold of plain jobs, whose status is success when
\* they have raised, and when Ctrl-C has them collected while they run.
SavedAsExpected == \A u \in Vertex : SavedIsOf(u)

\* A job that is predicted to produce what it produced last time, as do all
\* those it depends on, is not executed.
NoNeedlessRun ==
  \A u \in Vertex :
    /\ job[u] = "created"
    /\ ({u} \cup Ancestors(u)) \cap (campaign.late \cup campaign.untracked) = {}
    => prev_fingerprints[u] # UpToDate(u)

\* A walk executes neither too little, for want of the truth about the last
\* execution, nor too much (should_execute_action).
IncrementalRight == SavedMeansDone /\ NoNeedlessRun

\* The origins of the failure of a job that was not executed are the jobs it
\* depends on that were, and failed.
FailureSourceExact ==
  \A u \in Vertex : result[u] = "force_fail" =>
    /\ failure_source[u] # {}
    /\ failure_source[u] =
         {a \in Ancestors(u) : job[a] = "created" /\ job_status[a] \notin Good}

=============================================================================
