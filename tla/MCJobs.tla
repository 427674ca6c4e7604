------------------------------- MODULE MCJobs --------------------------------
(***************************************************************************)
(* Small instances of the models of jobs and processes, in one run: a      *)
(* behaviour is a behaviour of one of them, its part, and leaves the state *)
(* of the others as it is.                                                 *)
(*                                                                         *)
(*   "jobs"      ProcessJob: two jobs on the one lock, one of which hangs  *)
(*   "timeout"   JobTimeout: three jobs on one clock                       *)
(*   "tree"      ProcessCalls: a root and up to three descendants, one of  *)
(*               them unkillable                                           *)
(*   "wait"      ProcessCalls: three processes to wait for                 *)
(*   "commands"  RunCommands: one command, or two in a pipe                *)
(***************************************************************************)
EXTENDS ProcessJob, ProcessCalls, JobTimeout, RunCommands

CONSTANTS Parts, j1, j2, root, p1, p2, p3

MCJob == {j1, j2}
MCHanging == {j2}
MCTimedJob == 1..3
MCPid == {root, p1, p2, p3}
MCImmune == {p1}

\* Commands that say more than a pipe holds, to either output, that say what
\* they read, or that read less than they are given.
Programs ==
  {Program("source", 3, 0), Program("source", 1, 3), Program("filter", 0, 0),
   Program("filter", 0, 2), Program("head", 0, 0)}
MCPipelines == {<<p>> : p \in Programs} \cup (Programs \X Programs)

VARIABLE part

allVars == <<vars, treeVars, waitVars, clockVars, runVars, part>>

Pick(S) == CHOOSE x \in S : TRUE
When(p, here, elsewhere) == IF part = p THEN here ELSE elsewhere

JobsInit ==
  /\ part \in Parts
  /\ Init /\ (part = "jobs" \/ mainJob = j1)
  /\ ClockInit
  /\ TreeInit /\ kill_pc = When("tree", "start", "idle")
  /\ WaitInit /\ pc = When("wait", "start", "idle")
              /\ (part = "wait" \/ (ended = {} /\ ~timeout))
  /\ RunInit /\ run_pc = When("commands", "start", "idle")
             /\ (part = "commands" \/ /\ cmds = Pick(Pipelines) /\ missing = {}
                                      /\ io = Pick([input : Inputs, output : Outputs,
                                                    error : Errors, bg : BOOLEAN]))

\* The object of a Run need not be used any more, and may wait for ever.
NoMoreCalls == part = "commands" /\ UNCHANGED allVars

JobsNext ==
  \/ part = "jobs" /\ Next /\ UNCHANGED <<treeVars, waitVars, clockVars, runVars, part>>
  \/ part = "timeout" /\ ClockNext /\ UNCHANGED <<vars, treeVars, waitVars, runVars, part>>
  \/ part = "tree" /\ TreeNext /\ UNCHANGED <<vars, waitVars, clockVars, runVars, part>>
  \/ part = "wait" /\ WaitNext /\ UNCHANGED <<vars, treeVars, clockVars, runVars, part>>
  \/ part = "commands" /\ RunNext /\ UNCHANGED <<vars, treeVars, waitVars, clockVars, part>>
  \/ NoMoreCalls

\* In each part its own fairness.  For "tree" and "wait": the caller runs, and
\* time passes; processes need not do anything, neither end nor fork.
PartFairness ==
  /\ \A j \in Job : /\ WF_vars(part = "jobs" /\ ThreadStep(j))
                    /\ WF_vars(part = "jobs" /\ ProcessExits(j))
                    /\ WF_vars(part = "jobs" /\ Interrupt(j))
  /\ WF_vars(part = "jobs" /\ Activate) /\ WF_vars(part = "jobs" /\ Kill)
  /\ WF_vars(part = "jobs" /\ CollectEnd)
  /\ WF_treeVars(part = "tree" /\ KillStep)
  /\ WF_waitVars(part = "wait" /\ WaitStep) /\ WF_waitVars(part = "wait" /\ TimePasses)
  /\ WF_runVars(part = "commands" /\ RunStep)
  /\ \A i \in 1..MaxCommands : WF_runVars(part = "commands" /\ i \in Cmds /\ Command(i))

JobsSpec == JobsInit /\ [][JobsNext]_allVars /\ PartFairness

\* What the answers of the two calls that watch processes do tell, although these
\* end and fork while they are watched (kill_process_tree, wait_for_processes).
ProcessCallsRight == OnlyEscapedSurvive /\ AnswerRight

\* kill_process_tree returns, whatever the processes do; and so does
\* wait_for_processes when it has a timeout, however many signals it gets or
\* misses, or once one of its processes has ended and it has not missed that.
CallReturns ==
  /\ kill_pc = "start" ~> kill_pc = "returned"
  /\ timeout /\ pc = "start" ~> pc = "returned"
  /\ EndIsNoticedOrMissed

\* Every call ends: the runs of jobs, those two calls, and Run with its commands.
EverythingEnds == EveryRunEnds /\ CallReturns /\ RunEnds

=============================================================================
