---------------------------- MODULE Jobs_proofs -----------------------------
(***************************************************************************)
(* Theorems about jobs and the processes they start: ProcessJob, for any   *)
(* number of jobs and of runs; ProcessCalls, for any tree and any list of  *)
(* processes; JobTimeout, for any number of jobs that run once;            *)
(* RunCommands, for any programs in any number of pipes.                   *)
(***************************************************************************)
EXTENDS MCJobs, FiniteSetTheorems, SequenceTheorems, TLAPS

----------------------------------------------------------------------------
(* ProcessJob.                                                             *)
(*                                                                         *)
(* The argument is who holds the lock: a thread is between the test of     *)
(* `interrupted' and the publication of proc_handle only while it holds    *)
(* the lock, and interrupt() sets `interrupted' with the lock.  So the     *)
(* handle interrupt() reads afterwards is that of the last process.        *)

\* The lock is held exactly where `with self.lock' has not been left.
LockInv ==
  /\ \A j \in Job : thread[j] \in {"spawn", "handle"} <=> lock = j
  /\ mainOp = "collect" <=> lock = Main

\* A living process is the last one of a thread that waits for it, or that is
\* about to publish it.
AliveInv ==
  \A j \in Job :
    /\ alive[j] => thread[j] \in {"handle", "wait"}
    /\ thread[j] = "wait" => proc_handle[j] = spawned[j]

\* No thread has yet to spawn or to publish a process once it is interrupted.
InterruptedInv ==
  /\ \A j \in Job : interrupted[j] => thread[j] \notin {"spawn", "handle"}
  /\ mainOp = "kill" => interrupted[mainJob]

\* Ctrl-C has cut the launch or the interruption of one job at most; the former
\* is not active and will not be.
CutInv ==
  /\ \A i, j \in cut : i = j
  /\ ~stopping => cut = {}
  /\ mainOp = "launch" => place[mainJob] = "started" /\ ~stopping
  /\ \A j \in Job : place[j] = "started" =>
       j \in cut \/ (mainOp = "launch" /\ mainJob = j)

\* A job whose thread runs is active, or being launched, until the handler of
\* Ctrl-C leaves it.
PlaceInv ==
  \A j \in Job :
    /\ thread[j] \notin {"none", "ended"} => place[j] # "queued"
    /\ place[j] = "left" /\ thread[j] \notin {"none", "ended"} =>
         stopping /\ interrupted[j]
    /\ mainOp = "collect" /\ mainJob = j =>
         /\ place[j] = "active"
         /\ IF stopping THEN interrupted[j] ELSE thread[j] = "ended"

ProcInv ==
  /\ TypeOK
  /\ LockInv
  /\ AliveInv
  /\ InterruptedInv
  /\ PlaceInv
  /\ CutInv
  /\ InterruptedForGood

LEMMA ProcInit == Init => ProcInv
<1> SUFFICES ASSUME Init PROVE ProcInv
  OBVIOUS
<1> USE ProcessJobAssumption DEF Init
<1>1. TypeOK
  BY DEF TypeOK, ThreadPlaces
<1>2. LockInv
  BY DEF LockInv
<1>3. AliveInv /\ PlaceInv /\ CutInv
  BY DEF AliveInv, PlaceInv, CutInv
<1>4. InterruptedInv /\ InterruptedForGood
  BY DEF InterruptedInv, InterruptedForGood
<1>5. QED
  BY <1>1, <1>2, <1>3, <1>4 DEF ProcInv

LEMMA ThreadStepInv ==
  ASSUME ProcInv, NEW j \in Job, ThreadStep(j)
  PROVE  ProcInv'
<1> USE ProcessJobAssumption
    DEF ProcInv, TypeOK, LockInv, AliveInv, InterruptedInv, PlaceInv, CutInv,
        InterruptedForGood, mainVars, procVars, handleVars
<1>1. CASE Begin(j)
  BY <1>1 DEF Begin, ThreadPlaces
<1>2. CASE Options(j)
  BY <1>2 DEF Options, ThreadPlaces
<1>3. CASE RunLock(j)
  BY <1>3 DEF RunLock, ThreadPlaces
<1>4. CASE Spawn(j)
  BY <1>4 DEF Spawn, ThreadPlaces
<1>5. CASE SpawnError(j)
  BY <1>5 DEF SpawnError, ThreadPlaces
<1>6. CASE Handle(j)
  BY <1>6 DEF Handle, ThreadPlaces
<1>7. CASE WaitReturns(j)
  BY <1>7 DEF WaitReturns, ThreadPlaces
<1>8. CASE Stop(j)
  BY <1>8 DEF Stop, ThreadPlaces
<1>9. QED
  BY <1>1, <1>2, <1>3, <1>4, <1>5, <1>6, <1>7, <1>8 DEF ThreadStep

LEMMA OtherStepInv ==
  ASSUME ProcInv,
         \/ \E j \in Job : \/ ProcessExits(j) \/ StartJob(j) \/ Interrupt(j)
                           \/ CollectBegin(j)
         \/ Activate \/ Kill \/ CollectEnd \/ KeyboardInterrupt
  PROVE  ProcInv'
<1> USE ProcessJobAssumption
    DEF ProcInv, TypeOK, LockInv, AliveInv, InterruptedInv, PlaceInv, CutInv,
        InterruptedForGood, mainVars, procVars, handleVars
<1>1. ASSUME NEW j \in Job, ProcessExits(j) PROVE ProcInv'
  BY <1>1 DEF ProcessExits
<1>2. ASSUME NEW j \in Job, StartJob(j) PROVE ProcInv'
  BY <1>2 DEF StartJob, ThreadPlaces
<1>3. ASSUME NEW j \in Job, Interrupt(j) PROVE ProcInv'
  BY <1>3 DEF Interrupt
<1>4. ASSUME NEW j \in Job, CollectBegin(j) PROVE ProcInv'
  BY <1>4 DEF CollectBegin
<1>5. CASE Kill
  <2>1. /\ alive' = [alive EXCEPT ![mainJob] = FALSE]
        /\ exit_code' \in [Job -> ExitCodes \cup {NoStatus, Killed}]
    BY <1>5 DEF Kill
  <2>2. TypeOK'
    BY <1>5, <2>1 DEF Kill
  <2>3. LockInv' /\ AliveInv' /\ InterruptedInv' /\ PlaceInv' /\ CutInv'
    BY <1>5, <2>1 DEF Kill
  <2>4. InterruptedForGood'
    BY <1>5, <2>1 DEF Kill
  <2>5. QED
    BY <2>2, <2>3, <2>4
<1>6. CASE CollectEnd
  BY <1>6 DEF CollectEnd
<1>7. CASE KeyboardInterrupt
  <2>1. /\ mainOp' = "idle" /\ stopping' = TRUE
        /\ cut' = IF mainOp \in {"launch", "kill"} THEN {mainJob} ELSE cut
        /\ lock' = IF lock = Main THEN Free ELSE lock
    BY <1>7 DEF KeyboardInterrupt
  <2>2. UNCHANGED <<mainJob, place, runs, thread, interrupted, raised, spawn_error,
                    spawned, alive, exit_code, spawned_in, proc_handle, status>>
    BY <1>7 DEF KeyboardInterrupt
  <2>3. cut' \subseteq Job /\ lock' \in Job \cup {Free, Main}
    BY <2>1
  <2>4. TypeOK'
    BY <2>1, <2>2, <2>3
  <2>5. LockInv' /\ AliveInv' /\ InterruptedInv'
    BY <2>1, <2>2
  <2>6. PlaceInv' /\ CutInv'
    BY <1>7, <2>1, <2>2 DEF KeyboardInterrupt
  <2>7. InterruptedForGood'
    BY <1>7, <2>1, <2>2 DEF KeyboardInterrupt
  <2>8. QED
    BY <2>4, <2>5, <2>6, <2>7
<1>8. CASE Activate
  BY <1>8 DEF Activate
<1>9. QED
  BY <1>1, <1>2, <1>3, <1>4, <1>5, <1>6, <1>7, <1>8

LEMMA ProcStutterInv == ProcInv /\ UNCHANGED vars => ProcInv'
BY DEF ProcInv, TypeOK, LockInv, AliveInv, InterruptedInv, PlaceInv, CutInv,
       InterruptedForGood, vars, mainVars, procVars, handleVars

LEMMA ProcInvariant == Spec => []ProcInv
<1>1. ProcInv /\ [Next]_vars => ProcInv'
  BY ThreadStepInv, OtherStepInv, ProcStutterInv DEF Next, Done
<1>2. QED
  BY <1>1, ProcInit, PTL DEF Spec

----------------------------------------------------------------------------
(* Statuses.  proc_handle and its status stay when a job is requeued, so   *)
(* that a run without process shows the status of a former one.            *)

\* The status "success" is that of the last run, which is over: a job with it
\* is not requeued.
SuccessInv ==
  \A j \in Job :
    /\ thread[j] \in {"handle", "wait"} => spawned_in[j] = runs[j] /\ spawned[j] # 0
    /\ status[j] = "success" =>
         /\ thread[j] \in {"stop", "ended"} /\ place[j] # "queued"
         /\ spawned_in[j] = runs[j] /\ exit_code[j] = "success"
         /\ proc_handle[j] # 0

\* A run is over because of its process, or for one of three other reasons.
OverInv ==
  \A j \in Job :
    thread[j] \in {"stop", "ended"} =>
      \/ interrupted[j] \/ raised[j] \/ spawn_error[j]
      \/ status[j] = exit_code[j] /\ proc_handle[j] # 0

StatusInv == SuccessInv /\ OverInv

LEMMA StatusInit == Init => StatusInv
BY DEF Init, StatusInv, SuccessInv, OverInv, NoStatus

LEMMA StatusThreadStep ==
  ASSUME ProcInv, StatusInv, NEW j \in Job, ThreadStep(j)
  PROVE  StatusInv'
<1> USE DEF ProcInv, TypeOK, AliveInv, PlaceInv, StatusInv, SuccessInv, OverInv,
            mainVars, procVars, handleVars, NoStatus
<1>1. CASE Begin(j)
  BY <1>1 DEF Begin
<1>2. CASE Options(j)
  BY <1>2 DEF Options
<1>3. CASE RunLock(j)
  BY <1>3 DEF RunLock
<1>4. CASE Spawn(j)
  BY <1>4 DEF Spawn
<1>5. CASE SpawnError(j)
  BY <1>5 DEF SpawnError
<1>6. CASE Handle(j)
  BY <1>6 DEF Handle
<1>7. CASE WaitReturns(j)
  BY <1>7 DEF WaitReturns
<1>8. CASE Stop(j)
  BY <1>8 DEF Stop
<1>9. QED
  BY <1>1, <1>2, <1>3, <1>4, <1>5, <1>6, <1>7, <1>8 DEF ThreadStep

LEMMA StatusOtherStep ==
  ASSUME ProcInv, StatusInv,
         \/ \E j \in Job : \/ ProcessExits(j) \/ StartJob(j) \/ Interrupt(j)
                           \/ CollectBegin(j)
         \/ Activate \/ Kill \/ CollectEnd \/ KeyboardInterrupt
  PROVE  StatusInv'
<1> USE DEF ProcInv, TypeOK, AliveInv, PlaceInv, StatusInv, SuccessInv, OverInv,
            mainVars, procVars, handleVars
<1>1. ASSUME NEW j \in Job, ProcessExits(j) PROVE StatusInv'
  BY <1>1 DEF ProcessExits
<1>2. ASSUME NEW j \in Job, StartJob(j) PROVE StatusInv'
  BY <1>2 DEF StartJob
<1>3. ASSUME NEW j \in Job, Interrupt(j) PROVE StatusInv'
  BY <1>3 DEF Interrupt
<1>4. ASSUME NEW j \in Job, CollectBegin(j) PROVE StatusInv'
  BY <1>4 DEF CollectBegin
<1>5. CASE Kill
  <2>1. \A j \in Job : exit_code'[j] = exit_code[j] \/ thread[j] \in {"handle", "wait"}
    BY <1>5 DEF Kill
  <2>2. QED
    BY <1>5, <2>1 DEF Kill
<1>6. CASE CollectEnd
  <2>1. ASSUME status[mainJob] = "success" PROVE JobStatus(mainJob) # "notready"
    BY <2>1 DEF JobStatus, ExitCodes
  <2>2. QED
    BY <1>6, <2>1 DEF CollectEnd
<1>7. CASE KeyboardInterrupt
  BY <1>7 DEF KeyboardInterrupt
<1>8. CASE Activate
  BY <1>8 DEF Activate
<1>9. QED
  BY <1>1, <1>2, <1>3, <1>4, <1>5, <1>6, <1>7, <1>8

LEMMA StatusInvariant == Spec => []StatusInv
<1>1. StatusInv /\ UNCHANGED vars => StatusInv'
  BY DEF StatusInv, SuccessInv, OverInv, vars, mainVars, procVars, handleVars
<1>2. ProcInv /\ StatusInv /\ [Next]_vars => StatusInv'
  BY <1>1, StatusThreadStep, StatusOtherStep DEF Next, Done
<1>3. QED
  BY <1>2, StatusInit, ProcInvariant, PTL DEF Spec

----------------------------------------------------------------------------
(* Theorems.                                                               *)

\* The variables keep their types.
THEOREM ProcTypeCorrect == Spec => []TypeOK
<1>1. ProcInv => TypeOK
  BY DEF ProcInv
<1>2. QED
  BY <1>1, ProcInvariant, PTL

\* Unless Ctrl-C cuts interrupt() short, no process of an interrupted job is
\* left alive, nor will one be spawned.
THEOREM InterruptedForGoodHolds == Spec => []InterruptedForGood
<1>1. ProcInv => InterruptedForGood
  BY DEF ProcInv
<1>2. QED
  BY <1>1, ProcInvariant, PTL

\* The end of a job is notified after the end of its process.
THEOREM EndedWithProcessHolds == Spec => []EndedWithProcess
<1>1. ProcInv => EndedWithProcess
  BY DEF ProcInv, AliveInv, EndedWithProcess
<1>2. QED
  BY <1>1, ProcInvariant, PTL

\* safe_collect: no process is created while collect runs.
THEOREM NoSpawnDuringCollectHolds == Spec => NoSpawnDuringCollect
<1> DEFINE A == mainOp = "collect" => spawned' = spawned
<1>1. ProcInv /\ [Next]_vars => [A]_vars
  <2> SUFFICES ASSUME ProcInv, Next, mainOp = "collect"
               PROVE  spawned' = spawned
    OBVIOUS
  <2>1. \A j \in Job : thread[j] # "spawn"
    BY ProcessJobAssumption DEF ProcInv, LockInv
  <2>2. QED
    BY <2>1 DEF Next, ThreadStep, Begin, Options, RunLock, Spawn, SpawnError, Handle,
                WaitReturns, Stop, ProcessExits, StartJob, Interrupt, CollectBegin,
                Activate, Kill, CollectEnd, KeyboardInterrupt, Done, vars, procVars
<1>2. QED
  BY <1>1, ProcInvariant, PTL DEF Spec, NoSpawnDuringCollect

\* Once the handler of Ctrl-C is through at most one process remains, wherever it
\* hit the main thread: that of a job whose thread had been started and that was
\* not active yet, or of one that was between the flag and the kill of
\* interrupt(); the latter spawns no other.
THEOREM OnlyCutSurvivesHolds == Spec => []OnlyCutSurvives
<1>1. ProcInv => OnlyCutSurvives
  BY DEF ProcInv, TypeOK, AliveInv, InterruptedInv, PlaceInv, CutInv, InterruptedForGood,
         HandlerDone, OnlyCutSurvives
<1>2. QED
  BY <1>1, ProcInvariant, PTL

\* wait() takes no former success for that of a run that spawned no process.
THEOREM SuccessIsOfLastRunHolds == Spec => []SuccessIsOfLastRun
<1>1. StatusInv => SuccessIsOfLastRun
  BY DEF StatusInv, SuccessInv, SuccessIsOfLastRun, JobStatus, ExitCodes
<1>2. QED
  BY <1>1, StatusInvariant, PTL

\* A job is requeued because its process asked for it, or because it has not
\* run one: it was cancelled, or cmd_options raised an exception.
THEOREM NotreadyExplainedHolds == Spec => []NotreadyExplained
<1>1. ProcInv /\ StatusInv => NotreadyExplained
  BY DEF ProcInv, PlaceInv, StatusInv, OverInv, NotreadyExplained, Collecting,
         JobStatus, ExitCodes
<1>2. QED
  BY <1>1, ProcInvariant, StatusInvariant, PTL

----------------------------------------------------------------------------
(* kill_process_tree.                                                      *)
(*                                                                         *)
(* While the list is not made, a process that has not escaped is the root  *)
(* or one of its descendants; from then on, it is in the list.             *)

TreeInv ==
  /\ proc \in [Pid -> {"unborn", "alive", "dead"}]
  /\ parent \in [Pid -> Pid \cup {Init1}]
  /\ \A p \in Pid : proc[p] = "unborn" => parent[p] = Init1
  /\ kill_pc = "start" => \A p \in Pid \ escaped :
       Alive(p) => p = Root \/ (Alive(Root) /\ p \in Descendants(Root))
  /\ kill_pc \in {"listed", "wait", "returned"} =>
       \A p \in Pid \ escaped : Alive(p) => p \in listed
  /\ kill_pc \in {"idle", "start"} => listed = {}
  /\ kill_pc \in {"idle", "start", "listed", "wait", "returned"}
  /\ OnlyEscapedSurvive

LEMMA TreeInitInv == TreeInit => TreeInv
BY ProcessTreeAssumption DEF TreeInit, TreeInv, Alive, OnlyEscapedSurvive

\* The descendants of p are closed under `is a child of'.
LEMMA DescendantsClosed ==
  ASSUME NEW p \in Pid, NEW d \in Pid,
         parent[d] = p \/ parent[d] \in Descendants(p)
  PROVE  d \in Descendants(p)
BY DEF Descendants

\* A fork takes nobody out of the tree, and adds the child.
LEMMA ForkDescends ==
  ASSUME TreeInv, NEW p \in Pid, NEW c \in Pid, Fork(p, c)
  PROVE  /\ Descendants(Root) \subseteq Descendants(Root)'
         /\ p = Root \/ p \in Descendants(Root) => c \in Descendants(Root)'
<1> USE ProcessTreeAssumption
<1>1. /\ parent' = [parent EXCEPT ![c] = p]
      /\ parent[c] = Init1
      /\ parent \in [Pid -> Pid \cup {Init1}]
  BY DEF Fork, TreeInv
<1>2. ASSUME NEW x \in Descendants(Root)
      PROVE  x \in Descendants(Root)'
  <2> SUFFICES ASSUME NEW S \in SUBSET Pid,
                      {d \in Pid : parent'[d] = Root \/ parent'[d] \in S} \subseteq S
               PROVE  x \in S
    BY <1>2 DEF Descendants
  <2>1. {d \in Pid : parent[d] = Root \/ parent[d] \in S} \subseteq S
    BY <1>1
  <2>2. QED
    BY <1>2, <2>1 DEF Descendants
<1>3. parent'[c] = p
  BY <1>1
<1>4. p = Root => c \in Descendants(Root)'
  BY <1>3 DEF Descendants
<1>5. p \in Descendants(Root) => c \in Descendants(Root)'
  BY <1>2, <1>3 DEF Descendants
<1>6. QED
  BY <1>2, <1>4, <1>5

\* When p ends, its descendants alone leave the tree.
LEMMA EndDescends ==
  ASSUME TreeInv, NEW p \in Pid, p # Root, Die(p),
         NEW q \in Descendants(Root), q # p, q \notin Descendants(p)
  PROVE  q \in Descendants(Root)'
<1> USE ProcessTreeAssumption
<1> SUFFICES ASSUME NEW S \in SUBSET Pid,
                    {d \in Pid : parent'[d] = Root \/ parent'[d] \in S} \subseteq S
             PROVE  q \in S
  BY DEF Descendants
<1>1. \A d \in Pid : parent'[d] = IF parent[d] = p THEN Init1 ELSE parent[d]
  BY DEF Die
<1> DEFINE U == S \cup Descendants(p) \cup {p}
<1>2. U \in SUBSET Pid
  BY DEF Descendants
<1>3. {d \in Pid : parent[d] = Root \/ parent[d] \in U} \subseteq U
  <2> SUFFICES ASSUME NEW d \in Pid, parent[d] = Root \/ parent[d] \in U
               PROVE  d \in U
    OBVIOUS
  <2>1. CASE parent[d] = p \/ parent[d] \in Descendants(p)
    BY <2>1, DescendantsClosed
  <2>2. CASE parent[d] # p /\ (parent[d] = Root \/ parent[d] \in S)
    BY <1>1, <2>2
  <2>3. QED
    BY <2>1, <2>2
<1>4. q \in U
  BY <1>2, <1>3 DEF Descendants
<1>5. QED
  BY <1>4

LEMMA TreeStepInv == TreeInv /\ [TreeNext]_treeVars => TreeInv'
<1> SUFFICES ASSUME TreeInv, [TreeNext]_treeVars
             PROVE  TreeInv'
  OBVIOUS
<1> USE ProcessTreeAssumption
<1>1. CASE UNCHANGED treeVars
  BY <1>1 DEF treeVars, treeProcVars, TreeInv, Alive, OnlyEscapedSurvive, Descendants
<1>2. ASSUME NEW p \in Pid, NEW c \in Pid, Fork(p, c)
      PROVE  TreeInv'
  <2>1. /\ proc \in [Pid -> {"unborn", "alive", "dead"}]
        /\ parent \in [Pid -> Pid \cup {Init1}]
        /\ proc' = [proc EXCEPT ![c] = "alive"]
        /\ parent' = [parent EXCEPT ![c] = p]
        /\ proc[p] = "alive" /\ proc[c] = "unborn"
        /\ escaped' = escaped \cup (IF kill_pc # "start" \/ p \in escaped THEN {c} ELSE {})
        /\ UNCHANGED <<kill_pc, listed, to_kill, killed>>
    BY <1>2 DEF Fork, Alive, TreeInv
  <2>2. kill_pc = "start" => \A q \in Pid \ escaped' :
          proc'[q] = "alive" =>
            q = Root \/ (proc'[Root] = "alive" /\ q \in Descendants(Root)')
    BY <1>2, <2>1, ForkDescends DEF TreeInv, Alive
  <2>3. QED
    BY <2>1, <2>2 DEF TreeInv, Alive, OnlyEscapedSurvive
<1>3. ASSUME NEW p \in Pid, EndsByItself(p)
      PROVE  TreeInv'
  <2>1. /\ proc \in [Pid -> {"unborn", "alive", "dead"}]
        /\ parent \in [Pid -> Pid \cup {Init1}]
        /\ proc' = [proc EXCEPT ![p] = "dead"]
        /\ parent' = [c \in Pid |-> IF parent[c] = p THEN Init1 ELSE parent[c]]
        /\ escaped' = escaped \cup (IF kill_pc = "start" THEN Descendants(p) ELSE {})
        /\ UNCHANGED <<kill_pc, listed, to_kill, killed>>
    BY <1>3 DEF EndsByItself, Die, TreeInv
  <2>2. ASSUME kill_pc = "start", NEW q \in Pid \ escaped', proc'[q] = "alive", q # Root
        PROVE  proc'[Root] = "alive" /\ q \in Descendants(Root)'
    <3>1. /\ q # p /\ proc[q] = "alive" /\ q \notin escaped
          /\ q \notin Descendants(p)
      BY <2>1, <2>2
    <3>2. Alive(Root) /\ q \in Descendants(Root)
      BY <2>2, <3>1 DEF TreeInv, Alive
    <3>3. p # Root
      BY <3>1, <3>2
    <3>4. Die(p)
      BY <1>3 DEF EndsByItself
    <3>5. QED
      BY <2>1, <3>1, <3>2, <3>3, <3>4, EndDescends DEF Alive
  <2>3. QED
    BY <2>1, <2>2 DEF TreeInv, Alive, OnlyEscapedSurvive
<1>4. CASE List
  BY <1>4 DEF List, treeProcVars, TreeInv, Alive, Children, OnlyEscapedSurvive
<1>5. CASE ListNothing
  BY <1>5 DEF ListNothing, treeProcVars, TreeInv, Alive, OnlyEscapedSurvive
<1>6. ASSUME NEW p \in Pid, KillNext(p)
      PROVE  TreeInv'
  <2>1. /\ kill_pc = "listed"
        /\ UNCHANGED <<escaped, kill_pc, listed, killed>>
        /\ \/ UNCHANGED <<proc, parent>>
           \/ /\ proc' = [proc EXCEPT ![p] = "dead"]
              /\ parent' = [c \in Pid |-> IF parent[c] = p THEN Init1 ELSE parent[c]]
    BY <1>6 DEF KillNext, Die
  <2>2. QED
    BY <2>1 DEF TreeInv, Alive, OnlyEscapedSurvive
<1>7. CASE KilledAll
  BY <1>7 DEF KilledAll, treeProcVars, TreeInv, Alive, OnlyEscapedSurvive
<1>8. CASE WaitProcs
  BY <1>8 DEF WaitProcs, treeProcVars, TreeInv, Alive, OnlyEscapedSurvive
<1>9. CASE TreeReturned
  BY <1>1, <1>9 DEF TreeReturned
<1>10. QED
  BY <1>1, <1>2, <1>3, <1>4, <1>5, <1>6, <1>7, <1>8, <1>9 DEF TreeNext, KillStep

----------------------------------------------------------------------------
(* wait_for_processes.                                                     *)

WaitInv ==
  /\ index \in Processes
  /\ expired => timeout
  /\ pc # "returned" => result = NoIndex
  /\ AnswerRight

LEMMA WaitInitInv == WaitInit => WaitInv
BY WaitAssumption DEF WaitInit, WaitInv, AnswerRight, Processes

LEMMA WaitStepInv == WaitInv /\ [WaitNext]_waitVars => WaitInv'
<1> SUFFICES ASSUME WaitInv, [WaitNext]_waitVars
             PROVE  WaitInv'
  OBVIOUS
<1> USE WaitAssumption DEF WaitInv, AnswerRight, Processes, NoIndex
<1>1. CASE UNCHANGED waitVars
  BY <1>1 DEF waitVars
<1>2. CASE WaitStep
  BY <1>2 DEF WaitStep, Install, RunHandler, PollEnded, PollNext, Block, SelectReturns,
              Loop, Bytecode
<1>3. ASSUME NEW i \in Processes, ProcessEnds(i)
      PROVE  WaitInv'
  BY <1>3 DEF ProcessEnds
<1>4. CASE OtherEnds \/ TimePasses
  BY <1>4 DEF OtherEnds, TimePasses
<1>5. CASE WaitReturned \/ WaitHangs
  BY <1>1, <1>5 DEF WaitReturned, WaitHangs
<1>6. QED
  BY <1>1, <1>2, <1>3, <1>4, <1>5 DEF WaitNext

\* kill_process_tree, which says True, lets no process survive but those SIGKILL
\* has not ended in time and those that had left the tree or came after the list was
\* made; wait_for_processes says None only after its timeout, and else names a
\* process that has ended: for any tree, list and timing of the processes.
THEOREM ProcessCallsRightHolds == JobsSpec => []ProcessCallsRight
<1>1. JobsInit => TreeInv /\ WaitInv
  BY TreeInitInv, WaitInitInv DEF JobsInit
<1>2. (TreeInv /\ WaitInv) /\ [JobsNext]_allVars => (TreeInv /\ WaitInv)'
  <2> SUFFICES ASSUME TreeInv, WaitInv, [JobsNext]_allVars
               PROVE  TreeInv' /\ WaitInv'
    OBVIOUS
  <2>1. [TreeNext]_treeVars
    BY DEF JobsNext, NoMoreCalls, allVars
  <2>2. [WaitNext]_waitVars
    BY DEF JobsNext, NoMoreCalls, allVars
  <2>3. QED
    BY <2>1, <2>2, TreeStepInv, WaitStepInv
<1>3. TreeInv /\ WaitInv => ProcessCallsRight
  BY DEF TreeInv, WaitInv, ProcessCallsRight
<1>4. QED
  BY <1>1, <1>2, <1>3, PTL DEF JobsSpec

----------------------------------------------------------------------------
(* Sequences: what the operators used below do to the set of the elements. *)

LEMMA SeqElements ==
  ASSUME NEW S, NEW s \in Seq(S)
  PROVE  /\ DOMAIN s = 1..Len(s)
         /\ Len(s) \in Nat
         /\ \A i \in DOMAIN s : s[i] \in S
         /\ ToSet(s) \subseteq S
BY LenProperties, ElementOfSeq DEF ToSet

LEMMA AppendElements ==
  ASSUME NEW S, NEW s \in Seq(S), NEW e \in S
  PROVE  /\ Append(s, e) \in Seq(S)
         /\ ToSet(Append(s, e)) = ToSet(s) \cup {e}
         /\ IsInjective(s) /\ e \notin ToSet(s) => IsInjective(Append(s, e))
<1> DEFINE t == Append(s, e)
<1>1. /\ t \in Seq(S)
      /\ Len(t) = Len(s) + 1
      /\ \A i \in 1..Len(s) : t[i] = s[i]
      /\ t[Len(s) + 1] = e
  BY AppendProperties
<1>2. /\ DOMAIN s = 1..Len(s)
      /\ DOMAIN t = 1..(Len(s) + 1)
      /\ Len(s) \in Nat
  BY <1>1, LenProperties
<1> HIDE DEF t
<1>3. ToSet(t) = ToSet(s) \cup {e}
  BY <1>1, <1>2 DEF ToSet
<1>4. IsInjective(s) /\ e \notin ToSet(s) => IsInjective(t)
  BY <1>1, <1>2 DEF ToSet, IsInjective
<1>5. QED
  BY <1>1, <1>3, <1>4 DEF t

LEMMA TailElements ==
  ASSUME NEW S, NEW s \in Seq(S), s # <<>>
  PROVE  /\ Tail(s) \in Seq(S)
         /\ Head(s) \in S
         /\ Head(s) \in ToSet(s)
         /\ ToSet(s) = ToSet(Tail(s)) \cup {Head(s)}
         /\ IsInjective(s) => /\ IsInjective(Tail(s))
                              /\ Head(s) \notin ToSet(Tail(s))
<1> DEFINE t == Tail(s)
           h == Head(s)
<1>1. /\ h \in S
      /\ t \in Seq(S)
      /\ Len(t) = Len(s) - 1
      /\ \A i \in 1..Len(t) : t[i] = s[i + 1]
  BY HeadTailProperties
<1>2. /\ DOMAIN s = 1..Len(s)
      /\ DOMAIN t = 1..(Len(s) - 1)
      /\ Len(s) \in Nat \ {0}
      /\ h = s[1]
  BY <1>1, LenProperties, EmptySeq
<1> HIDE DEF t, h
<1>3. h \in ToSet(s)
  BY <1>2 DEF ToSet
<1>4. ToSet(s) = ToSet(t) \cup {h}
  <2>1. \A i \in 1..Len(s) : i = 1 \/ (i - 1 \in 1..Len(t) /\ t[i - 1] = s[i])
    BY <1>1, <1>2
  <2>2. \A i \in 1..Len(t) : i + 1 \in 1..Len(s) /\ t[i] = s[i + 1]
    BY <1>1, <1>2
  <2>3. ToSet(s) \subseteq ToSet(t) \cup {h}
    BY <1>1, <1>2, <2>1 DEF ToSet
  <2>4. ToSet(t) \subseteq ToSet(s)
    BY <1>1, <1>2, <2>2 DEF ToSet
  <2>5. QED
    BY <1>3, <2>3, <2>4
<1>5. IsInjective(s) => IsInjective(t) /\ h \notin ToSet(t)
  <2>1. \A i \in DOMAIN t : i + 1 \in DOMAIN s /\ i + 1 # 1 /\ t[i] = s[i + 1]
    BY <1>1, <1>2
  <2>2. 1 \in DOMAIN s
    BY <1>2
  <2>3. IsInjective(s) => IsInjective(t)
    <3>1. \A i, k \in DOMAIN t : i + 1 = k + 1 => i = k
      BY <1>2
    <3>2. QED
      BY <2>1, <3>1 DEF IsInjective
  <2>4. IsInjective(s) => h \notin ToSet(t)
    BY <1>2, <2>1, <2>2 DEF ToSet, IsInjective
  <2>5. QED
    BY <2>3, <2>4
<1>6. QED
  BY <1>1, <1>3, <1>4, <1>5 DEF t, h

LEMMA RemoveAtElements ==
  ASSUME NEW S, NEW s \in Seq(S), NEW i \in DOMAIN s
  PROVE  /\ RemoveAt(s, i) \in Seq(S)
         /\ ToSet(s) = ToSet(RemoveAt(s, i)) \cup {s[i]}
         /\ IsInjective(s) => /\ IsInjective(RemoveAt(s, i))
                              /\ s[i] \notin ToSet(RemoveAt(s, i))
         /\ \A k \in DOMAIN RemoveAt(s, i) :
              RemoveAt(s, i)[k] = s[IF k < i THEN k ELSE k + 1]
         /\ DOMAIN RemoveAt(s, i) = 1..(Len(s) - 1)
<1> DEFINE n == Len(s)
           a == SubSeq(s, 1, i - 1)
           b == SubSeq(s, i + 1, n)
           t == a \o b
<1>1. /\ DOMAIN s = 1..n
      /\ n \in Nat
      /\ i \in 1..n
      /\ \A k \in 1..n : s[k] \in S
  BY LenProperties, ElementOfSeq
<1>2. /\ a \in Seq(S)
      /\ Len(a) = i - 1
      /\ \A k \in 1..(i - 1) : a[k] = s[k]
  <2>1. \A k \in 1..(i - 1) : s[k] \in S
    BY <1>1
  <2>2. QED
    BY <1>1, <2>1, SubSeqProperties
<1>3. /\ b \in Seq(S)
      /\ Len(b) = n - i
      /\ \A k \in 1..(n - i) : b[k] = s[i + k]
  <2>1. \A k \in (i + 1)..n : s[k] \in S
    BY <1>1
  <2>2. QED
    BY <1>1, <2>1, SubSeqProperties
<1> HIDE DEF a, b, n
<1>4. /\ t \in Seq(S)
      /\ Len(t) = n - 1
      /\ \A k \in 1..(n - 1) : t[k] = IF k < i THEN s[k] ELSE s[k + 1]
  <2>1. /\ t \in Seq(S)
        /\ Len(t) = Len(a) + Len(b)
        /\ \A k \in 1..(Len(a) + Len(b)) :
             t[k] = IF k <= Len(a) THEN a[k] ELSE b[k - Len(a)]
    BY <1>2, <1>3, ConcatProperties
  <2>2. Len(a) + Len(b) = n - 1
    BY <1>1, <1>2, <1>3
  <2>3. ASSUME NEW k \in 1..(n - 1)
        PROVE  t[k] = IF k < i THEN s[k] ELSE s[k + 1]
    <3> HIDE DEF t
    <3>1. CASE k < i
      BY <1>1, <1>2, <2>1, <2>2, <3>1
    <3>2. CASE ~(k < i)
      <4>1. k - (i - 1) \in 1..(n - i) /\ i + (k - (i - 1)) = k + 1
        BY <1>1, <3>2
      <4>2. t[k] = b[k - (i - 1)]
        BY <1>1, <1>2, <2>1, <2>2, <3>2
      <4>3. QED
        BY <1>3, <3>2, <4>1, <4>2
    <3>3. QED
      BY <3>1, <3>2
  <2>4. QED
    BY <2>1, <2>2, <2>3
<1>5. DOMAIN t = 1..(n - 1)
  BY <1>4, LenProperties
<1> HIDE DEF t
<1>6. ToSet(s) = ToSet(t) \cup {s[i]}
  <2>1. \A k \in 1..n : \/ k = i
                        \/ k \in 1..(n - 1) /\ k < i /\ t[k] = s[k]
                        \/ k - 1 \in 1..(n - 1) /\ t[k - 1] = s[k]
    BY <1>1, <1>4
  <2>2. \A k \in 1..(n - 1) : \E m \in 1..n : t[k] = s[m]
    <3>1. \A k \in 1..(n - 1) : k + 1 \in 1..n /\ k \in 1..n
      BY <1>1
    <3>2. QED
      BY <1>4, <3>1
  <2>3. ToSet(t) \subseteq ToSet(s)
    BY <1>1, <1>5, <2>2 DEF ToSet
  <2>4. ToSet(s) \subseteq ToSet(t) \cup {s[i]}
    BY <1>1, <1>5, <2>1 DEF ToSet
  <2>5. QED
    BY <1>1, <2>3, <2>4 DEF ToSet
<1>7. ASSUME IsInjective(s)
      PROVE  IsInjective(t) /\ s[i] \notin ToSet(t)
  <2>1. \A k, m \in 1..n : s[k] = s[m] => k = m
    BY <1>1, <1>7 DEF IsInjective
  <2>2. ASSUME NEW k \in 1..(n - 1), NEW m \in 1..(n - 1), t[k] = t[m]
        PROVE  k = m
    <3>1. k \in 1..n /\ k + 1 \in 1..n /\ m \in 1..n /\ m + 1 \in 1..n
      BY <1>1
    <3>2. QED
      BY <1>1, <1>4, <2>1, <2>2, <3>1
  <2>3. ASSUME NEW k \in 1..(n - 1)
        PROVE  t[k] # s[i]
    <3>1. k \in 1..n /\ k + 1 \in 1..n
      BY <1>1
    <3>2. QED
      BY <1>1, <1>4, <2>1, <3>1
  <2>4. QED
    BY <1>5, <2>2, <2>3 DEF IsInjective, ToSet
<1>8. RemoveAt(s, i) = t
  BY DEF RemoveAt, t, a, b, n
<1>9. n = Len(s)
  BY DEF n
<1>10. QED
  BY <1>4, <1>5, <1>6, <1>7, <1>8, <1>9

----------------------------------------------------------------------------
(* The clock of wait().                                                    *)
(*                                                                         *)
(* The first of active_jobs is the oldest, so that a deadline that suits   *)
(* it suits all the others.  A job is late by one unit at most for each    *)
(* job whose end wait() has handled before, which made it wait again.      *)

\* The jobs whose end wait() has handled.
Handled == {j \in TimedJob : launches[j] = 1 /\ j \notin ToSet(active_jobs)}

ClockTypeOK ==
  /\ clock \in Nat
  /\ wait_pc \in {"launch", "wait"}
  /\ active_jobs \in Seq(TimedJob)
  /\ message_queue \in Seq(TimedJob)
  /\ queued \subseteq TimedJob
  /\ launches \in [TimedJob -> {0, 1}]
  /\ running \subseteq TimedJob
  /\ timed_out \subseteq TimedJob
  /\ start_time \in [TimedJob -> Nat \cup {NoTime}]
  /\ stop_time \in [TimedJob -> Nat \cup {NoTime}]
  /\ deadline \in Nat

\* Where a job is: active from its launch until its end is handled; its thread
\* runs, or has left a message.
ClockPlaces ==
  /\ IsInjective(active_jobs) /\ IsInjective(message_queue)
  /\ ToSet(active_jobs) = running \cup ToSet(message_queue)
  /\ running \cap ToSet(message_queue) = {}
  /\ \A j \in ToSet(active_jobs) : launches[j] = 1 /\ start_time[j] \in 0..clock
  /\ \A j \in TimedJob : launches[j] = 0 \/ j \in running => stop_time[j] = NoTime
  /\ wait_pc = "wait" => active_jobs # <<>>

OldestFirst ==
  \A i, k \in DOMAIN active_jobs :
    i < k => start_time[active_jobs[i]] <= start_time[active_jobs[k]]

\* How late the oldest job may be.
LateBy == Cardinality(Handled) + (IF wait_pc = "wait" THEN 1 ELSE 0)

NoneTooLate ==
  \A j \in ToSet(active_jobs) : clock <= start_time[j] + JobTimeoutValue + LateBy

\* The deadline is that of the first job.
DeadlineRight ==
  wait_pc = "wait" /\ Head(active_jobs) \in running =>
    /\ deadline >= start_time[Head(active_jobs)] + JobTimeoutValue
    /\ Head(active_jobs) \notin timed_out =>
         deadline <= start_time[Head(active_jobs)] + JobTimeoutValue + LateBy

ClockInv ==
  /\ ClockTypeOK
  /\ ClockPlaces
  /\ OldestFirst
  /\ NoneTooLate
  /\ DeadlineRight

LEMMA HandledFinite ==
  ASSUME ClockTypeOK
  PROVE  /\ IsFiniteSet(Handled)
         /\ Cardinality(Handled) \in Nat
         /\ LateBy \in Nat
         /\ \A j \in TimedJob : j \notin Handled =>
              Cardinality(Handled \cup {j}) = Cardinality(Handled) + 1
<1>1. Handled \subseteq TimedJob
  BY DEF Handled
<1>2. IsFiniteSet(Handled)
  BY <1>1, JobTimeoutAssumption, FS_Subset
<1>3. QED
  BY <1>2, FS_CardinalityType, FS_AddElement DEF LateBy

LEMMA ClockInitInv == ClockInit => ClockInv
<1> SUFFICES ASSUME ClockInit
             PROVE  ClockInv
  OBVIOUS
<1>1. /\ DOMAIN active_jobs = {} /\ active_jobs \in Seq(TimedJob) /\ ToSet(active_jobs) = {}
      /\ DOMAIN message_queue = {} /\ message_queue \in Seq(TimedJob)
      /\ ToSet(message_queue) = {}
  BY EmptySeq DEF ClockInit, ToSet
<1>2. ClockTypeOK
  BY <1>1 DEF ClockInit, ClockTypeOK, NoTime
<1>3. ClockPlaces /\ OldestFirst /\ NoneTooLate /\ DeadlineRight
  BY <1>1 DEF ClockInit, ClockPlaces, OldestFirst, NoneTooLate, DeadlineRight, IsInjective
<1>4. QED
  BY <1>2, <1>3 DEF ClockInv

LEMMA LaunchClockInv ==
  ASSUME ClockInv, NEW j \in TimedJob, Launch(j), MaxLaunches = 1
  PROVE  ClockInv'
<1> USE DEF ClockInv
<1>1. /\ active_jobs \in Seq(TimedJob) /\ launches[j] = 0
      /\ j \notin ToSet(active_jobs)
  BY DEF Launch, ClockTypeOK, ClockPlaces
<1>2. /\ active_jobs' = Append(active_jobs, j)
      /\ active_jobs' \in Seq(TimedJob)
      /\ ToSet(active_jobs') = ToSet(active_jobs) \cup {j}
      /\ IsInjective(active_jobs) => IsInjective(active_jobs')
  BY <1>1, AppendElements DEF Launch
<1>3. ClockTypeOK'
  BY <1>1, <1>2 DEF Launch, ClockTypeOK
<1>4. ClockPlaces'
  BY <1>1, <1>2 DEF Launch, ClockTypeOK, ClockPlaces, NoTime
<1>5. OldestFirst'
  <2>1. /\ DOMAIN active_jobs = 1..Len(active_jobs) /\ Len(active_jobs) \in Nat
        /\ DOMAIN active_jobs' = 1..(Len(active_jobs) + 1)
        /\ \A i \in 1..Len(active_jobs) :
             /\ active_jobs'[i] = active_jobs[i]
             /\ active_jobs[i] \in ToSet(active_jobs)
        /\ active_jobs'[Len(active_jobs) + 1] = j
    BY <1>1, <1>2, AppendProperties, LenProperties DEF ToSet
  <2>2. /\ start_time'[j] = clock
        /\ \A k \in ToSet(active_jobs) : /\ start_time'[k] = start_time[k]
                                         /\ start_time[k] \in 0..clock
    BY <1>1, <1>2 DEF Launch, ClockTypeOK, ClockPlaces
  <2>3. clock \in Nat
    BY DEF ClockTypeOK
  <2>4. SUFFICES ASSUME NEW i \in DOMAIN active_jobs', NEW k \in DOMAIN active_jobs', i < k
                 PROVE  start_time'[active_jobs'[i]] <= start_time'[active_jobs'[k]]
    BY DEF OldestFirst
  <2>5. i \in DOMAIN active_jobs
    BY <2>1, <2>4
  <2>6. CASE k \in DOMAIN active_jobs
    BY <2>1, <2>2, <2>4, <2>5, <2>6 DEF OldestFirst
  <2>7. CASE k = Len(active_jobs) + 1
    BY <2>1, <2>2, <2>3, <2>5, <2>7
  <2>8. QED
    BY <2>1, <2>6, <2>7
<1>6. Handled' = Handled
  BY <1>1, <1>2 DEF Launch, ClockTypeOK, Handled
<1>7. LateBy' = LateBy /\ LateBy \in Nat
  BY <1>6, HandledFinite DEF Launch, LateBy
<1>8. NoneTooLate'
  BY <1>1, <1>2, <1>7, JobTimeoutAssumption DEF Launch, ClockTypeOK, ClockPlaces, NoneTooLate
<1>9. DeadlineRight'
  BY DEF Launch, DeadlineRight
<1>10. QED
  BY <1>3, <1>4, <1>5, <1>8, <1>9

LEMMA WaitClockInv ==
  ASSUME ClockInv, Wait
  PROVE  ClockInv'
<1> USE DEF ClockInv
<1>1. /\ active_jobs \in Seq(TimedJob) /\ active_jobs # <<>>
      /\ Head(active_jobs) \in ToSet(active_jobs)
      /\ Head(active_jobs) \in TimedJob
  BY TailElements DEF Wait, ClockTypeOK
<1>2. /\ wait_pc = "launch" /\ wait_pc' = "wait"
      /\ deadline' = clock + TimeLeft
      /\ UNCHANGED <<clock, active_jobs, message_queue, queued, launches, running,
                     timed_out, start_time, stop_time>>
  BY DEF Wait, jobVars
<1>3. clock \in Nat /\ JobTimeoutValue \in Nat
  BY JobTimeoutAssumption DEF ClockTypeOK
<1> DEFINE h == Head(active_jobs)
<1>4. start_time[h] \in 0..clock /\ (h \in running => stop_time[h] = NoTime)
  BY <1>1 DEF ClockPlaces
<1>5. stop_time[h] \in Nat \cup {NoTime}
  BY <1>1 DEF ClockTypeOK
<1>6. start_time[h] # NoTime
  BY <1>3, <1>4 DEF NoTime
<1>7. TimeLeft \in Nat \ {0}
  BY <1>3, <1>4, <1>5, <1>6 DEF TimeLeft, AtLeast, Duration, NoTime
<1>8. h \in running =>
        TimeLeft = IF JobTimeoutValue - (clock - start_time[h]) < 1 THEN 1
                   ELSE JobTimeoutValue - (clock - start_time[h])
  BY <1>4, <1>6 DEF TimeLeft, AtLeast, Duration
<1> HIDE DEF h
<1>9. /\ Cardinality(Handled) \in Nat /\ Handled' = Handled
      /\ LateBy = Cardinality(Handled) /\ LateBy' = Cardinality(Handled) + 1
  BY <1>2, HandledFinite DEF Handled, LateBy
<1>10. clock <= start_time[h] + JobTimeoutValue + LateBy
  BY <1>1 DEF NoneTooLate, h
<1>11. ClockTypeOK'
  BY <1>2, <1>3, <1>7 DEF ClockTypeOK
<1>12. ClockPlaces' /\ OldestFirst'
  BY <1>1, <1>2 DEF ClockPlaces, OldestFirst
<1>13. NoneTooLate'
  <2> SUFFICES ASSUME NEW j \in ToSet(active_jobs)
               PROVE  clock <= start_time[j] + JobTimeoutValue + LateBy'
    BY <1>2 DEF NoneTooLate
  <2>1. start_time[j] \in Nat
    BY <1>3 DEF ClockPlaces
  <2>2. QED
    BY <1>3, <1>9, <2>1 DEF NoneTooLate
<1>14. DeadlineRight'
  <2> SUFFICES ASSUME h \in running
               PROVE  /\ deadline' >= start_time[h] + JobTimeoutValue
                      /\ deadline' <= start_time[h] + JobTimeoutValue + LateBy'
    BY <1>2 DEF DeadlineRight, h
  <2>1. QED
    BY <1>2, <1>3, <1>4, <1>8, <1>9, <1>10
<1>15. QED
  BY <1>11, <1>12, <1>13, <1>14

LEMMA EmptyQueueClockInv ==
  ASSUME ClockInv, EmptyQueue
  PROVE  ClockInv'
<1> USE DEF ClockInv
<1>1. /\ active_jobs \in Seq(TimedJob) /\ active_jobs # <<>>
      /\ Head(active_jobs) \in ToSet(active_jobs)
      /\ Head(active_jobs) \in TimedJob
  BY TailElements DEF EmptyQueue, ClockTypeOK, ClockPlaces
<1>2. /\ wait_pc = "wait"
      /\ timed_out' = timed_out \cup {Head(active_jobs)}
      /\ deadline' = clock + TimeLeft
      /\ UNCHANGED <<clock, wait_pc, active_jobs, message_queue, queued, launches, running,
                     start_time, stop_time>>
  BY DEF EmptyQueue
<1>3. clock \in Nat /\ JobTimeoutValue \in Nat
  BY JobTimeoutAssumption DEF ClockTypeOK
<1> DEFINE h == Head(active_jobs)
<1>4. start_time[h] \in 0..clock /\ (h \in running => stop_time[h] = NoTime)
  BY <1>1 DEF ClockPlaces
<1>5. stop_time[h] \in Nat \cup {NoTime}
  BY <1>1 DEF ClockTypeOK
<1>6. start_time[h] # NoTime
  BY <1>3, <1>4 DEF NoTime
<1>7. TimeLeft \in Nat \ {0}
  BY <1>3, <1>4, <1>5, <1>6 DEF TimeLeft, AtLeast, Duration, NoTime
<1>8. h \in running => TimeLeft >= JobTimeoutValue - (clock - start_time[h])
  BY <1>3, <1>4, <1>6 DEF TimeLeft, AtLeast, Duration
<1>9. ClockTypeOK'
  BY <1>1, <1>2, <1>3, <1>7 DEF ClockTypeOK
<1>10. ClockPlaces' /\ OldestFirst' /\ NoneTooLate'
  BY <1>2 DEF ClockPlaces, OldestFirst, NoneTooLate, LateBy, Handled
<1>11. DeadlineRight'
  BY <1>2, <1>3, <1>4, <1>7, <1>8 DEF DeadlineRight
<1>12. QED
  BY <1>9, <1>10, <1>11

LEMMA MessageClockInv ==
  ASSUME ClockInv, Message
  PROVE  ClockInv'
<1> USE DEF ClockInv
<1> DEFINE m == Head(message_queue)
<1>1. /\ message_queue' = Tail(message_queue)
      /\ message_queue' \in Seq(TimedJob)
      /\ m \in TimedJob
      /\ ToSet(message_queue) = ToSet(message_queue') \cup {m}
      /\ IsInjective(message_queue') /\ m \notin ToSet(message_queue')
  BY TailElements DEF Message, ClockTypeOK, ClockPlaces
<1>2. PICK i \in DOMAIN active_jobs :
        active_jobs[i] = m /\ active_jobs' = RemoveAt(active_jobs, i)
  BY DEF Message
<1>3. /\ active_jobs' \in Seq(TimedJob)
      /\ ToSet(active_jobs) = ToSet(active_jobs') \cup {m}
      /\ IsInjective(active_jobs') /\ m \notin ToSet(active_jobs')
      /\ \A k \in DOMAIN active_jobs' : active_jobs'[k] = active_jobs[IF k < i THEN k ELSE k + 1]
      /\ DOMAIN active_jobs' = 1..(Len(active_jobs) - 1)
  BY <1>2, RemoveAtElements DEF ClockTypeOK, ClockPlaces
<1>4. /\ wait_pc = "wait" /\ wait_pc' = "launch" /\ queued' \subseteq queued \cup {m}
      /\ UNCHANGED <<clock, launches, running, timed_out, start_time, stop_time, deadline>>
  BY DEF Message
<1> HIDE DEF m
<1>5. ClockTypeOK'
  BY <1>1, <1>3, <1>4 DEF ClockTypeOK
<1>6. ClockPlaces'
  BY <1>1, <1>3, <1>4 DEF ClockPlaces
<1>7. OldestFirst'
  <2>1. DOMAIN active_jobs = 1..Len(active_jobs) /\ Len(active_jobs) \in Nat
    BY LenProperties DEF ClockTypeOK
  <2>2. SUFFICES ASSUME NEW x \in DOMAIN active_jobs', NEW y \in DOMAIN active_jobs', x < y
                 PROVE  start_time[active_jobs'[x]] <= start_time[active_jobs'[y]]
    BY <1>4 DEF OldestFirst
  <2>3. \A k \in DOMAIN active_jobs' : (IF k < i THEN k ELSE k + 1) \in DOMAIN active_jobs
    BY <1>3, <2>1
  <2>4. (IF x < i THEN x ELSE x + 1) < (IF y < i THEN y ELSE y + 1)
    BY <1>3, <2>1, <2>2
  <2>5. QED
    BY <1>3, <2>3, <2>4 DEF OldestFirst
<1>8. Handled' = Handled \cup {m} /\ m \notin Handled
  BY <1>1, <1>3, <1>4 DEF Handled, ClockPlaces
<1>9. LateBy' = LateBy
  BY <1>1, <1>4, <1>8, HandledFinite DEF LateBy
<1>10. NoneTooLate'
  BY <1>3, <1>4, <1>9 DEF NoneTooLate
<1>11. DeadlineRight'
  BY <1>4 DEF DeadlineRight
<1>12. QED
  BY <1>5, <1>6, <1>7, <1>10, <1>11

LEMMA JobEndClockInv ==
  ASSUME ClockInv, NEW j \in TimedJob, JobEnd(j)
  PROVE  ClockInv'
<1> USE DEF ClockInv
<1>1. /\ j \in running /\ running' = running \ {j}
      /\ stop_time' = [stop_time EXCEPT ![j] = clock]
      /\ UNCHANGED <<clock, wait_pc, active_jobs, queued, launches, timed_out, start_time,
                     deadline>>
  BY DEF JobEnd
<1>2. /\ message_queue' \in Seq(TimedJob)
      /\ ToSet(message_queue') = ToSet(message_queue) \cup {j}
      /\ IsInjective(message_queue')
  BY <1>1, AppendElements DEF JobEnd, ClockTypeOK, ClockPlaces
<1>3. ClockTypeOK'
  BY <1>1, <1>2 DEF ClockTypeOK
<1>4. ClockPlaces'
  BY <1>1, <1>2 DEF ClockPlaces, ClockTypeOK
<1>5. Handled' = Handled /\ LateBy' = LateBy
  BY <1>1 DEF Handled, LateBy
<1>6. OldestFirst' /\ NoneTooLate' /\ DeadlineRight'
  BY <1>1, <1>5 DEF OldestFirst, NoneTooLate, DeadlineRight
<1>7. QED
  BY <1>3, <1>4, <1>6

\* Time passes up to the deadline only, and not while a job that has timed out
\* still runs: the first job is then one that runs and has not timed out.
LEMMA TickClockInv ==
  ASSUME ClockInv, Tick
  PROVE  ClockInv'
<1> USE DEF ClockInv
<1>1. /\ clock' = clock + 1
      /\ UNCHANGED <<wait_pc, active_jobs, message_queue, queued, launches, running,
                     timed_out, start_time, stop_time, deadline>>
      /\ clock \in Nat /\ JobTimeoutValue \in Nat /\ deadline \in Nat
  BY JobTimeoutAssumption DEF Tick, jobVars, ClockTypeOK
<1>2. ClockTypeOK' /\ OldestFirst'
  BY <1>1 DEF ClockTypeOK, OldestFirst
<1>3. ClockPlaces'
  BY <1>1 DEF ClockPlaces
<1>4. Handled' = Handled /\ LateBy' = LateBy /\ LateBy \in Nat
  BY <1>1, HandledFinite DEF Handled, LateBy
<1>5. DeadlineRight'
  BY <1>1, <1>4 DEF DeadlineRight
<1>6. NoneTooLate'
  <2> SUFFICES ASSUME NEW j \in ToSet(active_jobs)
               PROVE  clock + 1 <= start_time[j] + JobTimeoutValue + LateBy
    BY <1>1, <1>4 DEF NoneTooLate
  <2>1. wait_pc = "wait" /\ message_queue = <<>> /\ clock < deadline
    <3>1. active_jobs # <<>>
      BY EmptySeq DEF ToSet
    <3>2. QED
      BY <3>1 DEF Tick
  <2>2. /\ active_jobs \in Seq(TimedJob) /\ Len(active_jobs) \in Nat \ {0}
        /\ DOMAIN active_jobs = 1..Len(active_jobs)
        /\ Head(active_jobs) = active_jobs[1]
        /\ Head(active_jobs) \in ToSet(active_jobs)
    BY TailElements, LenProperties, EmptySeq, HeadTailProperties DEF ClockTypeOK, ToSet
  <2>3. Head(active_jobs) \in running
    <3>1. ToSet(message_queue) = {}
      BY <2>1 DEF ToSet
    <3>2. QED
      BY <2>2, <3>1 DEF ClockPlaces
  <2>4. deadline <= start_time[Head(active_jobs)] + JobTimeoutValue + LateBy
    BY <2>1, <2>3 DEF Tick, DeadlineRight
  <2>5. PICK k \in DOMAIN active_jobs : active_jobs[k] = j
    BY DEF ToSet
  <2>6. start_time[Head(active_jobs)] <= start_time[j]
    <3>1. start_time[j] \in Nat
      BY <1>1 DEF ClockPlaces
    <3>2. CASE k = 1
      BY <2>2, <2>5, <3>1, <3>2
    <3>3. CASE 1 < k
      BY <2>2, <2>5, <3>3 DEF OldestFirst
    <3>4. QED
      BY <2>2, <3>2, <3>3
  <2>7. start_time[Head(active_jobs)] \in Nat /\ start_time[j] \in Nat
    BY <1>1, <2>2 DEF ClockPlaces
  <2>8. QED
    BY <1>1, <1>4, <2>1, <2>4, <2>6, <2>7
<1>7. QED
  BY <1>2, <1>3, <1>5, <1>6

LEMMA ClockStepInv ==
  ASSUME MaxLaunches = 1
  PROVE  ClockInv /\ [ClockNext]_clockVars => ClockInv'
<1> SUFFICES ASSUME ClockInv, [ClockNext]_clockVars
             PROVE  ClockInv'
  OBVIOUS
<1>1. CASE UNCHANGED clockVars
  BY <1>1 DEF clockVars, jobVars, ClockInv, ClockTypeOK, ClockPlaces, OldestFirst,
              NoneTooLate, DeadlineRight, LateBy, Handled
<1>2. QED
  BY <1>1, LaunchClockInv, WaitClockInv, EmptyQueueClockInv, MessageClockInv,
     JobEndClockInv, TickClockInv DEF ClockNext, Stopped

LEMMA ClockInvariant == MaxLaunches = 1 => (ClockSpec => []ClockInv)
<1> SUFFICES ASSUME MaxLaunches = 1
             PROVE  ClockSpec => []ClockInv
  OBVIOUS
<1>1. ClockInv /\ [ClockNext]_clockVars => ClockInv'
  BY ClockStepInv
<1>2. QED
  BY <1>1, ClockInitInv, PTL DEF ClockSpec

\* However many jobs there are, and in whatever order they start and end: one
\* that is not started again runs no longer than its timeout, and one unit for
\* each job.
THEOREM TimeoutRespectedHolds == MaxLaunches = 1 => (ClockSpec => []TimeoutRespected)
<1> SUFFICES ASSUME MaxLaunches = 1
             PROVE  ClockSpec => []TimeoutRespected
  OBVIOUS
<1>1. ASSUME ClockInv, NEW j \in running
      PROVE  clock - start_time[j] <= JobTimeoutValue + Cardinality(TimedJob) * MaxLaunches
  <2>1. j \in ToSet(active_jobs) /\ j \in TimedJob
    BY <1>1 DEF ClockInv, ClockPlaces, ClockTypeOK
  <2>2. /\ Handled \cup {j} \subseteq TimedJob
        /\ Cardinality(Handled) \in Nat
        /\ Cardinality(Handled \cup {j}) = Cardinality(Handled) + 1
    BY <1>1, <2>1, HandledFinite DEF ClockInv, Handled
  <2>3. /\ Cardinality(TimedJob) \in Nat
        /\ Cardinality(Handled) + 1 <= Cardinality(TimedJob)
    BY <2>2, JobTimeoutAssumption, FS_Subset, FS_CardinalityType
  <2>4. /\ clock \in Nat /\ start_time[j] \in Nat /\ JobTimeoutValue \in Nat
        /\ LateBy \in Nat /\ LateBy <= Cardinality(Handled) + 1
    BY <1>1, <2>1, <2>2, JobTimeoutAssumption DEF ClockInv, ClockTypeOK, ClockPlaces, LateBy
  <2>5. clock <= start_time[j] + JobTimeoutValue + LateBy
    BY <1>1, <2>1 DEF ClockInv, NoneTooLate
  <2>6. Cardinality(TimedJob) * MaxLaunches = Cardinality(TimedJob)
    BY <2>3
  <2>7. QED
    BY <2>2, <2>3, <2>4, <2>5, <2>6
<1>2. ClockInv => TimeoutRespected
  BY <1>1 DEF TimeoutRespected
<1>3. QED
  BY <1>2, ClockInvariant, PTL

\* The converse: wait() interrupts no job before its time.
THEOREM NotTooEarlyHolds == MaxLaunches = 1 => (ClockSpec => NotTooEarly)
<1> SUFFICES ASSUME MaxLaunches = 1
             PROVE  ClockSpec => NotTooEarly
  OBVIOUS
<1> DEFINE A == \A j \in timed_out' \ timed_out : clock - start_time[j] >= JobTimeoutValue
<1>1. ClockInv /\ [ClockNext]_clockVars => [A]_clockVars
  <2> SUFFICES ASSUME ClockInv, ClockNext, NEW j \in timed_out' \ timed_out
               PROVE  clock - start_time[j] >= JobTimeoutValue
    OBVIOUS
  <2>1. EmptyQueue /\ j = Head(active_jobs)
    BY DEF ClockNext, Launch, JobEnd, Wait, EmptyQueue, Message, Tick, Stopped, clockVars,
           jobVars
  <2>2. j \in running
    <3>1. /\ active_jobs \in Seq(TimedJob) /\ active_jobs # <<>>
          /\ message_queue = <<>>
      BY <2>1 DEF EmptyQueue, ClockInv, ClockTypeOK, ClockPlaces
    <3>2. ToSet(message_queue) = {}
      BY <3>1 DEF ToSet
    <3>3. QED
      BY <2>1, <3>1, <3>2, TailElements DEF ClockInv, ClockPlaces
  <2>3. deadline >= start_time[j] + JobTimeoutValue /\ clock >= deadline
    BY <2>1, <2>2 DEF EmptyQueue, ClockInv, DeadlineRight
  <2>4. /\ clock \in Nat /\ deadline \in Nat /\ JobTimeoutValue \in Nat
        /\ start_time[j] \in Nat
    BY <2>2, JobTimeoutAssumption DEF ClockInv, ClockTypeOK, ClockPlaces
  <2>5. QED
    BY <2>3, <2>4
<1>2. QED
  BY <1>1, ClockInvariant, PTL DEF ClockSpec, NotTooEarly

----------------------------------------------------------------------------
(* RunCommands.                                                            *)
(*                                                                         *)
(* What a command will still let through is in the pipe behind it, in      *)
(* itself and, for a filter, in what the command before it will let        *)
(* through.  With what has been read of the last one this is what the      *)
(* programs have to say, from the start to the end, until one of them is   *)
(* ended by a signal.                                                      *)

CommandType == [state : {"none", "alive", "ended"},
                status : {NotEnded, 0, Sigpipe, Sigterm, Sigkill},
                to_complain : Nat, to_say : Nat]

RunTypeOK ==
  /\ cmds \in Pipelines
  /\ io \in [input : Inputs, output : Outputs, error : Errors, bg : BOOLEAN]
  /\ run_pc \in {"idle", "start", "bg", "wait", "communicate", "returned", "raised"}
  /\ commands \in [Cmds -> CommandType]
  /\ pipes \in [{0} \cup Cmds -> Nat] /\ err_pipes \in [Cmds -> Nat]
  /\ to_feed \in Nat /\ raw_out \in Nat /\ raw_err \in Nat

StatusesOK ==
  /\ \A i \in Cmds : Ended(i) <=> commands[i].status # NotEnded
  /\ \A i, j \in Cmds : i < j /\ commands[i].state = "none" => commands[j].state = "none"
  /\ run_pc \in {"bg", "wait", "communicate", "returned"} => AllStarted
  /\ run_pc = "wait" => ~HasPipe
  /\ io.input # "text" => to_feed = 0

ReturnOK ==
  /\ run_pc = "raised" => \A i \in Cmds : ~IsAlive(i)
  /\ Over => ~files_open
  /\ run_pc = "returned" =>
       /\ run_status = commands[LastCommand].status /\ Ended(LastCommand)
       /\ HasPipe => /\ io.output = "pipe" => pipes[LastCommand] = 0
                     /\ err_pipes[LastCommand] = 0

ErrorsOK ==
  io.error = "pipe" =>
     raw_err + err_pipes[LastCommand] + commands[LastCommand].to_complain
       = cmds[LastCommand].err

\* A filter that ends by itself has read all there is, and nobody adds to it.
AtEnd ==
  \A i \in Cmds : Ended(i) /\ commands[i].status = 0 =>
     /\ commands[i].to_say = 0 /\ commands[i].to_complain = 0
     /\ cmds[i].kind = "filter" =>
          /\ pipes[i - 1] = 0
          /\ IF i = 1 THEN LastCommand = 1 => to_feed = 0 ELSE Ended(i - 1)

Own(i) == pipes[i] + commands[i].to_say
          + (IF io.error = "stdout" THEN commands[i].to_complain ELSE 0)

\* R[i] is what will still come out of command i, R[0] what goes to the first.
IsRest(R) ==
  /\ R \in [0..Len(cmds) -> Int]
  /\ R[0] = pipes[0] + (IF LastCommand = 1 THEN to_feed ELSE 0)
  /\ \A i \in Cmds : R[i] = Own(i) + (IF cmds[i].kind = "filter" THEN R[i - 1] ELSE 0)

NoneKilled == \A i \in Cmds : commands[i].status \in {0, NotEnded}

OutputOK ==
  io.output = "pipe" /\ NoneKilled =>
    \E R : IsRest(R) /\ R[LastCommand] + raw_out = Passed[LastCommand]

RunInv == RunTypeOK /\ StatusesOK /\ ReturnOK /\ ErrorsOK /\ AtEnd /\ OutputOK

ProgramType == [kind : {"source", "filter", "head"}, out : Nat, err : Nat]

\* A non-empty set of naturals has a smallest member.
LEMMA SmallestOf ==
  ASSUME NEW T \in SUBSET Nat, T # {}
  PROVE  \E n \in T : \A m \in T : n <= m
<1> DEFINE Family == {0..n : n \in T}
<1>1. Family \subseteq FiniteSubsetsOf(Nat) /\ Family # {}
  <2>1. \A n \in T : 0..n \in SUBSET Nat /\ IsFiniteSet(0..n) BY FS_Interval
  <2>2. QED BY <2>1 DEF FiniteSubsetsOf
<1>2. \E A \in Family : \A B \in Family : <<B, A>> \notin StrictSubsetOrdering(Nat)
  <2> HIDE DEF Family
  <2>1. IsWellFoundedOn(StrictSubsetOrdering(Nat), FiniteSubsetsOf(Nat))
    BY FS_StrictSubsetOrderingWellFounded
  <2>2. QED BY <1>1, <2>1, WFMin
<1>3. PICK n \in T : \A m \in T : <<0..m, 0..n>> \notin StrictSubsetOrdering(Nat)
  BY <1>2
<1>4. ASSUME NEW m \in T, m < n PROVE FALSE
  <2>1. 0..m \subseteq 0..n /\ n \in 0..n /\ n \notin 0..m BY <1>4
  <2>2. <<0..m, 0..n>> \in StrictSubsetOrdering(Nat) BY <2>1 DEF StrictSubsetOrdering
  <2>3. QED BY <1>3, <2>2
<1>5. \A m \in T : n <= m BY <1>4
<1>6. QED BY <1>5

LEMMA CmdsFacts ==
  ASSUME cmds \in Pipelines
  PROVE  /\ cmds \in Seq(ProgramType) /\ Len(cmds) \in Nat \ {0} /\ Len(cmds) <= MaxCommands
         /\ Cmds = 1..Len(cmds) /\ LastCommand = Len(cmds) /\ LastCommand \in Cmds
         /\ \A i \in Cmds : cmds[i] \in ProgramType
         /\ MaxCommands \in Nat
<1>1. cmds \in Seq(ProgramType) /\ cmds # <<>> /\ Len(cmds) <= MaxCommands /\ MaxCommands \in Nat
  BY RunAssumption DEF ProgramType
<1>2. Len(cmds) \in Nat \ {0} /\ Cmds = 1..Len(cmds)
  BY <1>1, EmptySeq DEF Cmds
<1>3. LastCommand = Len(cmds)
  <2>1. \A i \in Cmds : (\A j \in Cmds : j <= i) <=> i = Len(cmds) BY <1>2
  <2>2. Len(cmds) \in Cmds BY <1>2
  <2>3. QED BY <2>1, <2>2 DEF LastCommand
<1>4. QED BY <1>1, <1>2, <1>3

\* The commands change one at a time.
LEMMA SaysFacts ==
  ASSUME RunTypeOK, NEW i \in Cmds, commands[i].to_say > 0, Says(i, "to_say")
  PROVE  /\ commands' \in [Cmds -> CommandType]
         /\ \A j \in Cmds : /\ commands'[j].state = commands[j].state
                            /\ commands'[j].status = commands[j].status
                            /\ commands'[j].to_complain = commands[j].to_complain
         /\ \A j \in Cmds \ {i} : commands'[j].to_say = commands[j].to_say
         /\ commands'[i].to_say = commands[i].to_say - 1
BY DEF RunTypeOK, CommandType, Says

LEMMA ComplainsFacts ==
  ASSUME RunTypeOK, NEW i \in Cmds, commands[i].to_complain > 0, Says(i, "to_complain")
  PROVE  /\ commands' \in [Cmds -> CommandType]
         /\ \A j \in Cmds : /\ commands'[j].state = commands[j].state
                            /\ commands'[j].status = commands[j].status
                            /\ commands'[j].to_say = commands[j].to_say
         /\ \A j \in Cmds \ {i} : commands'[j].to_complain = commands[j].to_complain
         /\ commands'[i].to_complain = commands[i].to_complain - 1
BY DEF RunTypeOK, CommandType, Says

LEMMA EndsFacts ==
  ASSUME RunTypeOK, NEW i \in Cmds, NEW signal \in {0, Sigpipe, Sigkill},
         EndsWithStatus(i, signal)
  PROVE  /\ commands' \in [Cmds -> CommandType]
         /\ \A j \in Cmds : /\ commands'[j].to_complain = commands[j].to_complain
                            /\ commands'[j].to_say = commands[j].to_say
         /\ \A j \in Cmds \ {i} : /\ commands'[j].state = commands[j].state
                                  /\ commands'[j].status = commands[j].status
         /\ commands'[i].state = "ended" /\ commands'[i].status = signal
BY DEF RunTypeOK, CommandType, EndsWithStatus

LEMMA StartsFacts ==
  ASSUME RunTypeOK, NEW i \in Cmds, commands' = [commands EXCEPT ![i].state = "alive"]
  PROVE  /\ commands' \in [Cmds -> CommandType]
         /\ \A j \in Cmds : /\ commands'[j].status = commands[j].status
                            /\ commands'[j].to_complain = commands[j].to_complain
                            /\ commands'[j].to_say = commands[j].to_say
         /\ \A j \in Cmds \ {i} : commands'[j].state = commands[j].state
         /\ commands'[i].state = "alive"
BY DEF RunTypeOK, CommandType

LEMMA HearsFacts ==
  ASSUME RunTypeOK, NEW i \in Cmds, commands' = [commands EXCEPT ![i].to_say = 1]
  PROVE  /\ commands' \in [Cmds -> CommandType]
         /\ \A j \in Cmds : /\ commands'[j].state = commands[j].state
                            /\ commands'[j].status = commands[j].status
                            /\ commands'[j].to_complain = commands[j].to_complain
         /\ \A j \in Cmds \ {i} : commands'[j].to_say = commands[j].to_say
         /\ commands'[i].to_say = 1
BY DEF RunTypeOK, CommandType

LEMMA TerminatedFacts ==
  ASSUME RunTypeOK, commands' = [i \in Cmds |-> Terminated(commands[i])]
  PROVE  /\ commands' \in [Cmds -> CommandType]
         /\ \A j \in Cmds : /\ commands'[j].to_complain = commands[j].to_complain
                            /\ commands'[j].to_say = commands[j].to_say
                            /\ commands[j].state = "alive" =>
                                 /\ commands'[j].state = "ended"
                                 /\ commands'[j].status = Sigterm
                            /\ commands[j].state # "alive" => commands'[j] = commands[j]
BY DEF RunTypeOK, CommandType, Terminated

\* Which command is started, and that there is one.
LEMMA NextFacts ==
  ASSUME RunTypeOK, StatusesOK, ~AllStarted
  PROVE  /\ NextToStart \in Cmds /\ commands[NextToStart].state = "none"
         /\ \A j \in Cmds : j < NextToStart => commands[j].state # "none"
<1> DEFINE T == {i \in Cmds : commands[i].state = "none"}
<1>1. T \in SUBSET Nat /\ T # {} BY CmdsFacts DEF RunTypeOK, AllStarted
<1>2. PICK n \in T : \A m \in T : n <= m
  <2> HIDE DEF T
  <2> QED BY <1>1, SmallestOf
<1>3. \E i \in Cmds : commands[i].state = "none"
                      /\ \A j \in Cmds : j < i => commands[j].state # "none"
  BY <1>2, CmdsFacts DEF RunTypeOK
<1>4. QED BY <1>3 DEF NextToStart

LEMMA SameCommands ==
  ASSUME UNCHANGED runArgs
  PROVE  Cmds' = Cmds /\ LastCommand' = LastCommand /\ Passed' = Passed
<1>1. cmds' = cmds /\ io' = io BY DEF runArgs
<1>2. Cmds' = Cmds BY <1>1 DEF Cmds
<1>3. LastCommand' = LastCommand BY <1>2 DEF LastCommand
<1>4. Passed' = Passed BY <1>1, <1>2, <1>3, ZenonT(30) DEF Passed
<1>5. QED BY <1>2, <1>3, <1>4

\* Nothing is added to a pipe once the command that writes to it has ended.
LEMMA AtEndKept ==
  ASSUME RunTypeOK, AtEnd, UNCHANGED runArgs,
         \A j \in Cmds : commands'[j].state = "ended" /\ commands'[j].status = 0 =>
            \/ /\ commands[j].state = "ended" /\ commands[j].status = 0
               /\ commands'[j].to_say = commands[j].to_say
               /\ commands'[j].to_complain = commands[j].to_complain
            \/ /\ commands'[j].to_say = 0 /\ commands'[j].to_complain = 0
               /\ cmds[j].kind = "filter" =>
                    /\ pipes'[j - 1] = 0
                    /\ IF j = 1 THEN LastCommand = 1 => to_feed' = 0
                       ELSE commands'[j - 1].state = "ended",
         \A j \in Cmds : commands[j].state = "ended" => commands'[j].state = "ended",
         \A j \in Cmds : commands[j].state = "ended" /\ pipes[j] = 0 => pipes'[j] = 0,
         commands[1].state = "ended" /\ pipes[0] = 0 => pipes'[0] = 0,
         to_feed = 0 => to_feed' = 0
  PROVE  AtEnd'
<1>1. Cmds' = Cmds /\ LastCommand' = LastCommand BY SameCommands
<1>2. cmds' = cmds BY DEF runArgs
<1> SUFFICES ASSUME NEW j \in Cmds, commands'[j].state = "ended", commands'[j].status = 0
             PROVE  /\ commands'[j].to_say = 0 /\ commands'[j].to_complain = 0
                    /\ cmds[j].kind = "filter" =>
                         /\ pipes'[j - 1] = 0
                         /\ IF j = 1 THEN LastCommand = 1 => to_feed' = 0
                            ELSE commands'[j - 1].state = "ended"
  BY <1>1, <1>2 DEF AtEnd, Ended
<1> SUFFICES ASSUME commands[j].state = "ended", commands[j].status = 0,
                    commands'[j].to_say = commands[j].to_say,
                    commands'[j].to_complain = commands[j].to_complain
             PROVE  /\ commands'[j].to_say = 0 /\ commands'[j].to_complain = 0
                    /\ cmds[j].kind = "filter" =>
                         /\ pipes'[j - 1] = 0
                         /\ IF j = 1 THEN LastCommand = 1 => to_feed' = 0
                            ELSE commands'[j - 1].state = "ended"
  OBVIOUS
<1>3. commands[j].state = "ended" /\ commands[j].status = 0 OBVIOUS
<1>4. CASE cmds[j].kind = "filter" /\ j = 1 BY <1>3, <1>4 DEF AtEnd, Ended
<1>5. CASE cmds[j].kind = "filter" /\ j # 1
  <2>1. j - 1 \in Cmds BY <1>5, CmdsFacts DEF RunTypeOK
  <2>2. commands[j - 1].state = "ended" /\ pipes[j - 1] = 0 BY <1>3, <1>5 DEF AtEnd, Ended
  <2>3. QED BY <1>3, <1>5, <2>1, <2>2 DEF AtEnd, Ended
<1>6. QED BY <1>3, <1>4, <1>5 DEF AtEnd, Ended

\* A command that a signal ends.
LEMMA KilledStep ==
  ASSUME RunInv, NEW i \in Cmds, IsAlive(i), NEW signal \in {Sigpipe, Sigkill},
         EndsWithStatus(i, signal),
         UNCHANGED <<runArgs, run_pc, pipes, err_pipes, to_feed, raw_out, raw_err,
                     run_status, files_open>>
  PROVE  RunInv'
<1>0. /\ commands' \in [Cmds -> CommandType]
      /\ \A j \in Cmds : /\ commands'[j].to_complain = commands[j].to_complain
                         /\ commands'[j].to_say = commands[j].to_say
      /\ \A j \in Cmds \ {i} : /\ commands'[j].state = commands[j].state
                               /\ commands'[j].status = commands[j].status
      /\ commands'[i].state = "ended" /\ commands'[i].status = signal
  BY EndsFacts DEF RunInv
<1>1. RunTypeOK /\ StatusesOK /\ ReturnOK /\ ErrorsOK /\ AtEnd BY DEF RunInv
<1>2. Cmds' = Cmds /\ LastCommand' = LastCommand /\ LastCommand \in Cmds /\ Cmds \subseteq Nat
  BY <1>1, SameCommands, CmdsFacts DEF RunTypeOK
<1>3. RunTypeOK' BY <1>0, <1>1, <1>2 DEF RunTypeOK, runArgs
<1>4. StatusesOK'
  BY <1>0, <1>1, <1>2 DEF StatusesOK, AllStarted, Ended, IsAlive, HasPipe, runArgs, NotEnded, Sigpipe, Sigkill
<1>5. ReturnOK' BY <1>0, <1>1, <1>2 DEF ReturnOK, Ended, IsAlive, Over, HasPipe, runArgs
<1>6. ErrorsOK' BY <1>0, <1>1, <1>2 DEF ErrorsOK, runArgs
<1>7. AtEnd'
  <2>1. \A j \in Cmds : commands'[j].state = "ended" /\ commands'[j].status = 0 => j # i
    BY <1>0 DEF Sigpipe, Sigkill
  <2>2. QED BY <1>0, <1>1, <1>2, <2>1, AtEndKept
<1>8. OutputOK' BY <1>0, <1>2 DEF OutputOK, NoneKilled, NotEnded, Sigpipe, Sigkill
<1>9. QED BY <1>3, <1>4, <1>5, <1>6, <1>7, <1>8 DEF RunInv

\* Nothing of what has been said is lost, and nothing is added.
LEMMA RestSame ==
  ASSUME OutputOK, NoneKilled' => NoneKilled, cmds \in Pipelines, UNCHANGED runArgs,
         pipes'[0] + (IF LastCommand = 1 THEN to_feed' ELSE 0)
           = pipes[0] + (IF LastCommand = 1 THEN to_feed ELSE 0),
         \A j \in Cmds : Own(j)' = Own(j), raw_out' = raw_out
  PROVE  OutputOK'
<1>1. Cmds' = Cmds /\ LastCommand' = LastCommand /\ Passed' = Passed BY SameCommands
<1>2. cmds' = cmds /\ io' = io BY DEF runArgs
<1>3. ASSUME NEW R, IsRest(R) PROVE IsRest(R)'
  BY <1>1, <1>2, <1>3 DEF IsRest
<1>4. QED BY <1>1, <1>2, <1>3 DEF OutputOK

\* A command says something to where it is not lost.
LEMMA SayStep ==
  ASSUME RunInv, NEW i \in Cmds, Say(i)
  PROVE  RunInv'
<1>1. RunTypeOK /\ StatusesOK /\ ReturnOK /\ ErrorsOK /\ AtEnd /\ OutputOK BY DEF RunInv
<1>2. Cmds' = Cmds /\ LastCommand' = LastCommand /\ LastCommand \in Cmds /\ Cmds \subseteq Nat
      /\ 0 \notin Cmds
  BY <1>1, SameCommands, CmdsFacts DEF RunTypeOK, Say
<1>3. UNCHANGED <<runArgs, run_pc, err_pipes, to_feed, raw_out, raw_err, run_status, files_open>>
  BY DEF Say
<1>4. CASE EndsWithStatus(i, Sigpipe) /\ UNCHANGED pipes
  BY <1>3, <1>4, KilledStep DEF Say
<1>5. CASE Says(i, "to_say") /\ pipes' = IF IsPiped(i) THEN [pipes EXCEPT ![i] = @ + 1] ELSE pipes
  <2>0. /\ commands' \in [Cmds -> CommandType]
        /\ \A j \in Cmds : /\ commands'[j].state = commands[j].state
                           /\ commands'[j].status = commands[j].status
                           /\ commands'[j].to_complain = commands[j].to_complain
        /\ \A j \in Cmds \ {i} : commands'[j].to_say = commands[j].to_say
        /\ commands'[i].to_say = commands[i].to_say - 1
    BY <1>1, <1>5, SaysFacts DEF Say
  <2>1. /\ pipes' \in [{0} \cup Cmds -> Nat]
        /\ \A j \in ({0} \cup Cmds) \ {i} : pipes'[j] = pipes[j]
        /\ pipes'[i] = IF IsPiped(i) THEN pipes[i] + 1 ELSE pipes[i]
    BY <1>1, <1>5 DEF RunTypeOK
  <2>2. RunTypeOK' BY <1>1, <1>2, <1>3, <2>0, <2>1 DEF RunTypeOK, runArgs
  <2>3. StatusesOK'
    <3>1. io' = io BY <1>3 DEF runArgs
    <3>2. \A j \in Cmds : Ended(j)' <=> Ended(j) BY <2>0 DEF Ended
    <3>3. AllStarted' <=> AllStarted BY <1>2, <2>0 DEF AllStarted
    <3>4. HasPipe' <=> HasPipe BY <3>1 DEF HasPipe
    <3>5. \A j \in Cmds : Ended(j)' <=> commands'[j].status # NotEnded
      BY <1>1, <2>0, <3>2 DEF StatusesOK
    <3>6. \A j, k \in Cmds : j < k /\ commands'[j].state = "none" => commands'[k].state = "none"
      BY <1>1, <2>0 DEF StatusesOK
    <3>7. QED BY <1>1, <1>2, <1>3, <3>1, <3>3, <3>4, <3>5, <3>6 DEF StatusesOK
  <2>4. ReturnOK'
    BY <1>1, <1>2, <1>3, <2>0, <2>1 DEF ReturnOK, Ended, IsAlive, Over, HasPipe, runArgs, Say
  <2>5. ErrorsOK' BY <1>1, <1>2, <1>3, <2>0 DEF ErrorsOK, runArgs
  <2>6. AtEnd'
    <3>1. commands[i].state = "alive" BY DEF Say, IsAlive
    <3>2. commands[1].state = "ended" => pipes'[0] = pipes[0] BY <1>2, <2>1
    <3>3. QED BY <1>1, <1>3, <2>0, <2>1, <3>1, <3>2, AtEndKept
  <2>7. OutputOK'
    <3>1. CASE io.output = "pipe"
      <4>1. ASSUME NEW j \in Cmds PROVE Own(j)' = Own(j)
        <5>1. IsPiped(i) BY <3>1 DEF IsPiped
        <5>2. commands[j] \in CommandType /\ pipes[j] \in Nat BY <1>1 DEF RunTypeOK
        <5>3. io' = io BY <1>3 DEF runArgs
        <5>4. CASE j = i BY <2>0, <2>1, <5>1, <5>2, <5>3, <5>4 DEF Own, CommandType
        <5>5. CASE j # i BY <2>0, <2>1, <5>3, <5>5 DEF Own
        <5>6. QED BY <5>4, <5>5
      <4>2. pipes'[0] = pipes[0] BY <1>2, <2>1
      <4>3. NoneKilled' => NoneKilled BY <1>2, <2>0 DEF NoneKilled
      <4>4. QED BY <1>1, <1>3, <4>1, <4>2, <4>3, RestSame DEF RunTypeOK
    <3>2. CASE io.output # "pipe" BY <1>3, <3>2 DEF OutputOK, runArgs
    <3>3. QED BY <3>1, <3>2
  <2>8. QED BY <2>2, <2>3, <2>4, <2>5, <2>6, <2>7 DEF RunInv
<1>6. QED BY <1>4, <1>5 DEF Say, WriteTo

LEMMA ComplainStep ==
  ASSUME RunInv, NEW i \in Cmds, Complain(i)
  PROVE  RunInv'
<1>1. RunTypeOK /\ StatusesOK /\ ReturnOK /\ ErrorsOK /\ AtEnd /\ OutputOK BY DEF RunInv
<1>2. Cmds' = Cmds /\ LastCommand' = LastCommand /\ LastCommand \in Cmds /\ Cmds \subseteq Nat
      /\ 0 \notin Cmds
  BY <1>1, SameCommands, CmdsFacts DEF RunTypeOK, Complain
<1>3. UNCHANGED <<runArgs, run_pc, to_feed, raw_out, raw_err, run_status, files_open>>
  BY DEF Complain
<1>4. CASE EndsWithStatus(i, Sigpipe) /\ UNCHANGED <<pipes, err_pipes>>
  BY <1>3, <1>4, KilledStep DEF Complain
<1>5. CASE /\ Says(i, "to_complain")
           /\ pipes' = IF io.error = "stdout" /\ IsPiped(i) THEN [pipes EXCEPT ![i] = @ + 1]
                       ELSE pipes
           /\ err_pipes' = IF io.error = "pipe" THEN [err_pipes EXCEPT ![i] = @ + 1]
                           ELSE err_pipes
  <2>0. /\ commands' \in [Cmds -> CommandType]
        /\ \A j \in Cmds : /\ commands'[j].state = commands[j].state
                           /\ commands'[j].status = commands[j].status
                           /\ commands'[j].to_say = commands[j].to_say
        /\ \A j \in Cmds \ {i} : commands'[j].to_complain = commands[j].to_complain
        /\ commands'[i].to_complain = commands[i].to_complain - 1
    BY <1>1, <1>5, ComplainsFacts DEF Complain
  <2>1. /\ pipes' \in [{0} \cup Cmds -> Nat]
        /\ \A j \in ({0} \cup Cmds) \ {i} : pipes'[j] = pipes[j]
        /\ pipes'[i] = IF io.error = "stdout" /\ IsPiped(i) THEN pipes[i] + 1 ELSE pipes[i]
    BY <1>1, <1>5 DEF RunTypeOK
  <2>2. /\ err_pipes' \in [Cmds -> Nat]
        /\ \A j \in Cmds \ {i} : err_pipes'[j] = err_pipes[j]
        /\ err_pipes'[i] = IF io.error = "pipe" THEN err_pipes[i] + 1 ELSE err_pipes[i]
    BY <1>1, <1>5 DEF RunTypeOK
  <2>3. RunTypeOK' BY <1>1, <1>2, <1>3, <2>0, <2>1, <2>2 DEF RunTypeOK, runArgs
  <2>4. StatusesOK'
    <3>1. io' = io BY <1>3 DEF runArgs
    <3>2. \A j \in Cmds : Ended(j)' <=> Ended(j) BY <2>0 DEF Ended
    <3>3. AllStarted' <=> AllStarted BY <1>2, <2>0 DEF AllStarted
    <3>4. HasPipe' <=> HasPipe BY <3>1 DEF HasPipe
    <3>5. \A j \in Cmds : Ended(j)' <=> commands'[j].status # NotEnded
      BY <1>1, <2>0, <3>2 DEF StatusesOK
    <3>6. \A j, k \in Cmds : j < k /\ commands'[j].state = "none" => commands'[k].state = "none"
      BY <1>1, <2>0 DEF StatusesOK
    <3>7. QED BY <1>1, <1>2, <1>3, <3>1, <3>3, <3>4, <3>5, <3>6 DEF StatusesOK
  <2>5. ReturnOK'
    BY <1>1, <1>2, <1>3, <2>0, <2>1, <2>2
       DEF ReturnOK, Ended, IsAlive, Over, HasPipe, runArgs, Complain
  <2>6. ErrorsOK'
    <3>1. /\ commands[LastCommand].to_complain \in Nat /\ err_pipes[LastCommand] \in Nat
          /\ raw_err \in Nat /\ cmds[LastCommand].err \in Nat
      BY <1>1, <1>2, CmdsFacts DEF RunTypeOK, CommandType, ProgramType
    <3>2. QED BY <1>1, <1>2, <1>3, <2>0, <2>2, <3>1, SMTT(30) DEF ErrorsOK, runArgs
  <2>7. AtEnd'
    <3>1. commands[i].state = "alive" BY DEF Complain, IsAlive
    <3>2. commands[1].state = "ended" => pipes'[0] = pipes[0] BY <1>2, <2>1
    <3>3. QED BY <1>1, <1>3, <2>0, <2>1, <3>1, <3>2, AtEndKept
  <2>8. OutputOK'
    <3>1. CASE io.output = "pipe"
      <4>1. ASSUME NEW j \in Cmds PROVE Own(j)' = Own(j)
        <5>1. IsPiped(i) BY <3>1 DEF IsPiped
        <5>2. commands[j] \in CommandType /\ pipes[j] \in Nat BY <1>1 DEF RunTypeOK
        <5>3. io' = io BY <1>3 DEF runArgs
        <5>4. CASE j = i BY <2>0, <2>1, <5>1, <5>2, <5>3, <5>4 DEF Own, CommandType
        <5>5. CASE j # i BY <2>0, <2>1, <5>3, <5>5 DEF Own
        <5>6. QED BY <5>4, <5>5
      <4>2. pipes'[0] = pipes[0] BY <1>2, <2>1
      <4>3. NoneKilled' => NoneKilled BY <1>2, <2>0 DEF NoneKilled
      <4>4. QED BY <1>1, <1>3, <4>1, <4>2, <4>3, RestSame DEF RunTypeOK
    <3>2. CASE io.output # "pipe" BY <1>3, <3>2 DEF OutputOK, runArgs
    <3>3. QED BY <3>1, <3>2
  <2>9. QED BY <2>3, <2>4, <2>5, <2>6, <2>7, <2>8 DEF RunInv
<1>6. io.error \in {"stdout", "pipe", "file"} BY <1>1, RunAssumption DEF RunTypeOK
<1>7. CASE io.error = "file" BY <1>5, <1>7 DEF Complain
<1>8. CASE io.error = "stdout" BY <1>4, <1>5, <1>8 DEF Complain, WriteTo
<1>9. CASE io.error = "pipe" BY <1>4, <1>5, <1>9 DEF Complain
<1>10. QED BY <1>6, <1>7, <1>8, <1>9

\* What a filter reads it says, what a head reads ends it.
LEMMA ListenStep ==
  ASSUME RunInv, NEW i \in Cmds, Listen(i)
  PROVE  RunInv'
<1>1. RunTypeOK /\ StatusesOK /\ ReturnOK /\ ErrorsOK /\ AtEnd /\ OutputOK BY DEF RunInv
<1>2. /\ Cmds' = Cmds /\ LastCommand' = LastCommand /\ Passed' = Passed
      /\ LastCommand \in Cmds /\ Cmds = 1..Len(cmds) /\ LastCommand = Len(cmds)
      /\ Len(cmds) \in Nat
  BY <1>1, SameCommands, CmdsFacts DEF RunTypeOK, Listen
<1>3. UNCHANGED <<runArgs, run_pc, err_pipes, to_feed, raw_out, raw_err, run_status, files_open>>
      /\ cmds' = cmds /\ io' = io
  BY DEF Listen, runArgs
<1>4. /\ i - 1 \in {0} \cup Cmds /\ i \in Nat
      /\ pipes' \in [{0} \cup Cmds -> Nat] /\ pipes[i - 1] \in Nat \ {0}
      /\ \A j \in ({0} \cup Cmds) \ {i - 1} : pipes'[j] = pipes[j]
      /\ pipes'[i - 1] = pipes[i - 1] - 1
  <2>1. i - 1 \in {0} \cup Cmds /\ i \in Nat BY <1>2
  <2>2. QED BY <1>1, <2>1 DEF RunTypeOK, Listen
<1>5. /\ commands' \in [Cmds -> CommandType]
      /\ \A j \in Cmds : commands'[j].to_complain = commands[j].to_complain
      /\ \A j \in Cmds \ {i} : /\ commands'[j].state = commands[j].state
                               /\ commands'[j].status = commands[j].status
                               /\ commands'[j].to_say = commands[j].to_say
      /\ commands[i].state = "alive" /\ commands[i].to_say = 0 /\ commands[i].to_complain = 0
      /\ \/ /\ cmds[i].kind = "filter" /\ commands'[i].to_say = 1
            /\ commands'[i].state = "alive" /\ commands'[i].status = commands[i].status
         \/ /\ cmds[i].kind = "head" /\ commands'[i].to_say = 0
            /\ commands'[i].state = "ended" /\ commands'[i].status = 0
  <2>1. cmds[i].kind \in {"source", "filter", "head"}
    BY <1>1, CmdsFacts DEF RunTypeOK, ProgramType
  <2>2. CASE cmds[i].kind = "filter"
    <3>1. commands' = [commands EXCEPT ![i].to_say = 1] BY <2>2 DEF Listen
    <3>2. QED BY <1>1, <2>2, <3>1, HearsFacts DEF Listen, IsAlive
  <2>3. CASE cmds[i].kind = "head"
    <3>1. EndsWithStatus(i, 0) BY <2>3 DEF Listen
    <3>2. QED BY <1>1, <2>3, <3>1, EndsFacts DEF Listen, IsAlive
  <2>4. CASE cmds[i].kind = "source" BY <2>4 DEF Listen
  <2>5. QED BY <2>1, <2>2, <2>3, <2>4
<1>6. RunTypeOK' BY <1>1, <1>2, <1>3, <1>4, <1>5 DEF RunTypeOK
<1>7. StatusesOK'
  BY <1>1, <1>2, <1>3, <1>5 DEF StatusesOK, AllStarted, Ended, HasPipe, NotEnded
<1>8. ReturnOK'
  BY <1>1, <1>2, <1>3, <1>4, <1>5 DEF ReturnOK, Ended, IsAlive, Over, HasPipe
<1>9. ErrorsOK' BY <1>1, <1>2, <1>3, <1>5 DEF ErrorsOK
<1>10. AtEnd'
  <2>1. \A j \in {0} \cup Cmds : pipes[j] = 0 => pipes'[j] = 0 BY <1>4
  <2>2. QED BY <1>1, <1>3, <1>5, <2>1, AtEndKept
<1>11. OutputOK'
  <2> SUFFICES ASSUME io.output = "pipe", NoneKilled'
               PROVE  \E R : IsRest(R)' /\ R[LastCommand] + raw_out = Passed[LastCommand]
    BY <1>2, <1>3 DEF OutputOK
  <2>1. NoneKilled BY <1>1, <1>2, <1>5 DEF NoneKilled, StatusesOK, Ended
  <2>2. PICK R : IsRest(R) /\ R[LastCommand] + raw_out = Passed[LastCommand]
    BY <1>1, <2>1 DEF OutputOK
  <2>0. PICK Q : Q = [j \in 0..Len(cmds) |-> IF j = i - 1 THEN R[j] - 1 ELSE R[j]]
    OBVIOUS
  <2>3. R \in [0..Len(cmds) -> Int] /\ Q \in [0..Len(cmds) -> Int] BY <1>2, <2>0, <2>2 DEF IsRest
  <2>4. Q[0] = pipes'[0] + (IF LastCommand = 1 THEN to_feed ELSE 0)
    <3>1. R[0] = pipes[0] + (IF LastCommand = 1 THEN to_feed ELSE 0) BY <2>2 DEF IsRest
    <3>2. pipes[0] \in Nat /\ to_feed \in Nat /\ 0 \in 0..Len(cmds) BY <1>1, <1>2 DEF RunTypeOK
    <3>3. QED BY <1>4, <2>0, <3>1, <3>2
  <2>5. ASSUME NEW j \in Cmds
        PROVE  Q[j] = Own(j)' + (IF cmds[j].kind = "filter" THEN Q[j - 1] ELSE 0)
    <3>1. R[j] = Own(j) + (IF cmds[j].kind = "filter" THEN R[j - 1] ELSE 0) BY <2>2 DEF IsRest
    <3>2. j \in 0..Len(cmds) /\ j - 1 \in 0..Len(cmds) /\ j \in Nat BY <1>2
    <3>3. R[j] \in Int /\ R[j - 1] \in Int BY <2>3, <3>2
    <3>4. commands[j] \in CommandType /\ pipes[j] \in Nat BY <1>1 DEF RunTypeOK
    <3>5. Own(j) \in Int BY <3>4 DEF Own, CommandType
    <3>6. Own(j)' = IF j = i - 1 THEN Own(j) - 1
                    ELSE IF j = i /\ cmds[i].kind = "filter" THEN Own(j) + 1 ELSE Own(j)
      <4>1. CASE j = i
        <5>1. pipes'[j] = pipes[j] BY <1>4, <4>1
        <5>2. QED BY <1>3, <1>4, <1>5, <3>4, <4>1, <5>1 DEF Own, CommandType
      <4>2. CASE j = i - 1 BY <1>3, <1>4, <1>5, <3>4, <4>2 DEF Own, CommandType
      <4>3. CASE j # i /\ j # i - 1 BY <1>3, <1>4, <1>5, <4>3 DEF Own
      <4>4. QED BY <4>1, <4>2, <4>3
    <3>7. Q[j] = (IF j = i - 1 THEN R[j] - 1 ELSE R[j])
          /\ Q[j - 1] = (IF j = i THEN R[j - 1] - 1 ELSE R[j - 1])
      BY <1>4, <2>0, <3>2
    <3>8. CASE j = i BY <1>4, <3>1, <3>3, <3>5, <3>6, <3>7, <3>8
    <3>9. CASE j = i - 1 BY <1>4, <3>1, <3>3, <3>5, <3>6, <3>7, <3>9
    <3>10. CASE j # i /\ j # i - 1 BY <3>1, <3>6, <3>7, <3>10
    <3>11. QED BY <3>8, <3>9, <3>10
  <2>6. Q[LastCommand] = R[LastCommand]
    <3>1. LastCommand # i - 1 /\ LastCommand \in 0..Len(cmds) BY <1>2, <1>4
    <3>2. QED BY <2>0, <3>1
  <2>7. IsRest(Q)' BY <1>2, <1>3, <2>3, <2>4, <2>5 DEF IsRest
  <2>8. QED BY <2>2, <2>6, <2>7
<1>12. QED BY <1>6, <1>7, <1>8, <1>9, <1>10, <1>11 DEF RunInv

LEMMA ExitStep ==
  ASSUME RunInv, NEW i \in Cmds, Exit(i)
  PROVE  RunInv'
<1>1. RunTypeOK /\ StatusesOK /\ ReturnOK /\ ErrorsOK /\ AtEnd /\ OutputOK BY DEF RunInv
<1>2. /\ Cmds' = Cmds /\ LastCommand' = LastCommand /\ LastCommand \in Cmds
      /\ Cmds = 1..Len(cmds) /\ Len(cmds) \in Nat
  BY <1>1, SameCommands, CmdsFacts DEF RunTypeOK, Exit
<1>3. UNCHANGED <<runArgs, run_pc, pipes, err_pipes, to_feed, raw_out, raw_err, run_status,
                  files_open>> /\ cmds' = cmds /\ io' = io
  BY DEF Exit, runArgs
<1>4. /\ commands' \in [Cmds -> CommandType]
      /\ \A j \in Cmds : /\ commands'[j].to_complain = commands[j].to_complain
                         /\ commands'[j].to_say = commands[j].to_say
      /\ \A j \in Cmds \ {i} : /\ commands'[j].state = commands[j].state
                               /\ commands'[j].status = commands[j].status
      /\ commands'[i].state = "ended" /\ commands'[i].status = 0
      /\ commands[i].state = "alive"
  BY <1>1, EndsFacts DEF Exit, IsAlive
<1>5. RunTypeOK' BY <1>1, <1>2, <1>3, <1>4 DEF RunTypeOK
<1>6. StatusesOK' BY <1>1, <1>2, <1>3, <1>4 DEF StatusesOK, AllStarted, Ended, HasPipe, NotEnded
<1>7. ReturnOK' BY <1>1, <1>2, <1>3, <1>4 DEF ReturnOK, Ended, IsAlive, Over, HasPipe
<1>8. ErrorsOK' BY <1>1, <1>2, <1>3, <1>4 DEF ErrorsOK
<1>9. AtEnd'
  <2>1. ASSUME cmds[i].kind = "filter"
        PROVE  /\ pipes[i - 1] = 0
               /\ IF i = 1 THEN LastCommand = 1 => to_feed = 0
                  ELSE commands'[i - 1].state = "ended"
    <3>1. Eof(i - 1) BY <2>1 DEF Exit
    <3>2. CASE i = 1
      <4>1. pipes[0] = 0 /\ (io.input = "none" \/ ~HoldsWrite0) BY <3>1, <3>2 DEF Eof
      <4>2. LastCommand = 1 => ~Over BY <1>1, <1>4, <3>2 DEF ReturnOK, Over, IsAlive, Ended
      <4>3. LastCommand = 1 => to_feed = 0
        BY <1>1, <4>1, <4>2 DEF HoldsWrite0, StatusesOK, RunTypeOK
      <4>4. QED BY <3>2, <4>1, <4>3
    <3>3. CASE i # 1
      <4>1. i - 1 \in Cmds /\ i - 1 < i /\ i - 1 # 0 BY <1>2, <3>3
      <4>2. ~IsAlive(i - 1) /\ pipes[i - 1] = 0 BY <3>1, <4>1 DEF Eof
      <4>3. commands[i - 1].state = "ended"
        BY <1>1, <1>4, <4>1, <4>2 DEF StatusesOK, IsAlive, RunTypeOK, CommandType
      <4>4. QED BY <1>4, <3>3, <4>1, <4>2, <4>3
    <3>4. QED BY <3>2, <3>3
  <2>2. commands[i].to_say = 0 /\ commands[i].to_complain = 0 BY DEF Exit
  <2>3. QED BY <1>1, <1>3, <1>4, <2>1, <2>2, AtEndKept
<1>10. OutputOK'
  <2>1. \A j \in Cmds : Own(j)' = Own(j) BY <1>3, <1>4 DEF Own
  <2>2. NoneKilled' => NoneKilled
    BY <1>1, <1>2, <1>4 DEF NoneKilled, StatusesOK, Ended
  <2>3. QED BY <1>1, <1>3, <2>1, <2>2, RestSame DEF RunTypeOK
<1>11. QED BY <1>5, <1>6, <1>7, <1>8, <1>9, <1>10 DEF RunInv

\* The steps of the object that touch no command and no pipe.
LEMMA QuietStep ==
  ASSUME RunInv,
         UNCHANGED <<runArgs, commands, pipes, err_pipes, to_feed, raw_out, raw_err>>,
         run_pc' \in {"idle", "start", "bg", "wait", "communicate", "returned", "raised"},
         run_pc' = "wait" => ~HasPipe,
         run_pc' \in {"bg", "wait", "communicate", "returned"} => AllStarted,
         ReturnOK'
  PROVE  RunInv'
<1>1. RunTypeOK /\ StatusesOK /\ ReturnOK /\ ErrorsOK /\ AtEnd /\ OutputOK BY DEF RunInv
<1>2. Cmds' = Cmds /\ LastCommand' = LastCommand BY SameCommands
<1>3. cmds' = cmds /\ io' = io BY DEF runArgs
<1>4. RunTypeOK' BY <1>1, <1>2, <1>3 DEF RunTypeOK
<1>5. StatusesOK' BY <1>1, <1>2, <1>3 DEF StatusesOK, AllStarted, Ended, HasPipe
<1>6. ErrorsOK' BY <1>1, <1>2, <1>3 DEF ErrorsOK
<1>7. AtEnd' BY <1>1, <1>2, <1>3 DEF AtEnd, Ended
<1>8. OutputOK'
  <2>1. \A j \in Cmds : Own(j)' = Own(j) BY <1>3 DEF Own
  <2>2. NoneKilled' => NoneKilled BY <1>2 DEF NoneKilled
  <2>3. QED BY <1>1, <1>3, <2>1, <2>2, RestSame DEF RunTypeOK
<1>9. QED BY <1>4, <1>5, <1>6, <1>7, <1>8 DEF RunInv

LEMMA StartedStep == RunInv /\ (Started \/ CallWait) => RunInv'
<1> SUFFICES ASSUME RunInv, Started \/ CallWait PROVE RunInv' OBVIOUS
<1>1. UNCHANGED <<runArgs, commands, pipes, err_pipes, to_feed, raw_out, raw_err>>
  BY DEF Started, CallWait
<1>2. run_pc' \in {"bg", "wait", "communicate"} /\ (run_pc' = "wait" => ~HasPipe) /\ AllStarted
  BY DEF Started, CallWait, Waiting, RunInv, StatusesOK
<1>3. ReturnOK' BY <1>2 DEF ReturnOK, Over
<1>4. QED BY <1>1, <1>2, <1>3, QuietStep

LEMMA ReturnsStep == RunInv /\ RunWaitReturns => RunInv'
<1> SUFFICES ASSUME RunInv, RunWaitReturns PROVE RunInv' OBVIOUS
<1>1. UNCHANGED <<runArgs, commands, pipes, err_pipes, to_feed, raw_out, raw_err>>
      /\ run_pc' = "returned"
  BY DEF RunWaitReturns
<1>2. Cmds' = Cmds /\ LastCommand' = LastCommand BY <1>1, SameCommands
<1>3. ReturnOK'
  BY <1>1, <1>2 DEF ReturnOK, RunWaitReturns, Drained, RunInv, StatusesOK, Over, Ended, HasPipe,
                    runArgs
<1>4. AllStarted BY DEF RunInv, StatusesOK, RunWaitReturns
<1>5. QED BY <1>1, <1>3, <1>4, QuietStep

LEMMA RunStutter == RunInv /\ UNCHANGED runVars => RunInv'
<1> SUFFICES ASSUME RunInv, UNCHANGED runVars PROVE RunInv' OBVIOUS
<1>1. UNCHANGED <<runArgs, commands, pipes, err_pipes, to_feed, raw_out, raw_err>>
      /\ run_pc' = run_pc /\ run_status' = run_status /\ files_open' = files_open
  BY DEF runVars, runArgs
<1>2. Cmds' = Cmds /\ LastCommand' = LastCommand BY <1>1, SameCommands
<1>3. ReturnOK' BY <1>1, <1>2 DEF RunInv, ReturnOK, Over, Ended, IsAlive, HasPipe, runArgs
<1>4. QED BY <1>1, <1>3, QuietStep DEF RunInv, RunTypeOK, StatusesOK

LEMMA StartStep == RunInv /\ Start => RunInv'
<1> SUFFICES ASSUME RunInv, Start PROVE RunInv' OBVIOUS
<1>1. RunTypeOK /\ StatusesOK /\ ReturnOK /\ ErrorsOK /\ AtEnd /\ OutputOK BY DEF RunInv
<1>2. Cmds' = Cmds /\ LastCommand' = LastCommand /\ LastCommand \in Cmds
      /\ Cmds \subseteq Nat
  BY <1>1, SameCommands, CmdsFacts DEF RunTypeOK, Start
<1>3. UNCHANGED <<runArgs, run_pc, pipes, err_pipes, to_feed, raw_out, raw_err, run_status,
                  files_open>> /\ cmds' = cmds /\ io' = io /\ run_pc = "start"
  BY DEF Start, runArgs
<1>4. PICK i \in Cmds : /\ i = NextToStart /\ commands[i].state = "none"
                        /\ \A j \in Cmds : j < i => commands[j].state # "none"
  BY <1>1, NextFacts DEF Start
<1>5. /\ commands' \in [Cmds -> CommandType]
      /\ \A j \in Cmds : /\ commands'[j].status = commands[j].status
                         /\ commands'[j].to_complain = commands[j].to_complain
                         /\ commands'[j].to_say = commands[j].to_say
      /\ \A j \in Cmds \ {i} : commands'[j].state = commands[j].state
      /\ commands'[i].state = "alive"
  BY <1>1, <1>4, StartsFacts DEF Start
<1>6. RunTypeOK' BY <1>1, <1>2, <1>3, <1>5 DEF RunTypeOK
<1>7. StatusesOK'
  <2>1. \A j \in Cmds : commands'[j].state = "ended" <=> commands'[j].status # NotEnded
    <3>1. \A j \in Cmds : commands[j].state = "ended" <=> commands[j].status # NotEnded
      BY <1>1 DEF StatusesOK, Ended
    <3>2. QED BY <1>4, <1>5, <3>1
  <2>2. ASSUME NEW j \in Cmds, NEW k \in Cmds, j < k, commands'[j].state = "none"
        PROVE  commands'[k].state = "none"
    <3>1. j # i /\ commands[j].state = "none" BY <1>5, <2>2
    <3>2. commands[k].state = "none" BY <1>1, <2>2, <3>1 DEF StatusesOK
    <3>3. k # i BY <1>4, <2>2, <3>1
    <3>4. QED BY <1>5, <3>2, <3>3
  <2>3. QED BY <1>1, <1>2, <1>3, <2>1, <2>2 DEF StatusesOK, AllStarted, Ended, HasPipe
<1>8. ReturnOK' BY <1>1, <1>2, <1>3 DEF ReturnOK, Over
<1>9. ErrorsOK' BY <1>1, <1>2, <1>3, <1>5 DEF ErrorsOK
<1>10. AtEnd'
  <2>1. \A j \in Cmds : commands'[j].state = "ended" <=> commands[j].state = "ended"
    BY <1>4, <1>5
  <2>2. QED BY <1>1, <1>3, <1>5, <2>1, AtEndKept
<1>11. OutputOK'
  <2>1. \A j \in Cmds : Own(j)' = Own(j) BY <1>3, <1>5 DEF Own
  <2>2. NoneKilled' => NoneKilled BY <1>2, <1>5 DEF NoneKilled
  <2>3. QED BY <1>1, <1>3, <2>1, <2>2, RestSame DEF RunTypeOK
<1>12. QED BY <1>6, <1>7, <1>8, <1>9, <1>10, <1>11 DEF RunInv

LEMMA FailsStep == RunInv /\ StartFails => RunInv'
<1> SUFFICES ASSUME RunInv, StartFails PROVE RunInv' OBVIOUS
<1>1. RunTypeOK /\ StatusesOK /\ ReturnOK /\ ErrorsOK /\ AtEnd /\ OutputOK BY DEF RunInv
<1>2. Cmds' = Cmds /\ LastCommand' = LastCommand /\ LastCommand \in Cmds
      /\ Cmds \subseteq Nat
  BY <1>1, SameCommands, CmdsFacts DEF RunTypeOK, StartFails
<1>3. UNCHANGED <<runArgs, pipes, err_pipes, to_feed, raw_out, raw_err>>
      /\ cmds' = cmds /\ io' = io /\ run_pc' = "raised" /\ ~files_open'
  BY DEF StartFails, runArgs
<1>4. /\ commands' \in [Cmds -> CommandType]
      /\ \A j \in Cmds : /\ commands'[j].to_complain = commands[j].to_complain
                         /\ commands'[j].to_say = commands[j].to_say
                         /\ commands[j].state = "alive" =>
                              /\ commands'[j].state = "ended"
                              /\ commands'[j].status = Sigterm
                         /\ commands[j].state # "alive" => commands'[j] = commands[j]
  BY <1>1, TerminatedFacts DEF StartFails
<1>5. RunTypeOK' BY <1>1, <1>2, <1>3, <1>4 DEF RunTypeOK
<1>6. StatusesOK'
  BY <1>1, <1>2, <1>3, <1>4 DEF StatusesOK, AllStarted, Ended, HasPipe, Sigterm, NotEnded
<1>7. ReturnOK' BY <1>2, <1>3, <1>4 DEF ReturnOK, Over, IsAlive
<1>8. ErrorsOK' BY <1>1, <1>2, <1>3, <1>4 DEF ErrorsOK
<1>9. AtEnd'
  <2>1. \A j \in Cmds : commands'[j].state = "ended" /\ commands'[j].status = 0 =>
          commands[j].state = "ended" /\ commands[j].status = 0
    BY <1>4 DEF Sigterm
  <2>2. \A j \in Cmds : commands[j].state = "ended" => commands'[j].state = "ended" BY <1>4
  <2>3. QED BY <1>1, <1>3, <1>4, <2>1, <2>2, AtEndKept
<1>10. OutputOK'
  <2>1. \A j \in Cmds : Own(j)' = Own(j) BY <1>3, <1>4 DEF Own
  <2>2. NoneKilled' => NoneKilled BY <1>2, <1>4 DEF NoneKilled, Sigterm, NotEnded
  <2>3. QED BY <1>1, <1>3, <2>1, <2>2, RestSame DEF RunTypeOK
<1>11. QED BY <1>5, <1>6, <1>7, <1>8, <1>9, <1>10 DEF RunInv

LEMMA KillLastStep == RunInv /\ KillLast => RunInv'
<1> SUFFICES ASSUME RunInv, KillLast PROVE RunInv' OBVIOUS
<1>1. LastCommand \in Cmds BY CmdsFacts DEF RunInv, RunTypeOK
<1>2. EndsWithStatus(LastCommand, Sigkill) BY DEF KillLast, EndsWithStatus
<1>3. QED BY <1>1, <1>2, KilledStep DEF KillLast

LEMMA FeedStep == RunInv /\ Feed => RunInv'
<1> SUFFICES ASSUME RunInv, Feed PROVE RunInv' OBVIOUS
<1>1. RunTypeOK /\ StatusesOK /\ ReturnOK /\ ErrorsOK /\ AtEnd /\ OutputOK BY DEF RunInv
<1>2. /\ Cmds' = Cmds /\ LastCommand' = LastCommand /\ Passed' = Passed
      /\ LastCommand \in Cmds /\ Cmds = 1..Len(cmds) /\ LastCommand = Len(cmds)
      /\ LastCommand = 1 /\ Len(cmds) \in Nat
  BY <1>1, SameCommands, CmdsFacts DEF RunTypeOK, Feed
<1>3. UNCHANGED <<runArgs, run_pc, commands, err_pipes, raw_out, raw_err, run_status, files_open>>
      /\ cmds' = cmds /\ io' = io /\ run_pc = "communicate"
  BY DEF Feed, runArgs
<1>4. /\ pipes' \in [{0} \cup Cmds -> Nat] /\ \A j \in Cmds : pipes'[j] = pipes[j]
      /\ \/ /\ commands[1].state = "alive"
            /\ pipes'[0] = pipes[0] + 1 /\ to_feed' = to_feed - 1
         \/ commands[1].state # "alive" /\ pipes'[0] = pipes[0] /\ to_feed' = 0
      /\ pipes[0] \in Nat /\ to_feed \in Nat \ {0}
  <2>1. 0 \notin Cmds /\ 1 \in Cmds BY <1>2
  <2>2. pipes \in [{0} \cup Cmds -> Nat] /\ to_feed \in Nat BY <1>1 DEF RunTypeOK
  <2>3. CASE IsAlive(1)
    <3>1. pipes' = [pipes EXCEPT ![0] = @ + 1] /\ to_feed' = to_feed - 1 BY <2>3 DEF Feed
    <3>2. to_feed > 0 /\ commands[1].state = "alive" BY <2>3 DEF Feed, IsAlive
    <3>3. QED BY <2>1, <2>2, <3>1, <3>2
  <2>4. CASE ~IsAlive(1) BY <2>1, <2>2, <2>4 DEF Feed, IsAlive
  <2>5. QED BY <2>3, <2>4
<1>5. RunTypeOK' BY <1>1, <1>2, <1>3, <1>4 DEF RunTypeOK
<1>6. StatusesOK' BY <1>1, <1>2, <1>3, <1>4 DEF StatusesOK, AllStarted, Ended, HasPipe
<1>7. ReturnOK' BY <1>3 DEF ReturnOK, Over
<1>8. ErrorsOK' BY <1>1, <1>2, <1>3 DEF ErrorsOK
<1>9. AtEnd'
  <2>1. commands[1].state = "ended" /\ pipes[0] = 0 => pipes'[0] = 0 BY <1>4
  <2>2. QED BY <1>1, <1>3, <1>4, <2>1, AtEndKept
<1>10. OutputOK'
  <2>1. \A j \in Cmds : Own(j)' = Own(j) BY <1>3, <1>4 DEF Own
  <2>2. NoneKilled' => NoneKilled BY <1>2, <1>3 DEF NoneKilled
  <2>3. CASE commands[1].state = "alive"
    <3>1. pipes'[0] + to_feed' = pipes[0] + to_feed BY <1>4, <2>3
    <3>2. QED BY <1>1, <1>2, <1>3, <2>1, <2>2, <3>1, RestSame DEF RunTypeOK
  <2>4. CASE commands[1].state # "alive"
    <3> SUFFICES ASSUME io.output = "pipe", NoneKilled
                 PROVE  \E R : IsRest(R)' /\ R[LastCommand] + raw_out = Passed[LastCommand]
      BY <1>2, <1>3, <2>2 DEF OutputOK
    <3>1. PICK R : IsRest(R) /\ R[LastCommand] + raw_out = Passed[LastCommand]
      BY <1>1 DEF OutputOK
    \* The command was started: it has ended, and does not use what it is not fed.
    <3>2. cmds[1].kind # "filter"
      <4>1. commands[1].state \in {"none", "alive", "ended"} /\ 1 \in Cmds
        BY <1>1, <1>2 DEF RunTypeOK, CommandType
      <4>2. commands[1].state = "ended"
        BY <1>1, <1>3, <2>4, <4>1 DEF StatusesOK, AllStarted
      <4>3. commands[1].status = 0
        BY <1>1, <4>1, <4>2 DEF NoneKilled, StatusesOK, Ended
      <4>4. QED BY <1>1, <1>2, <1>4, <2>4, <4>1, <4>2, <4>3 DEF AtEnd, Ended
    <3>3. PICK Q : Q = [j \in 0..Len(cmds) |-> IF j = 0 THEN pipes[0] ELSE R[j]]
      OBVIOUS
    <3>4. R \in [0..Len(cmds) -> Int] BY <3>1 DEF IsRest
    <3>5. Q \in [0..Len(cmds) -> Int] /\ Q[0] = pipes[0] /\ Q[1] = R[1]
      <4>1. pipes[0] \in Int BY <1>4
      <4>2. 0 \in 0..Len(cmds) /\ 1 \in 0..Len(cmds) BY <1>2
      <4>3. QED BY <3>3, <3>4, <4>1, <4>2
    <3>6. \A j \in Cmds : j = 1 /\ R[j] = Own(j)
      <4>1. Own(1) \in Int BY <1>1, <1>2 DEF Own, RunTypeOK, CommandType
      <4>2. 1 \in Cmds /\ \A j \in Cmds : j = 1 BY <1>2
      <4>3. R[1] = Own(1) + 0 BY <3>1, <3>2, <4>2 DEF IsRest
      <4>4. QED BY <4>1, <4>2, <4>3
    <3>7. Q[0] = pipes'[0] + (IF LastCommand = 1 THEN to_feed' ELSE 0)
      BY <1>2, <1>4, <2>4, <3>5
    <3>8. \A j \in Cmds : Q[j] = Own(j)' + (IF cmds[j].kind = "filter" THEN Q[j - 1] ELSE 0)
      <4>1. Own(1) \in Int BY <1>1, <1>2 DEF Own, RunTypeOK, CommandType
      <4>2. QED BY <1>2, <2>1, <3>2, <3>5, <3>6, <4>1
    <3>9. IsRest(Q)' BY <1>2, <1>3, <3>5, <3>7, <3>8 DEF IsRest
    <3>10. QED BY <1>2, <3>1, <3>5, <3>9
  <2>5. QED BY <2>3, <2>4
<1>11. QED BY <1>5, <1>6, <1>7, <1>8, <1>9, <1>10 DEF RunInv

LEMMA ReadErrStep == RunInv /\ ReadErr => RunInv'
<1> SUFFICES ASSUME RunInv, ReadErr PROVE RunInv' OBVIOUS
<1>1. RunTypeOK /\ StatusesOK /\ ReturnOK /\ ErrorsOK /\ AtEnd /\ OutputOK BY DEF RunInv
<1>2. Cmds' = Cmds /\ LastCommand' = LastCommand /\ LastCommand \in Cmds
  BY <1>1, SameCommands, CmdsFacts DEF RunTypeOK, ReadErr
<1>3. UNCHANGED <<runArgs, run_pc, commands, pipes, to_feed, raw_out, run_status, files_open>>
      /\ cmds' = cmds /\ io' = io /\ run_pc = "communicate"
  BY DEF ReadErr, runArgs
<1>4. /\ err_pipes' \in [Cmds -> Nat] /\ raw_err' \in Nat
      /\ err_pipes'[LastCommand] = err_pipes[LastCommand] - 1 /\ raw_err' = raw_err + 1
      /\ err_pipes[LastCommand] \in Nat /\ raw_err \in Nat
  BY <1>1, <1>2 DEF ReadErr, RunTypeOK
<1>5. RunTypeOK' BY <1>1, <1>2, <1>3, <1>4 DEF RunTypeOK
<1>6. StatusesOK' BY <1>1, <1>2, <1>3 DEF StatusesOK, AllStarted, Ended, HasPipe
<1>7. ReturnOK' BY <1>3 DEF ReturnOK, Over
<1>8. ErrorsOK'
  <2>1. commands[LastCommand].to_complain \in Nat /\ cmds[LastCommand].err \in Nat
    BY <1>1, <1>2, CmdsFacts DEF RunTypeOK, CommandType, ProgramType
  <2>2. QED BY <1>1, <1>2, <1>3, <1>4, <2>1 DEF ErrorsOK
<1>9. AtEnd' BY <1>1, <1>2, <1>3 DEF AtEnd, Ended
<1>10. OutputOK'
  <2>1. \A j \in Cmds : Own(j)' = Own(j) BY <1>3 DEF Own
  <2>2. NoneKilled' => NoneKilled BY <1>2, <1>3 DEF NoneKilled
  <2>3. QED BY <1>1, <1>3, <2>1, <2>2, RestSame DEF RunTypeOK
<1>11. QED BY <1>5, <1>6, <1>7, <1>8, <1>9, <1>10 DEF RunInv

LEMMA ReadOutStep == RunInv /\ ReadOut => RunInv'
<1> SUFFICES ASSUME RunInv, ReadOut PROVE RunInv' OBVIOUS
<1>1. RunTypeOK /\ StatusesOK /\ ReturnOK /\ ErrorsOK /\ AtEnd /\ OutputOK BY DEF RunInv
<1>2. /\ Cmds' = Cmds /\ LastCommand' = LastCommand /\ Passed' = Passed
      /\ LastCommand \in Cmds /\ Cmds = 1..Len(cmds) /\ LastCommand = Len(cmds)
      /\ Len(cmds) \in Nat
  BY <1>1, SameCommands, CmdsFacts DEF RunTypeOK, ReadOut
<1>3. UNCHANGED <<runArgs, run_pc, commands, err_pipes, to_feed, raw_err, run_status, files_open>>
      /\ cmds' = cmds /\ io' = io /\ run_pc = "communicate"
  BY DEF ReadOut, runArgs
<1>4. /\ pipes' \in [{0} \cup Cmds -> Nat] /\ raw_out' \in Nat
      /\ pipes'[LastCommand] = pipes[LastCommand] - 1 /\ raw_out' = raw_out + 1
      /\ \A j \in ({0} \cup Cmds) \ {LastCommand} : pipes'[j] = pipes[j]
      /\ pipes[LastCommand] \in Nat \ {0} /\ raw_out \in Nat
  <2>1. pipes \in [{0} \cup Cmds -> Nat] /\ raw_out \in Nat BY <1>1 DEF RunTypeOK
  <2>2. QED BY <1>2, <2>1 DEF ReadOut
<1>5. RunTypeOK' BY <1>1, <1>2, <1>3, <1>4 DEF RunTypeOK
<1>6. StatusesOK' BY <1>1, <1>2, <1>3 DEF StatusesOK, AllStarted, Ended, HasPipe
<1>7. ReturnOK' BY <1>3 DEF ReturnOK, Over
<1>8. ErrorsOK' BY <1>1, <1>2, <1>3 DEF ErrorsOK
<1>9. AtEnd'
  <2>1. \A j \in {0} \cup Cmds : pipes[j] = 0 => pipes'[j] = 0 BY <1>4
  <2>2. QED BY <1>1, <1>3, <2>1, AtEndKept
<1>10. OutputOK'
  <2> SUFFICES ASSUME io.output = "pipe", NoneKilled
               PROVE  \E R : IsRest(R)' /\ R[LastCommand] + raw_out' = Passed[LastCommand]
    BY <1>2, <1>3 DEF OutputOK, NoneKilled
  <2>1. PICK R : IsRest(R) /\ R[LastCommand] + raw_out = Passed[LastCommand]
    BY <1>1 DEF OutputOK
  <2>2. PICK Q : Q = [j \in 0..Len(cmds) |-> IF j = LastCommand THEN R[j] - 1 ELSE R[j]]
    OBVIOUS
  <2>3. R \in [0..Len(cmds) -> Int] BY <2>1 DEF IsRest
  <2>4. Q \in [0..Len(cmds) -> Int] /\ Q[LastCommand] = R[LastCommand] - 1
        /\ \A j \in 0..(Len(cmds) - 1) : Q[j] = R[j]
    BY <1>2, <2>2, <2>3
  <2>5. Q[0] = pipes'[0] + (IF LastCommand = 1 THEN to_feed' ELSE 0)
    <3>1. 0 # LastCommand /\ 0 \in 0..(Len(cmds) - 1) BY <1>2
    <3>2. QED BY <1>2, <1>3, <1>4, <2>1, <2>4, <3>1 DEF IsRest
  <2>6. ASSUME NEW j \in Cmds
        PROVE  Q[j] = Own(j)' + (IF cmds[j].kind = "filter" THEN Q[j - 1] ELSE 0)
    <3>1. R[j] = Own(j) + (IF cmds[j].kind = "filter" THEN R[j - 1] ELSE 0)
      BY <2>1 DEF IsRest
    <3>2. j - 1 \in 0..(Len(cmds) - 1) /\ j \in 0..Len(cmds) BY <1>2
    <3>3. Q[j - 1] = R[j - 1] /\ R[j - 1] \in Int
      <4>1. j - 1 \in 0..Len(cmds) BY <1>2, <3>2
      <4>2. QED BY <2>3, <2>4, <3>2, <4>1
    <3>4. commands[j] \in CommandType /\ pipes[j] \in Nat BY <1>1 DEF RunTypeOK
    <3>5. Own(j) \in Int BY <3>4 DEF Own, CommandType
    <3>6. CASE j = LastCommand
      <4>1. Own(j)' = Own(j) - 1
        BY <1>3, <1>4, <3>4, <3>6 DEF Own, CommandType
      <4>2. QED BY <2>4, <3>1, <3>3, <3>5, <3>6, <4>1
    <3>7. CASE j # LastCommand
      <4>1. Own(j)' = Own(j) BY <1>3, <1>4, <3>7 DEF Own
      <4>2. Q[j] = R[j] BY <1>2, <2>4, <3>2, <3>7
      <4>3. QED BY <3>1, <3>3, <4>1, <4>2
    <3>8. QED BY <3>6, <3>7
  <2>7. IsRest(Q)' BY <1>2, <1>3, <2>4, <2>5, <2>6 DEF IsRest
  <2>8. R[LastCommand] \in Int BY <1>2, <2>3
  <2>9. Q[LastCommand] + raw_out' = Passed[LastCommand]
    <3>1. raw_out' = raw_out + 1 /\ raw_out \in Nat BY <1>4
    <3>2. Q[LastCommand] = R[LastCommand] - 1 BY <2>4
    <3>3. Q[LastCommand] + raw_out' = R[LastCommand] + raw_out BY <2>8, <3>1, <3>2
    <3>4. QED BY <2>1, <3>3
  <2>10. QED BY <2>7, <2>9
<1>11. QED BY <1>5, <1>6, <1>7, <1>8, <1>9, <1>10 DEF RunInv

LEMMA RunInvStep == RunInv /\ [RunNext]_runVars => RunInv'
<1> SUFFICES ASSUME RunInv, [RunNext]_runVars PROVE RunInv' OBVIOUS
<1>1. CASE \E i \in Cmds : Command(i)
  BY <1>1, SayStep, ComplainStep, ListenStep, ExitStep DEF Command
<1>2. CASE RunStep
  BY <1>2, StartStep, FailsStep, StartedStep, FeedStep, ReadOutStep, ReadErrStep, ReturnsStep
     DEF RunStep
<1>3. CASE CallWait BY <1>3, StartedStep
<1>4. CASE KillLast BY <1>4, KillLastStep
<1>5. CASE UNCHANGED runVars BY <1>5, RunStutter
<1>6. QED BY <1>1, <1>2, <1>3, <1>4, <1>5 DEF RunNext

\* What a command lets through when `before' comes to it.
LetThrough(i, before) ==
  IF i = 0 THEN IF io.input = "text" /\ LastCommand = 1 THEN InputSize ELSE 0
  ELSE IF i \notin Cmds THEN 0
  ELSE (IF io.error = "stdout" THEN cmds[i].err ELSE 0)
       + (IF cmds[i].kind = "source" THEN cmds[i].out
          ELSE IF cmds[i].kind = "head" THEN 0 ELSE before)

\* The recursive definition of Passed determines it.
LEMMA PassedDef ==
  ASSUME MaxCommands \in Nat
  PROVE  Passed = [i \in 0..MaxCommands |-> LetThrough(i, Passed[i - 1])]
<1> DEFINE IsPassed(f, n) == f = [i \in 0..n |-> LetThrough(i, f[i - 1])]
           Bad == {n \in Nat : ~ \E f : IsPassed(f, n)}
<1>1. Bad = {}
  <2> SUFFICES ASSUME Bad # {} PROVE FALSE OBVIOUS
  <2>1. PICK n \in Bad : \A m \in Bad : n <= m
    <3>1. Bad \in SUBSET Nat OBVIOUS
    <3> HIDE DEF Bad
    <3>2. QED BY <3>1, SmallestOf
  <2>2. CASE n = 0
    <3>1. PICK f : f = [i \in 0..0 |-> LetThrough(0, 0)] OBVIOUS
    <3>2. \A x : LetThrough(0, x) = LetThrough(0, 0) BY DEF LetThrough
    <3>3. [i \in 0..0 |-> LetThrough(i, f[i - 1])] = [i \in 0..0 |-> LetThrough(0, 0)]
      <4>1. \A i \in 0..0 : i = 0 OBVIOUS
      <4> HIDE DEF LetThrough
      <4>2. \A i \in 0..0 : LetThrough(i, f[i - 1]) = LetThrough(0, 0) BY <3>2, <4>1
      <4>3. QED BY <4>2
    <3>4. IsPassed(f, 0) BY <3>1, <3>3
    <3>5. QED BY <2>1, <2>2, <3>4
  <2>3. CASE n # 0
    <3>1. n - 1 \in Nat /\ n - 1 \notin Bad /\ n \in Nat
      <4> HIDE DEF Bad
      <4>1. n \in Nat BY <2>1 DEF Bad
      <4>2. QED BY <4>1, <2>1, <2>3
    <3>2. PICK f : IsPassed(f, n - 1) BY <3>1
    <3>3. PICK h : h = [i \in 0..n |-> IF i = n THEN LetThrough(n, f[n - 1]) ELSE f[i]] OBVIOUS
    <3>4. ASSUME NEW i \in 0..n PROVE h[i] = LetThrough(i, h[i - 1])
      <4>1. CASE i = n
        <5>1. n - 1 \in 0..n /\ n - 1 # n BY <3>1
        <5>2. h[n - 1] = f[n - 1] /\ h[n] = LetThrough(n, f[n - 1]) BY <3>1, <3>3, <5>1
        <5>3. QED BY <4>1, <5>2
      <4>2. CASE i # n
        <5>1. i \in 0..(n - 1) /\ h[i] = f[i] BY <3>1, <3>3, <4>2
        <5>2. f[i] = LetThrough(i, f[i - 1]) BY <3>2, <5>1
        <5>3. CASE i = 0 BY <5>1, <5>2, <5>3 DEF LetThrough
        <5>4. CASE i # 0
          <6>1. i - 1 \in 0..n /\ i - 1 # n BY <3>1, <5>1, <5>4
          <6>2. h[i - 1] = f[i - 1] BY <3>3, <6>1
          <6>3. QED BY <5>1, <5>2, <6>2
        <5>5. QED BY <5>3, <5>4
      <4>3. QED BY <4>1, <4>2
    <3>5. h = [i \in 0..n |-> h[i]] BY <3>3
    <3>6. IsPassed(h, n)
      <4> HIDE DEF LetThrough
      <4>1. [i \in 0..n |-> h[i]] = [i \in 0..n |-> LetThrough(i, h[i - 1])] BY <3>4
      <4>2. QED BY <3>5, <4>1
    <3>7. QED BY <2>1, <3>1, <3>6
  <2>4. QED BY <2>2, <2>3
<1>2. \E f : IsPassed(f, MaxCommands) BY <1>1
<1>3. Passed = CHOOSE f : IsPassed(f, MaxCommands) BY Zenon DEF Passed, LetThrough
<1>4. IsPassed(Passed, MaxCommands)
  <2> HIDE DEF IsPassed
  <2>1. QED BY <1>2, <1>3
<1>5. QED BY <1>4

LEMMA PassedInt ==
  ASSUME MaxCommands \in Nat, cmds \in Pipelines, \A i \in Cmds : cmds[i] \in ProgramType
  PROVE  \A i \in 0..MaxCommands : Passed[i] \in Int
<1> DEFINE Bad == {i \in 0..MaxCommands : Passed[i] \notin Int}
<1> SUFFICES ASSUME Bad # {} PROVE FALSE OBVIOUS
<1>1. PICK i \in Bad : \A m \in Bad : i <= m
  <2>1. Bad \in SUBSET Nat OBVIOUS
  <2> HIDE DEF Bad
  <2>2. QED BY <2>1, SmallestOf
<1>2. Passed[i] = LetThrough(i, Passed[i - 1]) /\ i \in 0..MaxCommands BY <1>1, PassedDef
<1>3. InputSize \in Nat BY RunAssumption
<1>4. i # 0 => Passed[i - 1] \in Int
  <2>1. i # 0 => i - 1 \in 0..MaxCommands /\ ~(i <= i - 1) BY <1>2
  <2>2. QED BY <1>1, <2>1
<1>5. LetThrough(i, Passed[i - 1]) \in Int
  BY <1>3, <1>4 DEF LetThrough, ProgramType
<1>6. QED BY <1>1, <1>2, <1>5

LEMMA RunInitInv == RunInit => RunInv
<1> SUFFICES ASSUME RunInit PROVE RunInv OBVIOUS
<1>1. /\ cmds \in Seq(ProgramType) /\ Len(cmds) \in Nat \ {0} /\ Len(cmds) <= MaxCommands
      /\ Cmds = 1..Len(cmds) /\ LastCommand = Len(cmds) /\ LastCommand \in Cmds
      /\ \A i \in Cmds : cmds[i] \in ProgramType
      /\ MaxCommands \in Nat
  BY CmdsFacts DEF RunInit
<1>2. \A i \in Cmds : /\ Unstarted(cmds[i]) \in CommandType
                      /\ commands[i] = Unstarted(cmds[i])
  BY <1>1 DEF RunInit, Unstarted, CommandType, ProgramType, Cmds
<1>3. InputSize \in Nat BY RunAssumption
<1>4. RunTypeOK
  <2>1. commands \in [Cmds -> CommandType] BY <1>2 DEF RunInit, Cmds
  <2>2. QED BY <1>3, <2>1 DEF RunInit, RunTypeOK, Cmds
<1>5. \A i \in Cmds : /\ commands[i].state = "none" /\ commands[i].status = NotEnded
                      /\ commands[i].to_complain = cmds[i].err
                      /\ commands[i].to_say = IF cmds[i].kind = "source" THEN cmds[i].out ELSE 0
                      /\ pipes[i] = 0 /\ err_pipes[i] = 0
  BY <1>2 DEF Unstarted, RunInit, Cmds
<1>6. run_pc \in {"idle", "start"} /\ raw_out = 0 /\ raw_err = 0 /\ pipes[0] = 0
      /\ to_feed = IF io.input = "text" THEN InputSize ELSE 0
  BY DEF RunInit
<1>7. StatusesOK BY <1>5, <1>6 DEF StatusesOK, Ended
<1>8. ReturnOK BY <1>6 DEF ReturnOK, Over
<1>9. ErrorsOK BY <1>1, <1>5, <1>6 DEF ErrorsOK, ProgramType
<1>10. AtEnd BY <1>5 DEF AtEnd, Ended
<1>11. OutputOK
  <2>1. PICK R : R = [i \in 0..Len(cmds) |-> Passed[i]] OBVIOUS
  <2>2. \A i \in 0..Len(cmds) : R[i] = Passed[i] /\ Passed[i] \in Int /\ i \in 0..MaxCommands
    BY <1>1, <2>1, PassedInt DEF RunInit
  <2>3. \A i \in 0..Len(cmds) : R[i] = LetThrough(i, Passed[i - 1])
    BY <1>1, <2>2, PassedDef
  <2>4. R[0] = pipes[0] + (IF LastCommand = 1 THEN to_feed ELSE 0)
    <3>1. 0 \in 0..Len(cmds) BY <1>1
    <3>2. QED BY <1>3, <1>6, <2>3, <3>1 DEF LetThrough
  <2>5. ASSUME NEW i \in Cmds
        PROVE  R[i] = Own(i) + (IF cmds[i].kind = "filter" THEN R[i - 1] ELSE 0)
    <3>1. i \in 0..Len(cmds) /\ i - 1 \in 0..Len(cmds) /\ i # 0 BY <1>1
    <3>2. R[i] = LetThrough(i, R[i - 1]) /\ R[i - 1] \in Int BY <2>2, <2>3, <3>1
    <3>3. cmds[i] \in ProgramType BY <1>1
    <3>4. Own(i) = (IF io.error = "stdout" THEN cmds[i].err ELSE 0)
                   + (IF cmds[i].kind = "source" THEN cmds[i].out ELSE 0)
      BY <1>5, <3>3 DEF Own, ProgramType
    <3>5. QED BY <3>1, <3>2, <3>3, <3>4 DEF LetThrough, ProgramType
  <2>6. R \in [0..Len(cmds) -> Int] BY <2>1, <2>2
  <2>7. IsRest(R) BY <2>4, <2>5, <2>6 DEF IsRest
  <2>8. R[LastCommand] + raw_out = Passed[LastCommand]
    <3>1. LastCommand \in 0..Len(cmds) BY <1>1
    <3>2. QED BY <1>6, <2>2, <3>1
  <2>9. QED BY <2>7, <2>8 DEF OutputOK
<1>12. QED BY <1>4, <1>7, <1>8, <1>9, <1>10, <1>11 DEF RunInv

\* When all have ended by themselves, what is left is in the last pipe.
LEMMA NothingLeft ==
  ASSUME RunInv, \A i \in Cmds : commands[i].status = 0, NEW R, IsRest(R)
  PROVE  R[LastCommand] = pipes[LastCommand]
<1>1. RunTypeOK /\ StatusesOK /\ AtEnd BY DEF RunInv
<1>2. Cmds = 1..Len(cmds) /\ LastCommand \in Cmds /\ LastCommand = Len(cmds) /\ Len(cmds) \in Nat
  BY <1>1, CmdsFacts DEF RunTypeOK
<1>3. ASSUME NEW i \in Cmds
      PROVE  /\ R[i] = pipes[i] + (IF cmds[i].kind = "filter" THEN R[i - 1] ELSE 0)
             /\ cmds[i].kind = "filter" =>
                  pipes[i - 1] = 0 /\ (i = 1 => R[i - 1] = 0)
             /\ pipes[i] \in Nat
  <2>1. Ended(i) BY <1>1 DEF StatusesOK, NotEnded
  <2>2. commands[i].to_say = 0 /\ commands[i].to_complain = 0 BY <1>1, <2>1 DEF AtEnd
  <2>3. pipes[i] \in Nat BY <1>1 DEF RunTypeOK
  <2>4. Own(i) = pipes[i] BY <2>2, <2>3 DEF Own
  <2>5. cmds[i].kind = "filter" => pipes[i - 1] = 0 BY <1>1, <2>1 DEF AtEnd
  <2>6. cmds[i].kind = "filter" /\ i = 1 => R[i - 1] = 0
    <3> SUFFICES ASSUME cmds[i].kind = "filter", i = 1 PROVE R[0] = 0 OBVIOUS
    <3>1. pipes[0] = 0 /\ (LastCommand = 1 => to_feed = 0) BY <1>1, <2>1 DEF AtEnd
    <3>2. QED BY <3>1 DEF IsRest
  <2>7. QED BY <2>3, <2>4, <2>5, <2>6 DEF IsRest
<1> DEFINE Bad == {i \in Cmds : R[i] # pipes[i]}
<1>4. Bad = {}
  <2> SUFFICES ASSUME Bad # {} PROVE FALSE OBVIOUS
  <2>1. PICK i \in Bad : \A m \in Bad : i <= m
    <3>1. Bad \in SUBSET Nat BY <1>2
    <3> HIDE DEF Bad
    <3>2. QED BY <3>1, SmallestOf
  <2>2. cmds[i].kind = "filter" BY <1>3, <2>1
  <2>3. i # 1 => i - 1 \in Cmds /\ ~(i <= i - 1) BY <1>2, <2>1
  <2>4. R[i - 1] = 0 BY <1>3, <2>1, <2>2, <2>3
  <2>5. QED BY <1>3, <2>1, <2>2, <2>4
<1>5. QED BY <1>2, <1>4

\* Run returns the status of the last command and all that was said, whatever
\* the sizes of pipes and texts and whoever ends first (Run.wait, Run.__init__).
THEOREM RunRightHolds == RunSpec => []RunRight
<1>1. RunInv => RunRight
  <2> SUFFICES ASSUME RunInv PROVE RunRight OBVIOUS
  <2>1. RunTypeOK /\ StatusesOK /\ ReturnOK /\ ErrorsOK /\ AtEnd /\ OutputOK BY DEF RunInv
  <2>2. LastCommand \in Cmds /\ \A i \in Cmds : cmds[i] \in ProgramType
    BY <2>1, CmdsFacts DEF RunTypeOK
  <2>3. ASSUME run_pc = "returned", io.output = "pipe", HasPipe,
               \A i \in Cmds : commands[i].status = 0
        PROVE  raw_out = Passed[LastCommand]
    <3>1. PICK R : IsRest(R) /\ R[LastCommand] + raw_out = Passed[LastCommand]
      BY <2>1, <2>3 DEF OutputOK, NoneKilled
    <3>2. R[LastCommand] = 0 BY <2>1, <2>3, <3>1, NothingLeft DEF ReturnOK
    <3>3. raw_out \in Nat BY <2>1 DEF RunTypeOK
    <3>4. QED BY <3>1, <3>2, <3>3
  <2>4. ASSUME run_pc = "returned", io.error = "pipe", commands[LastCommand].status = 0
        PROVE  raw_err = cmds[LastCommand].err
    <3>1. Ended(LastCommand) /\ err_pipes[LastCommand] = 0
      BY <2>1, <2>4 DEF ReturnOK, HasPipe
    <3>2. commands[LastCommand].to_complain = 0 BY <2>1, <2>2, <2>4, <3>1 DEF AtEnd
    <3>3. raw_err \in Nat BY <2>1 DEF RunTypeOK
    <3>4. QED BY <2>1, <2>4, <3>1, <3>2, <3>3 DEF ErrorsOK
  <2>5. QED BY <2>1, <2>3, <2>4 DEF RunRight, ReturnOK
<1>2. QED BY <1>1, RunInitInv, RunInvStep, PTL DEF RunSpec

=============================================================================
