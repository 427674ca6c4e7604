------------------------------ MODULE Electrolyt ------------------------------
(***************************************************************************)
(* e3.electrolyt.run: the actions of a DAG, each executed by a job in the  *)
(* sandbox, with the build space it works in (e3.anod.buildspace).  The    *)
(* scheduler is that of module Scheduler with its default queue: one job   *)
(* at a time, after its predecessors are collected.  The sandbox stays     *)
(* from one run to the next, also when the program is killed.              *)
(*                                                                         *)
(* Files are known by the revisions they come from: those of a checkout by *)
(* one, the prepared and the installed sources by a set of them.           *)
(***************************************************************************)
EXTENDS Naturals, FiniteSets, Sequences

CONSTANTS Actions, ActionKind,    \* uid -> kind
          ActionsBefore,          \* uid -> uids
          DryRun, Revisions,
          SpaceDirs, KeptDirs,    \* BuildSpace.DIRS; KeptDirs: "results", "log"
          MaxRuns, MaxRaised      \* runs, and exceptions in a history

NoRevision == 0
ASSUME SandboxAssumption ==
    /\ ActionsBefore \in [Actions -> SUBSET Actions] /\ DryRun \in BOOLEAN
    /\ NoRevision \notin Revisions /\ "tmp" \in SpaceDirs /\ "tmp" \notin KeptDirs

VARIABLES job_statuses,   \* ElectrolytJobFactory.job_status
          working,      \* <<>>, or the job that was given to the scheduler
          upstream,     \* the revision the repository is at
          local_builder,\* whether the specification has a builder of the source
          disk,         \* the sandbox: vcs, cache, src
          space,        \* its build space: dirs, marker, tmp (tmp holds files)
          running, electrolyt_runs, raised

electrolytVars == <<job_statuses, working, upstream, local_builder, disk, space,
                    running, electrolyt_runs, raised>>

Collected == DOMAIN job_statuses

ElectrolytInit ==
    /\ job_statuses = <<>> /\ working = <<>>
    /\ upstream \in Revisions /\ local_builder \in BOOLEAN
    /\ disk = [vcs |-> NoRevision, cache |-> {}, src |-> {}]
    /\ space = [dirs |-> {}, marker |-> FALSE, tmp |-> FALSE]
    /\ running = FALSE /\ electrolyt_runs = 0 /\ raised = 0

\* The repository and the specifications may have changed since the last run.
StartRun ==
    /\ ~running /\ electrolyt_runs < MaxRuns
    /\ running' = TRUE /\ electrolyt_runs' = electrolyt_runs + 1 /\ job_statuses' = <<>>
    /\ upstream' \in Revisions /\ local_builder' \in BOOLEAN
    /\ UNCHANGED <<working, disk, space, raised>>
EndRun ==
    /\ running /\ Collected = Actions /\ running' = FALSE
    /\ UNCHANGED <<job_statuses, working, upstream, local_builder, disk, space,
                   electrolyt_runs, raised>>

\* Variant: only a failure is passed on to the successors.
FailedBefore(a) == \E p \in ActionsBefore[a] : job_statuses[p] = "failure"

\* A job is failed at once when a predecessor has not succeeded.
ForceFail(a) == \E p \in ActionsBefore[a] : job_statuses[p] # "success"

GetElectrolytJob(a) ==
    /\ running /\ working = <<>>
    /\ a \in Actions \ Collected /\ ActionsBefore[a] \subseteq Collected
    /\ working' = <<[uid |-> a, step |-> IF ForceFail(a) \/ DryRun THEN "end" ELSE "run",
                     status |-> IF ForceFail(a) THEN "failure" ELSE "unknown"]>>
    /\ UNCHANGED <<job_statuses, upstream, local_builder, disk, space,
                   running, electrolyt_runs, raised>>

Job == working[1]
JobAt(step, kind) ==
    working # <<>> /\ Job.step = step /\ ActionKind[Job.uid] \in kind
StepBecomes(step) == working' = <<[Job EXCEPT !.step = step]>>
EndsWith(status) == working' = <<[Job EXCEPT !.step = "end", !.status = status]>>
RestOfRun == UNCHANGED <<job_statuses, upstream, local_builder, running, electrolyt_runs>>

\* What a job leaves on the disk when it is interrupted at any point.
Partly(kind) ==
    CASE kind = "checkout"      -> {disk, [disk EXCEPT !.vcs = upstream]}
      [] kind = "createsource"  -> {disk, [disk EXCEPT !.cache = @ \cup {disk.vcs}]}
      [] kind = "installsource" -> {[disk EXCEPT !.src = s] : s \in SUBSET (disk.src \cup disk.cache)}
      [] OTHER                  -> {disk}

\* Any of the calls of a job may raise: ElectrolytJob.run makes it a failure.
MethodRaises ==
    /\ working # <<>> /\ Job.step # "end" /\ raised < MaxRaised
    /\ ActionKind[Job.uid] \in {"checkout", "createsource", "installsource", "primitive"}
    /\ EndsWith("failure") /\ raised' = raised + 1
    /\ disk' \in Partly(ActionKind[Job.uid])
    /\ UNCHANGED space /\ RestOfRun

\* do_root, do_getsource, do_uploadsource, do_uploadbinarycomponent.
DoNothing == JobAt("run", {"root", "getsource", "upload"}) /\ EndsWith("success")
             /\ UNCHANGED <<disk, space, raised>> /\ RestOfRun

DoCheckout ==
    /\ JobAt("run", {"checkout"}) /\ EndsWith("success")
    /\ disk' = [disk EXCEPT !.vcs = upstream]
    /\ UNCHANGED <<space, raised>> /\ RestOfRun

\* A checkout that is not done with git.
DoOtherCheckout ==
    /\ JobAt("run", {"svn checkout"}) /\ EndsWith("failure")
    /\ UNCHANGED <<disk, space, raised>> /\ RestOfRun

\* prepare_src writes into the directory as it was left.  Without a builder the
\* status is what it was.
DoCreateSource ==
    /\ JobAt("run", {"createsource"})
    /\ IF local_builder
       THEN EndsWith("success") /\ disk' = [disk EXCEPT !.cache = @ \cup {disk.vcs}]
       ELSE EndsWith("unknown") /\ UNCHANGED disk
    /\ UNCHANGED <<space, raised>> /\ RestOfRun

\* sync_tree makes the sources of the build space those of the cache.
DoInstallSource ==
    /\ JobAt("run", {"installsource"})
    /\ IF disk.cache = {} THEN EndsWith("failure") /\ UNCHANGED disk
       ELSE EndsWith("success") /\ disk' = [disk EXCEPT !.src = disk.cache]
    /\ UNCHANGED <<space, raised>> /\ RestOfRun

\* run_anod_primitive: activate, then BuildSpace.create, one directory at a
\* time, then the primitive.
Activate ==
    /\ JobAt("run", {"primitive"}) /\ StepBecomes("clean")
    /\ UNCHANGED <<disk, space, raised>> /\ RestOfRun
CleanTmp ==
    /\ JobAt("clean", {"primitive"}) /\ StepBecomes("mkdir")
    /\ space' = [space EXCEPT !.dirs = @ \ {"tmp"}, !.tmp = FALSE]
    /\ UNCHANGED <<disk, raised>> /\ RestOfRun
MakeDir ==
    /\ JobAt("mkdir", {"primitive"})
    /\ IF SpaceDirs \subseteq space.dirs
       THEN StepBecomes("primitive") /\ space' = [space EXCEPT !.marker = TRUE]
       ELSE /\ \E d \in SpaceDirs \ space.dirs : space' = [space EXCEPT !.dirs = @ \cup {d}]
            /\ UNCHANGED working
    /\ UNCHANGED <<disk, raised>> /\ RestOfRun

\* The primitive of the specification: it may leave files in tmp, and raise.
Primitive ==
    /\ JobAt("primitive", {"primitive"}) /\ space' = [space EXCEPT !.tmp = TRUE]
    /\ \/ EndsWith("success") /\ UNCHANGED raised
       \/ EndsWith("failure") /\ raised < MaxRaised /\ raised' = raised + 1
    /\ UNCHANGED disk /\ RestOfRun

CollectJob ==
    /\ working # <<>> /\ Job.step = "end" /\ working' = <<>>
    /\ job_statuses' = [u \in Collected \cup {Job.uid} |->
                         IF u = Job.uid THEN Job.status ELSE job_statuses[u]]
    /\ UNCHANGED <<upstream, local_builder, disk, space, running, electrolyt_runs, raised>>

\* The program is killed.
RunKilled ==
    /\ working # <<>> /\ raised < MaxRaised /\ raised' = raised + 1
    /\ running' = FALSE /\ working' = <<>> /\ job_statuses' = <<>>
    /\ disk' \in Partly(IF Job.step = "end" THEN "none" ELSE ActionKind[Job.uid])
    /\ UNCHANGED <<upstream, local_builder, space, electrolyt_runs>>

\* BuildSpace.reset, between two runs: it may be killed after any directory.
ResetSpace ==
    /\ ~running
    /\ \E d \in space.dirs \ KeptDirs :
          space' = [space EXCEPT !.dirs = @ \ {d}, !.tmp = @ /\ d # "tmp"]
    /\ UNCHANGED <<job_statuses, working, upstream, local_builder, disk,
                   running, electrolyt_runs, raised>>

ElectrolytNext ==
    \/ StartRun \/ EndRun \/ (\E a \in Actions : GetElectrolytJob(a)) \/ MethodRaises \/ CollectJob
    \/ DoNothing \/ DoCheckout \/ DoOtherCheckout
    \/ DoCreateSource \/ DoInstallSource
    \/ Activate \/ CleanTmp \/ MakeDir \/ Primitive \/ RunKilled \/ ResetSpace

ElectrolytSpec == ElectrolytInit /\ [][ElectrolytNext]_electrolytVars

-----------------------------------------------------------------------------
\* BuildSpace.exists.
SpaceExists == space.marker /\ SpaceDirs \subseteq space.dirs

\* The actions that an action needs, those that these need, and so on: what is
\* in every set that has the predecessors of its members.
Above ==
    LET Complete == {S \in SUBSET Actions : \A s \in S : ActionsBefore[s] \subseteq S}
    IN [a \in Actions |->
          {p \in Actions : \A S \in Complete : ActionsBefore[a] \subseteq S => p \in S}]

Succeeded(a) == a \in Collected /\ job_statuses[a] = "success"

\* An action is executed when everything below it succeeded in this run, never
\* in a dry run; a primitive starts in a complete build space whose tmp is
\* empty; and what a primitive is executed on contains the revision that this
\* run checked out, whatever former runs left in the sandbox
\* (ElectrolytJobFactory.get_job, ElectrolytJob.run, BuildSpace.create).
ExecutedOnItsInputs ==
    /\ \A a \in Actions : Succeeded(a) => \A p \in Above[a] : Succeeded(p)
    /\ working # <<>> /\ Job.step # "end" =>
          ~DryRun /\ \A p \in Above[Job.uid] : Succeeded(p)
    /\ JobAt("primitive", {"primitive"}) => SpaceExists /\ ~space.tmp
    /\ \A a \in Actions :
          /\ ActionKind[a] = "primitive" /\ Succeeded(a)
          /\ \E p \in Above[a] : ActionKind[p] = "checkout"
          => upstream \in disk.src
==============================================================================
