# A verification development for e3-core

e3-core is the Python library under AdaCore's build tools: a DAG of jobs, the
scheduler that runs it, the processes the jobs spawn, the fingerprints that
tell which of them need to run again, and around this core the Anod planner, the
stores, the file system helpers, and many small utilities.

This directory holds TLA+ specifications of the core, TLC configurations that
check them on small instances, and theorems about them that TLAPS proves for
all values of the constants. `PROJECT.json` is the machine-readable index: it
ties every definition to the lines it models (`map`), names the runs, the
mutations of the code each property detects (`mutants`), the disagreements between the
code and its documentation (`findings`), and what is hard to test (`hazards`).

Paths below are relative to `src/src/e3/`.

## 1. The system

### The core: a DAG of jobs, executed

    Walk ──gives its DAG and two callbacks──> Scheduler ──iterates──> DAGIterator ──over──> DAG
      │  get_job, collect                        │ start / interrupt      (BUSY, leave)
      │                                          v
      └── fingerprints (files, client code)     Job threads ──notify_end──> message_queue
                                                 │
                                                 └── ProcessJob ──Run / kill──> os.process

| Component | State | Operations | Calls |
|---|---|---|---|
| `collection/dag.py` `DAG` | vertex data, predecessors; caches: successors, `has_cycle`, topological order | `add_vertex`, `update_vertex` (checked or not), `set_predecessors`, `merge`-like updates with `\|=`, `check`, `reverse_graph` | `DAGIterator` in `check` |
| `DAGIterator` | non visited vertices, state and number of open predecessors of each | `next_element`, `leave` | |
| DAG queries | none: local variables of one call | iteration, `shortest_path`, `get_context`, `prune`, `get_predecessors`, `get_closure` | `DAGIterator` |
| `job/scheduler.py` `Scheduler` | one list per queue, tokens, active jobs, slots, `queued_jobs`, message queue | `run`, `enqueue`, `launch`, `wait`, `stop`, the Ctrl-C handler | the iterator; `job_provider`, `collect` of its owner; `Job.start`, `Job.interrupt` |
| `job/__init__.py` `Job`, `ProcessJob` | `interrupted`, `proc_handle`, times, one lock for all | `start`, `task_wrapper`, `run`, `interrupt`, `status` | `Run`, `kill_process_tree` |
| `job/walk.py` `Walk` | `job_status`, `failure_source`, the new fingerprints; saved fingerprints on disk | `get_job`, `collect`, `should_execute_action`, `request_requeue` | `Scheduler` |
| `anod/context.py` `AnodContext`, `anod/action` | the tree of actions, its `Decision` objects, tags, loaded specifications and sources | `add_anod_action`, `add_spec`, `load`, `link_to_plan`; `schedule` with a resolver | `DAG`; the result goes to a `Walk` (`electrolyt/run.py`) |
| `os/process.py` | processes of the system, signals, a pipe | `Run`, `kill_process_tree`, `wait_for_processes` | psutil, the kernel |

What is hard here: the threads of jobs and the scheduler's share the jobs and
a message queue; Ctrl-C may interrupt the main thread between any two of its
steps; a job may end while it is being interrupted or timed out; a job may be
requeued after it ended; processes fork and end while they are listed and
killed; a walk may be stopped, or fail, after it removed a fingerprint and
before it saved the new one; the DAG keeps three caches that every update must
drop or bring up to date; the planner extends its tree line after line, meets
again what it has expanded before, and decides late, in the order of an
iteration, what the lines and the dependencies have said about a choice.

What makes each part correct:

- **DAG**: the caches say what a fresh computation would; an update that is
  refused has changed nothing, and is refused only for a cycle or a missing
  vertex; a graph that was only changed by checked updates stays valid.
- **DAGIterator**: vertices come in topological order, a vertex only once its
  predecessors have been *left*; it never gets stuck in a valid graph; it
  says "cycle" exactly when there is one.
- **Queries**: the path is a shortest one; the context is exact; `prune` keeps
  who reaches whom among the vertices that stay.
- **Scheduler**: a job starts after its predecessors have been collected, with
  its tokens and a slot no other job has; tokens and slots come back; it starts
  what can be started before it waits; everything ends; Ctrl-C interrupts
  every job that runs.
- **ProcessJob**: a job that was interrupted leaves no process; its status is
  that of its last run.
- **Walk**: a job that counts as done has an output that is up to date with all its sources;
  a saved fingerprint means a successful execution; what has not changed is
  not executed; a skipped job names all failures at its origin.
- **Planner**: the tree is a function of the set of lines and the specifications,
  not of the order; what is scheduled is what the lines need and no more, and
  has all it needs; the wishes of dependencies are respected, or an error
  names the lines that cannot be reconciled.
- **Processes**: whatever was alive and known when the kill began is dead when
  it returns; a wait returns when a process it waits for has ended.

### Around the core

| Component | State | What makes it correct |
|---|---|---|
| `electrolyt/run.py`, `anod/buildspace.py` | job statuses, build spaces on disk | an action runs on what this run checked out, in a clean build space |
| `electrolyt/plan.py`, `env.py`, `mock/env.py`, `pytest.py` | stacks of environments, in memory and in files | what is saved is what is restored; a line of a plan sees the blocks it is written in |
| `anod/loader.py` | loaded modules, checksums, the prolog | one class for each specification, made from whole classes, whoever asked for it |
| `anod/qualifiers_manager.py` | declarations, then values and names | different values, different names; a component is one set of values |
| `anod/checkout.py`, `vcs/*` | a working copy and two metadata files | after an update the files are those of a revision of that URL, and the metadata says so |
| `anod/store/*` | SQLite tables, a shared store and a local copy; client objects | what is committed is whole; a local copy answers alone; clients agree with the store |
| `store/*` | a cache directory that processes share | what is given away is the resource asked for |
| `net/http.py`, `net/smtp.py` | a queue of base URLs, credentials | the credentials of the URL that is asked; no URL asked twice |
| `event/*` | an event, files, mailboxes | an event said to be sent is delivered, whole, to everyone |
| `fs.py`, `archive.py` | files | no call that fails half-way loses a file; a call that returns has done it all |
| `python/pypi.py` | caches of links, candidates, requirements, files | what is locked is what is needed, no more and no less |

Text, formats, documents (`spdx.py`, `slsa`, `encoding`, `cve.py`), NPM and Maven queries, collections and
decorators keep no state of interest; section 8 says why they are not modelled. Every file
is in one entry of `components` in `PROJECT.json`.

## 2. The modules

### The core

| Module | Models | State and actions |
|---|---|---|
| `Digraph` | reachability, cycles: the vocabulary of all the others | constants only |
| `Dag` | `DAG`, the object | `vertex_data`, `predecessors`, the three caches; one action per method, with the way it was called (`enable_checks`) |
| `DagIterator` | `DAGIterator` in both modes | `NextElement`, `Leave`; `PlainIteration` and `BusyIteration` are the two ways of using it |
| `DagQuery`, `ShortestPath`, `DagViews` | the queries, loop by loop; `DagQuery` starts any one of them | one action per iteration of the loop of the query |
| `DagExecution` | **abstract**: what a scheduler promises | `Begin`, `Finish`, `Again`, `Skip` on `status[j]` |
| `Scheduler` | `Scheduler.run` and what it calls, job threads, Ctrl-C, timeouts | `pc` of the calling thread; one action per step between two points where another thread, or Ctrl-C, matters |
| `JobTimeout` | the clock of `Scheduler.wait`: how the timeout is computed from the times jobs keep | the steps of `wait` with a clock |
| `ProcessJob` | job threads and the main thread around `Job.lock` | `thread[j]`, `mainOp`, the lock, processes |
| `ProcessCalls` | `kill_process_tree` and `wait_for_processes` against processes that fork and end | the steps of one call, those of the kernel and of the processes |
| `RunCommands` | `Run`: commands in pipes of a bounded size, with redirections, input as text, filters, signals and starts that fail | `run_pc` of the caller; one action `Command(i)` for each running command |
| `Walk` | `Walk` over a scheduler of which only `DagExecution` is used, walk after walk | `get_job`, `collect` with `DagExecution`'s actions; edits between walks; stops |
| `Electrolyt` | `ElectrolytJobFactory` and what each kind of action does to its build space and the sandbox | a run collects one action after the other; kills; another run, from what is on disk |

### The planner and the environment

| Module | Models | State and actions |
|---|---|---|
| `AnodSchedule` | the actions and decisions of `anod/action`, and `AnodContext.schedule` | one action per kind of vertex the iteration meets, one per upload of the second loop |
| `AnodContext` | `AnodContext`; EXTENDS `AnodSchedule`, so that lines may be added after a `schedule` | `AddLine` begins `add_anod_action`; `todo` is the stack of what the nested calls of `add_spec` have still to do, one action per step of it |
| `Environment` | `BaseEnv`, `Env`, and the two ways of nesting saves | the current environment, the stack of saves, the files; one action per method |
| `Plans` | `PlanContext`; EXTENDS `Environment` | the stack of blocks; entering, leaving and failing in a block; one action of the plan |
| `SpecLoader` | `AnodModule`, `AnodSpecRepository` | `frames` is the stack of code under execution; one action per statement |
| `Qualifiers` | `QualifiersManager` | declarations, then `parse`: values, components, build space names |

### Files, stores and the network

| Module | Models | State and actions |
|---|---|---|
| `FileMoves` | `mv`, `cp`, `rm`, `unpack_archive` | a map from paths to contents; one action per entry moved, copied or removed; faults and kills at each |
| `SyncTree` | `sync_tree`: the walking thread and its worker | two trees, the queue between the threads; edits, failures, kills |
| `Checkouts` | `CheckoutManager.update` over git, svn and `sync_tree` | the working copy, the metadata, the repositories; one action per command |
| `PyPIClosure` | `PyPIClosure` and the caches of `PyPI` | `Pin`, `Backtrack` as the resolver pleases; fetches that fail; files cut by a kill |
| `Events` | `EventManager`, its four handlers, `sendmail` | one action per file copied, object uploaded, server tried |
| `StoreTables` | the tables and the statements run on them | operators on a record of tables |
| `AnodStore` | `StoreRW`, `LocalStore`, bulk updates; transactions | what a connection sees and what is committed; one action per call, with the statement at which it raises |
| `StoreClients` | `BuildInfo.wait`, third-party uploads, `Component` objects | one action per call of the store that a method makes; lost answers |
| `FileDownload` | `File.download` and its metadata file | the file, the trees it is unpacked to; one action per step |
| `ResourceCache` | `Store.download_resource` over `FileCache` | files, entries, one program counter per client |
| `HttpSession` | `HTTPSession.request`, `download_file` | the queue of URLs, credentials, the request under way |

`Scheduler` EXTENDS `DagIterator`: the iterator's actions are conjuncts of its
own. `Walk` EXTENDS `DagExecution`: what it may assume of the scheduler is what
`Scheduler` is shown to implement (`Implements`). `Dag` uses the iterator only through the
result `DagIterator_proofs` and the run `DagQueries` establish of it: `check`
says there is a cycle exactly when there is one. `Electrolyt` runs its actions in the order
`Scheduler` allows with one token; `HttpSession` is what `ResourceCache` means by a download.

Abstractions a reader should know of. In `AnodContext` a specification is a record
`Def[s]`: which primitives it has, whether it is packaged, which sources it provides and
needs, its dependencies for each primitive; the same specification with another
qualifier has another uid, and counts as another one. `predecessors(u)[0]` in the code is
the first element of a `frozenset` of strings; which one it is depends on the seed of the
hashes, and the constant `Orders` says for which specifications it is the decision. A job of `Scheduler`
is a black box that ends and puts its message; its inside is `ProcessJob`, its clock
`JobTimeout`: the timeout of `Scheduler` may therefore occur at any time, which is
more than the code does. A fingerprint is the set of what it covers. A file is its content,
named by the resource or the revision it is of, or half of one. The resolver of `PyPIClosure`, git, svn, the mail servers,
the SQLite engine and the kernel are external: they do whatever the callers rely on, or fail.

## 3. The runs

Small components that do not share state are checked by one run: a *part* is one of them, a
behaviour is a behaviour of its part, and the constant `Parts` says which ones
the run has. To look at one alone, set `Parts` to it.

| Run | Module | Parts | Size |
|---|---|---|---|
| `DagQueries` | MCDagQueries | four vertices, one call on each graph the method is meant for | 567k states |
| `Scheduler` | MCScheduler | `dag`: a graph of three vertices, all sequences of calls, two graphs to merge; `scheduler`: three jobs, every graph, two queues, requeues, skips, hangs, one Ctrl-C | 175k |
| `Jobs` | MCJobs | `jobs`, `timeout`, `tree`, `wait`, `commands` | 372k |
| `Sandbox` | MCSandbox | `walk`, `electrolyt`, `files`, `sync`, `checkouts`, `pypi`, `events` | 1,213k |
| `Anod` | MCAnod | `context`, `environment`, `plans`, `loader`, `qualifiers` | 1,669k |
| `Stores` | MCStores | `store`, `clients`, `download`, `cache`, `http` | 1,288k |

What they show, by property:

- `CachesSound`, `RefusalsRight`: no cache of a DAG is stale and an accepted checked update leaves a valid
  graph; a refused one changes nothing and has a reason.
- `CycleDiagnosed`, `ResultIsShortest`, `ContextExact`, `PruneKeepsView`: the queries
  against their definitions; `prune` keeps which tags are in view, not how far they are.
- `Precedence`, `ResourcesExact`, `Bookkeeping`, `WorkConserving`, `InterruptedAll`, `RunReturns`,
  `Implements`: order, tokens and slots, the agreement of iterator, queues, active
  jobs and messages, no idle wait, Ctrl-C, termination, and the refinement of `DagExecution`.
- `InterruptedForGood`, `OnlyCutSurvives`, `SuccessIsOfLastRun`: an interrupted job spawns
  nothing more; a Ctrl-C leaves at most one process, that of the job it cut off; a success is that of the last run.
- `ProcessCallsRight`: when `kill_process_tree` says `True`, who survives it escaped before it was listed or cannot be
  killed; the answer of `wait_for_processes` is true. `RunRight`: status,
  output and errors of commands in pipes are all there, and nothing stays open or running.
  `TimeoutRespected`: a job that runs once is interrupted neither early nor late.
  `EverythingEnds`: the liveness of all four. It leaves aside a wait without timeout that has missed a signal
  (`EndIsNoticed` does not), a job whose kill was lost, a text given to piped commands (`InputIsUsed`) and pipes that nobody reads.
- `DoneIsUpToDate`, `IncrementalRight`, `FailureSourceExact`: what a walk says is done is up to date, whatever former
  walks left; a saved fingerprint means an execution that went to its end, and what is predicted right is not
  redone; both about jobs whose reports are true: the default `Job.status` says success of a job that was cut off
  by Ctrl-C or raised (`untold`), and of what is made of such a job nothing is said; failures are blamed on their origins. `ExecutedOnItsInputs`: the same for Electrolyt on its build spaces.
- `FilesRight`: `mv`, `cp`, `unpack_archive` and `sync_tree` keep or bring each file whole, also after calls that failed half-way, as far as no name of
  a file is a pattern of other files.
  `CheckoutRight`: success and unchanged are said of exactly the files of the repository, and the changelog is there after every update by git. `LockRight`:
  the closure is complete and minimal. `SentIsDelivered`: an event said to be sent is everywhere it had to go.
- `ScheduleIsExact`, `NeedsScheduled`, `ErrorIsExplained`, `DependenciesHonoured`: a schedule is what the lines need,
  has all it needs, errors name who cannot be reconciled, dependencies are respected.
  `EnvironmentsRight`, `LoadedRight`, `NamesRight`: see the table of components above.
- `StoreRight`, `ClientsRight`, `ReturnedIsVerified`, `SessionRight`: the
  same, for stores and the network. `DownloadRight`: a download leaves the resource of its `File` object, unpacked if it is
  an archive, when it fetched it or synchronized the trees, or when all calls before saved their metadata. It leaves aside
  objects that were downloaded before to something that is no longer their resource (`Sound`), and after a failure calls that skip.

Six runs end with a violation: each is a `finding`, a disagreement between the
code and what its documentation says.

| Run | What the code does |
|---|---|
| `JobTimeoutRequeue` | a job that was requeued has the times of its former run until its thread sets them: it may get more than `job_timeout` |
| `InputIsUsed` | a text given as input to piped commands is read by none of them: the first one waits for ever |
| `EndIsNoticed` | a SIGCHLD between the poll and `select`, or before the handler is there, is missed: without timeout `wait_for_processes` waits on although a process has ended |
| `WalkTransitive` | a job is skipped on the fingerprints of its direct predecessors; when one of them has none, what changed before it is not seen |
| `AnodTriggerLost` | the decision below an install is taken to be its first predecessor: with another one first, a dependency on a build tree is forgotten and a download accepted |
| `AnodDecisionSkipped` | the creation of a source that a line of the plan also asks for is not seen as the choice of a decision: what needs the source is scheduled without it |

More claims of comments, docstrings and tests are stated beside the property
that holds and are false; they are findings without a run, and adding the name to
the `INVARIANTS` of the configuration shows the counterexample:

| Claim | Configuration | What the code does |
|---|---|---|
| `ContextKept` | `DagQueries.cfg` | a vertex that `prune` removes between another one and its tag brings the tag nearer |
| `KilledTellsTruth` | `Jobs.cfg` | `kill_process_tree` says `True` with survivors: `psutil.wait_procs` returns them, it does not raise |
| `NoneSurvives` | `Jobs.cfg` | Ctrl-C between `job.start` and `active_jobs.append`, or between the flag and the kill of `interrupt`, leaves a process |
| `SavedAsExpected` | `Sandbox.cfg` | a job with the default status that Ctrl-C collects while it runs has its fingerprint saved |
| `MovedWhole` | `Sandbox.cfg` | `mv` across devices removes what the name means as a pattern: for `[c]` the file `c` |
| `UnpackedWhole` | `Sandbox.cfg` | members with a leading dot, or a name that is a pattern, are lost with `remove_root_dir="auto"` |
| `EmptyListIsAll` | `Sandbox.cfg` | `sync_tree` with an empty `file_list` synchronizes nothing, and with `delete` empties the target |
| `SwitchIsReported` | `Sandbox.cfg` | an svn working copy switched to another URL may be said to be unchanged |
| `ChangelogOfChanges` | `Sandbox.cfg` | the changelog of git is written on the first update, and when nothing changed |
| `AlwaysComplete` | `Sandbox.cfg` | a `PyPIClosure` that met a failure answers with less than what is needed |
| `PrereleasesAllowed` | `Sandbox.cfg` | `allowed_prerelease` is never given to `PyPI`: no pre-release is ever locked |
| `BuildSpacesDiffer`, `ChecksumIsOfCode`, `NoSelfCross` | `Anod.cfg` | see the entries in `findings` |
| `BuildsAreThere` | `Stores.cfg` | a component is inserted and committed for an id of no build; reading it then raises |
| `BulkAnswersAreOnline` | `Stores.cfg` | the local store may answer with a source of another build than the shared one gave |
| `SkippedIsUpToDate`, `DoneIsThere` | `Stores.cfg` | a download is skipped, or says it has downloaded, although the file is another one or is not there |
| `InvalidIsDiscarded` | `Stores.cfg` | an entry of the cache whose file is gone is never discarded |

**Bounds.** Three jobs give every shape the scheduler
distinguishes: a chain, two jobs for one queue, a third one in another queue,
and all cycles. One requeue per job is enough to have a job come back to the
front of its queue while others hold tokens; the second requeue of a job finds
the state the first one found. One Ctrl-C ends `run`. Four vertices are needed
by `prune` and `shortest_path`: a vertex pruned between two that stay, with a way around it.
In `timeout` the clock runs far enough for every job to be timed out after the others. In `commands` a pipe
holds less than a command may say, and there are two commands, so that each of them can be
the one that blocks or ends first.
Two walks show whatever depends on one saved state, three are needed for a
source that changes and changes back around a failure; two runs of Electrolyt, for what a
run finds of another that failed. Two calls with one fault, or one edit, show what a call makes of what another
left (`files`, `sync`, `pypi`, `download`); three updates of a checkout go from one repository to another and back.
The specifications of `context` have each kind of dependency, a packaged and an unpackaged component,
a managed and an unmanaged source; a decision hears at most two voices and a trigger,
which three lines give it. Two files of specifications are enough to load each
other in a circle; two qualifiers and two sets of values to collide. Two clients, two
resources of one file name and two events are enough for a cached path to be written,
damaged or removed between any two steps of a call.
Each bound is a named constant (`Max...`) of its module and only guards the actions that start something.

`CHECK_DEADLOCK FALSE` is set in `DagQueries`, where a call that has returned
is the end. The composite runs have a step `NoMoreCalls`, since a caller need not call again: in
those parts a deadlock is a stuttering state, and what must happen is stated as liveness
(`EverythingEnds`) or not claimed. It is not enabled in the parts `walk`, `context`, `jobs`, `timeout`,
`tree` and `wait`, nor in the run `Scheduler`: there the end states have a stuttering step
of their own, and any other deadlock would be an error.

## 4. Fairness

- `Scheduler`: the calling thread runs, and a job thread that may end does; a
  hanging job ends only once interrupted, and is interrupted only when the
  timeout expires. Nothing else is assumed: neither that a job asks to be
  requeued a bounded number of times (that is the bound `MaxRequeue`), nor that Ctrl-C comes.
- `jobs`: a thread that can take a step takes it; a job that hangs is interrupted in the end, which is what the
  scheduler does when its timeout expires; a process that does not hang ends. All are weak: the lock
  is only needed once it is free and stays so, since the main thread comes to its end.
- `tree`, `wait`: the caller runs and time passes; the processes need not do anything.
- `commands`: the caller and each command that can go on do. A command that waits for a
  pipe cannot, so that a circle of waits is a counterexample and no lack of fairness.
- Everywhere else there is no liveness property: a call is a loop over a finite set, or ends by a timeout
  of another program.

## 5. What is proved

TLAPS proves these for all graphs, jobs, queues, tokens, processes, programs, repositories, specifications, numbers of
clients and of calls. The assumptions are the named `ASSUME`s of the modules (types of the constants; TLC evaluates
them in the runs), that the set of vertices is finite, and the premises named below, which are part of the theorems.
Where a theorem is about a module of a composite run, it is stated for the specification of the module, which is what
the run does in that part.

The arguments by induction on a number or a finite set are by a smallest counterexample: the library's induction
theorems take an operator as a parameter, which the provers cannot instantiate, but its facts on well-founded
orders do not (`SmallestOf`, in the modules that need it). This gives the lemmas on sums over the jobs that run, on levels
of a graph and on numbers of remaining vertices, and that the recursive functions of the properties exist.

- `DagIterator_proofs`: in busy mode, the number kept for each vertex is the
  number of its predecessors not left (`BusyCountsExact`), so vertices come in
  topological order (`BusyTopologicalOrder`) and the iteration is never stuck
  (`BusyNeverStuck`). In plain mode, a cycle is reported only when the vertices left have each a
  predecessor among them (`PlainCycleVerdict`), and one of them is then its own ancestor, as the search for the cycle
  to print needs (`CycleDiagnosed`): in a finite set where everyone has a predecessor, the ancestors of a vertex
  with fewest ancestors are its own.
- `Scheduler_proofs`: types, precedence, the books (each job in one place;
  `queued_jobs` is the length of the queues; no message from a job that is not
  active; slots distinct), work conservation, that Ctrl-C interrupts all active
  jobs, and that a job is collected only after its thread has ended. They all
  rest on `SchedInv`, the conjunction of `IterInv` (the iterator's invariant,
  carried over by lemmas that say what each iterator action preserves) with an
  invariant that locates every job: in a queue, with the calling thread, active,
  with a message, or left. Precedence is not inductive without it: that
  a job the scheduler is about to start is BUSY in the iterator, and that the iterator
  is not left before the job is collected, are facts about two variables of
  different objects. `TokensInv` adds that the tokens of a queue and those of its active jobs make up its capacity, and
  the slots likewise: `ResourcesExact` follows, that `run` turns in vain only on a graph with a cycle
  (`SpinDiagnosedHolds`), and the refinement `Implements` (`SchedulerImplements`): every step of the scheduler maps
  to a step of `DagExecution` or to a stutter. The module begins with the lemmas on removal, concatenation
  and insertion in sequences it needs for queues, and on the sum of the tokens of a sequence of jobs.
- `Dag_proofs`: `DagInv` says that the three caches are exact or empty, and is
  inductive when each action recomputes or drops what it must; `CachesSound` follows. `RefusalsRight`
  needs more: that a check which looks only at the ancestors of the updated vertex finds every cycle
  the update makes (`AncestorCycle`), and no other. Premise: `reverse_graph` is
  called on graphs without missing vertices (`ReverseOpen = FALSE`).
  The queries, on any finite graph: `PruneKeepsView`, whose invariant says what stands for each vertex met so
  far in the graph that is built: itself if it stays, the kept vertices behind it if not; `ContextExact`, whose invariant is that of a
  breadth-first search that stops behind tags, level by level; `ResultIsShortest`, the correctness of Dijkstra's
  algorithm with a fake node: what is known is exact up to the last vertex taken, and never too small.
- `Jobs_proofs`, `ProcessJob`: an invariant on who holds the lock at which place gives `InterruptedForGood`:
  no process is spawned once `interrupted` is set; with it, that the handle a kill
  reads is that of the last process and that only a job that Ctrl-C cut off keeps one (`OnlyCutSurvives`), and that the status read at the end is
  that of the last run (`SuccessIsOfLastRun`, `NotreadyExplained`).
  `ProcessCalls`: `ProcessCallsRight`, for any tree and any timing. Until the list is made, a process that has not
  escaped is the root or below it; from then on it is in the list (`TreeInv`).
  `JobTimeout`: `TimeoutRespected` and `NotTooEarly`. The deadline of `wait` is that of the first active job, and each job
  handled before may cost one unit more: the bound is the number of jobs. Premise: `MaxLaunches = 1`, jobs run once;
  for jobs that are requeued it is false, which is the finding of `JobTimeoutRequeue`.
  `RunCommands`: `RunRight`, for any number of programs in pipes of any size. What a command will still let through is in
  the pipe behind it, in itself and, for a filter, in what the command before it will let through; with what was read
  this is what the programs had to say at the start, as long as none is ended by a signal (`OutputOK`). A filter that has ended by
  itself has left nothing in its pipe, and nobody writes to it any more (`AtEnd`).
- `Sandbox_proofs`, `Walk`: `WalkInv` says that a fingerprint on disk is the content of the output, that a
  prediction is made of fingerprints that are right already, and where each job is; `DoneIsUpToDate` and
  half of `IncrementalRight` follow. `ReasonInv` adds why a job was or was not executed, for `FailureSourceExact` and the other
  half. Premise: `UntrackedNear`, no action has an untracked one two steps before it. The jobs with the default status are in it: the
  invariant holds of each job that nothing untold is below of. The run `WalkTransitive` is an instance
  without the first one, where `DoneIsUpToDate` fails.
  `Checkouts`: `CheckoutRight`. What git keeps of a directory is the truth of it whenever it is there, and what svn keeps is
  unless files were never all written or git wrote over them (`DirectoryOK`), so what `update` compares with it is right.
  `Events`: `SentIsDelivered`. What a handler has gone through and what it has still to do make up all the attachments, and what it has
  gone through is where it has to go (`SendingOK`).
  `PyPIClosure`: `LockRight`. The identifiers that are pinned are in every set that has what is required and, with a pinned
  identifier, what that one requires (`ReachOK`); when nothing is left to pin they are such a set themselves, so they are what
  the rounds of `Needed` reach (`NeededFix`: nothing is added after as many rounds as there are identifiers; `NeededLeast`).
  The caches of a call that was cut are unknown or hold only versions that may be locked, and requirements read without a
  failure are those of a whole file (`CachesOK`, `ReqsOK`).
  `Electrolyt`: `ExecutedOnItsInputs`. A status is a success only when everything directly below the action is one and was so when it
  started (`StatusInv`, `WorkingInv`); the set of actions that succeeded is then complete and holds all that is `Above` one of its
  members, which is why `Above` is written with complete sets and not as a search. What was checked out, archived and installed stays so
  until the run ends (`SourceInv`): the sources this run has made are those of the revision it found. Premises: `CheckoutsAreInstalled`,
  a primitive that comes after a checkout has a source made of it installed in between, as `AnodContext.add_spec`
  makes the plan; and `OneSource`, since the model has one directory of sources.
- `Anod_proofs`, `SpecLoader`: `LoadedRight`, whatever the specifications load of each other. A specification that has a
  class is not executed again, so the class stays; a frame knows the class it was made from; and only
  what is above the frame of the prolog may see a prolog that is not complete.
  `Environment` and `Plans`: `EnvironmentsRight`. For saves (`RestoredRight`), the stack in memory and the
  files hold the surroundings at each save, and a block whose save is still there finds what it found. For plans (`PlanRight`),
  a list of blocks decides the environment inside it: the one `set_env` makes of the values of its last block and of the environment around
  (`EnvIn`), however the plan got there. The stack is these environments for each block the plan is in, from the outside in, and
  the action at the place of a call is what `_add_action` makes of the environment in its blocks and its arguments (`PlansInv`).
  What remains is about `set_env` alone: its roles are those of the last values given (`NamesStep`), and a triplet taken on the
  machine it was made for gives the same names and the same crossness (`TripletRight`). The latter only
  for a target that its triplet tells (`TargetIsTold`): `str_triplet` does not say the machine of the host, so a target
  of the same name that differs from it by having no machine, or that of this one, may be read back as the host itself.
- `AnodContext_proofs`, with `AnodSchedule`: `ScheduleIsExact`, `NeedsScheduled`, `ErrorIsExplained` and `DependenciesHonoured`, for any specifications, any lines and any
  schedules in between. `PlanInv` says what the tree is when `schedule` is called (`PlannedTree`: a decision has one initiator, a plain action,
  and its two sides; nothing but uploads and the root leads to an upload). It is inductive only with
  `CallsOK`, on the stack of nested calls: the actions a call is about are in the tree already, what a call returns suits the one that
  waits for it, no two calls are about to add the same decision. `ScheduleInv` is the invariant of the iteration: who
  depends on what has been seen has been seen (`OrderOK`), the uploads put off come before what they need (`UploadsOK`), the
  triggers met so far are all a decision will hear of (`VoicesOK`), and the result is so far what it should be
  of those handled (`DagOK`). `ErrorIsExplained` adds `DagRooted`: a set of actions of the result that has all their dependents
  has the root; so the search upwards that names the initiators comes to it (`AboveLeast`: it stops with the least such set).
  `DependenciesHonoured` adds `HonourInv`. What a call returns is known before it returns (`WillReturn`), so the stack knows
  the edges to come (`Promises`). A dependency on a build or a download is told to the decision, or its call is still to tell
  (`HonourOK`); where the decision is not there yet, the dependency leads back to the install that is being decided, and the calls
  from the one to the other are a circle (`InCircle`), which stays in the tree: no such plan is scheduled. A decision
  that was told one side chooses that one or fails (`ChosenSide`). Premise: `DecisionsFirst`, the decision of an install that also needs
  something else comes first among its predecessors, where the code looks for it. The sets are iterated in any order, so this is a
  condition on the specifications: no packaged one that is built has dependencies of its install. The run `AnodTriggerLost` is an instance
  without it, where the property fails.
- `Stores_proofs`: `ReturnedIsVerified` of `ResourceCache` (only a write to the very path can make wrong what was
  verified); `DownloadRight` of `FileDownload` (what a call relies on is what the last one left, if that
  one saved its metadata); `SessionRight` of `HttpSession` (the queue is the URL that is asked, those left, those asked
  before: it has turned as often as URLs have failed).

What stays with TLC, and why:

- Liveness (`RunReturns`, `EverythingEnds`) is out of the prover's reach.
- `StoreRight` and `ClientsRight` are about tables that statements fill row by row, folds over sequences of rows: what such a
  fold computes is an induction over data.
- `NamesRight` says that names of different values differ: it rests on a concatenation of words being injective.
- `FilesRight` has no proof yet. Its three parts (`mv` and `cp`, `unpack_archive`, `sync_tree`) are about one caller each.

## 6. What to know of the code, from modelling it

What contradicts a document is a finding (section 3). The rest:

- A second `run()` of a scheduler finds the queues, tokens and slots as the
  first one left them. After a Ctrl-C that is not a fresh state.
- `reverse_graph(enable_checks=True)` on a graph with missing vertices records
  the verdict of the reversed graph, where the missing vertices are no error.
- A job whose `cmd_options` raises is left with the status *notready*, and not
  *failure*, since they are read before the `try` of `ProcessJob.run`: `NotreadyExplained` names this case.
- A source is known to the planner once some line has loaded its specification:
  without a `source_pkg` dependency a plan may be refused or accepted depending on
  the order of its lines. The code has a warning for it.
- A decision keeps what was expected of it by an earlier `schedule`.
- Jobs without tokens are launched whatever the queue has left, and can run out
  of slots.
- A write to a store that raises leaves its first rows in the open transaction, and the next commit, even the one
  of `close()`, makes them permanent. `ComponentsWhole` holds of what components are made of because files go before the component that names
  them; it says nothing of the build of a component whose build was unknown.
- Two uploads of a third party that both find its name free both succeed: `ThirdPartiesUnique` leaves aside the names
  that were uploaded twice at once, and nothing in the code would catch that race.
- `Cache.delete` says it does nothing if the uid does not exist; another process may remove the file between its test and its
  removal, and the call raises (`RemovePath`).
- `get_source_info` says "for the corresponding setup"; neither the code nor the model looks at the setup.
- A directory given to `ResourceCache` as destination may be shared: a path that was verified is not protected from
  a later download of another resource of the same file name.
- `Env.restore` restores platforms and variables before it finds out that the directory is gone.
- A failure in the fetches of `PyPIClosure` is remembered as an empty answer: `LockRight` is about objects that have met none.

## 7. What is left out of the modelled parts

Log messages, names of jobs and slots' numbers beyond their being distinct; vertex
data other than presence, and tags other than which vertex has one
(`get_context`, `prune`); of the planner, `source_packages`, the
`spec_load_hook` and two dependencies with one local name; the exceptions of client callbacks (`safe_collect`
logs them and goes on); `DAG.as_dot` and pickling; a second `run()` of one scheduler. Of plans, whatever their Python code does
besides blocks and calls of actions. Of the file system, single system calls, permissions and patterns other than `*`; of archives, their formats.
Of version control, the commands no checkout uses; of Python packages, the metadata of wheels.
The queries a store answers are modelled where a caller depends on them. The Windows variants of process and file functions.

## 8. Not modelled

- NPM and Maven (`npm.py`, `maven.py`): page after page of a web service, turned into data classes; no state of their own.
- Security documents (`spdx.py`, `slsa`, `encoding`, `cve.py`): classes for documents, their validation and
  their JSON form; what could be wrong is the wording of the formats.
- Collections, decorators: pure functions, a dictionary and a few wrappers, which unit tests reach.
- Text, logs, configuration, command lines (`text.py`, `log.py`, `config.py`, `main.py`, `yaml.py`, `diff.py`): formatting and parsing.
- Windows support (`os/windows`): declarations of the native API.

## 9. Plan

Done: all components with state over time are modelled, and the core is proved. What is left:

1. Proofs: `FilesRight`, beginning with `MoveRight` of `FileMoves`.
2. The composition of `Electrolyt` with a schedule that `AnodSchedule` returned, instead of a given set of actions.
3. The single-command variants of `vcs/git.py` and `vcs/svn.py`, should a client of theirs depend on their order.
