---------------------------- MODULE ProcessCalls -----------------------------
(***************************************************************************)
(* The calls of e3.os.process that watch processes, which end and fork     *)
(* while they are watched.                                                 *)
(*                                                                         *)
(* kill_process_tree: a list of the descendants of a process is made once, *)
(* its members are killed one after the other, the root first, and are     *)
(* waited for.  Meanwhile the processes go on: they fork, and those whose  *)
(* parent has ended are no descendants any more.                           *)
(*                                                                         *)
(* wait_for_processes on Unix: a handler of SIGCHLD writes into a pipe,    *)
(* and the loop polls the processes, then blocks in select until the pipe  *)
(* can be read or the timeout is over.                                     *)
(*                                                                         *)
(* A signal is noticed in two steps: the C handler of the interpreter sets *)
(* a flag, and the Python handler is called between two bytecodes, or when *)
(* a system call fails with EINTR.  A signal that comes after the last     *)
(* look at the flag and before the system call interrupts nothing.         *)
(*                                                                         *)
(* pc of wait_for_processes:                                               *)
(*     "idle"      not called                                              *)
(*     "start"     before signal.signal(SIGCHLD, handler)                  *)
(*     "poll"      polling process `index'                                 *)
(*     "enter"     select has been called, the system call not yet         *)
(*     "blocked"   in the system call select                               *)
(*     "read"      select has returned                                     *)
(*     "returned"  wait_for_processes has returned `result'                *)
(***************************************************************************)
EXTENDS Integers, FiniteSets

----------------------------------------------------------------------------
(* kill_process_tree.                                                      *)

CONSTANTS
  Pid,
  Root,     \* the process to kill
  Init1,    \* the process that adopts orphans
  Immune    \* the processes that do not die before the timeout of wait_procs

ASSUME ProcessTreeAssumption ==
  /\ Root \in Pid
  /\ Init1 \notin Pid
  /\ Immune \subseteq Pid

VARIABLES
  proc,      \* "unborn", "alive" or "dead"
  parent,    \* the parent of a process that has been born
  kill_pc,   \* "idle", "start", "listed", "wait" or "returned"
  listed,    \* all_processes
  to_kill,   \* those the loop has not reached yet
  killed,    \* what kill_process_tree returns
  escaped    \* history: adopted, or forked, or descended from such a process,
             \*   at a time that hides it from kill_process_tree

treeProcVars == <<proc, parent, escaped>>
treeVars == <<treeProcVars, kill_pc, listed, to_kill, killed>>

Alive(p) == proc[p] = "alive"

TreeInit ==
  /\ proc = [p \in Pid |-> IF p = Root THEN "alive" ELSE "unborn"]
  /\ parent = [p \in Pid |-> Init1]
  /\ kill_pc \in {"idle", "start"}
  /\ listed = {}
  /\ to_kill = {}
  /\ killed = FALSE
  /\ escaped = {}

\* The processes forked by p, by those it has forked, and so on.
Descendants(p) ==
  {c \in Pid : \A S \in SUBSET Pid :
     {d \in Pid : parent[d] = p \/ parent[d] \in S} \subseteq S => c \in S}

\* p forks a child.
Fork(p, c) ==
  /\ Alive(p)
  /\ proc[c] = "unborn"
  /\ proc' = [proc EXCEPT ![c] = "alive"]
  /\ parent' = [parent EXCEPT ![c] = p]
  /\ escaped' = escaped \cup (IF kill_pc # "start" \/ p \in escaped THEN {c} ELSE {})
  /\ UNCHANGED <<kill_pc, listed, to_kill, killed>>

\* p ends: its children are adopted.
Die(p) ==
  /\ proc' = [proc EXCEPT ![p] = "dead"]
  /\ parent' = [c \in Pid |-> IF parent[c] = p THEN Init1 ELSE parent[c]]

EndsByItself(p) ==
  /\ Alive(p)
  /\ Die(p)
  /\ escaped' = escaped \cup (IF kill_pc = "start" THEN Descendants(p) ELSE {})
  /\ UNCHANGED <<kill_pc, listed, to_kill, killed>>

\* Process.children(recursive=True).
Children == {c \in Descendants(Root) : Alive(c)}

\* The direct children only.
DirectChildren == {c \in Pid : Alive(c) /\ parent[c] = Root}

\* Variant: the grandchildren are left alone.
ListDirect ==
  /\ kill_pc = "start"
  /\ Alive(Root)
  /\ listed' = {Root} \cup DirectChildren
  /\ to_kill' = listed'
  /\ kill_pc' = "listed"
  /\ UNCHANGED <<treeProcVars, killed>>

\* children = parent_process.children(recursive=True)
List ==
  /\ kill_pc = "start"
  /\ Alive(Root)
  /\ listed' = {Root} \cup Children
  /\ to_kill' = listed'
  /\ kill_pc' = "listed"
  /\ UNCHANGED <<treeProcVars, killed>>

\* NoSuchProcess: nothing to kill.
ListNothing ==
  /\ kill_pc = "start"
  /\ ~Alive(Root)
  /\ killed' = TRUE
  /\ kill_pc' = "returned"
  /\ UNCHANGED <<treeProcVars, listed, to_kill>>

\* p.kill(), the root first.  NoSuchProcess is ignored.
KillNext(p) ==
  /\ kill_pc = "listed"
  /\ p \in to_kill
  /\ Root \in to_kill => p = Root
  /\ to_kill' = to_kill \ {p}
  /\ IF Alive(p) /\ p \notin Immune THEN Die(p) ELSE UNCHANGED <<proc, parent>>
  /\ UNCHANGED <<escaped, kill_pc, listed, killed>>

KilledAll ==
  /\ kill_pc = "listed"
  /\ to_kill = {}
  /\ kill_pc' = "wait"
  /\ UNCHANGED <<treeProcVars, listed, to_kill, killed>>

\* Variant: there is no timeout.
WaitForAll ==
  /\ kill_pc = "wait"
  /\ \A p \in listed : ~Alive(p)
  /\ killed' = TRUE
  /\ kill_pc' = "returned"
  /\ UNCHANGED <<treeProcVars, listed, to_kill>>

\* psutil.wait_procs returns the processes gone and those alive, when all are
\* gone or after the timeout: it does not raise TimeoutExpired.
WaitProcs ==
  /\ kill_pc = "wait"
  /\ \A p \in listed : Alive(p) => p \in Immune
  /\ killed' = TRUE
  /\ kill_pc' = "returned"
  /\ UNCHANGED <<treeProcVars, listed, to_kill>>

TreeReturned == kill_pc = "returned" /\ UNCHANGED treeVars

KillStep ==
  \/ List \/ ListNothing \/ KilledAll \/ WaitProcs
  \/ \E p \in Pid : KillNext(p)

TreeNext ==
  \/ KillStep
  \/ \E p, c \in Pid : Fork(p, c)
  \/ \E p \in Pid : EndsByItself(p)
  \/ TreeReturned

----------------------------------------------------------------------------
(* Properties.                                                             *)

\* What the answer True of kill_process_tree does tell: a process of the tree
\* survives only if SIGKILL has not ended it in time, or if it had escaped: its
\* parent (or that of an ancestor) had ended before the list was made, the root
\* itself included, or it was forked after that.
OnlyEscapedSurvive ==
  kill_pc = "returned" /\ killed =>
    \A p \in Pid : Alive(p) => p \in Immune \cup escaped

\* False: "True if all processes either don't exist or have been killed, False if
\* there are some processes still alive" (process.py:860-861).
KilledTellsTruth ==
  kill_pc = "returned" /\ killed => \A p \in listed : ~Alive(p)

----------------------------------------------------------------------------
(* wait_for_processes.                                                     *)

CONSTANTS
  NumProcesses,  \* the length of process_list
  NumOthers      \* bound: the children that end and are not in the list

Processes == 1..NumProcesses

ASSUME WaitAssumption ==
  /\ NumProcesses \in Nat \ {0}
  /\ NumOthers \in Nat

NoIndex == 0

VARIABLES
  timeout,   \* FALSE for timeout = 0, "block until a process ends"
  ended,     \* the processes of the list that have ended
  others,    \* the number of other children that have ended
  pending,   \* the flag of the C handler
  bytes,     \* the bytes in the pipe
  expired,   \* remain < 0
  pc,
  index,
  result     \* the index returned, NoIndex for None

waitVars == <<timeout, ended, others, pending, bytes, expired, pc, index, result>>

WaitInit ==
  /\ timeout \in BOOLEAN
  /\ ended \in SUBSET Processes
  /\ others = 0
  /\ pending = FALSE
  /\ bytes = 0
  /\ expired = FALSE
  /\ pc \in {"idle", "start"}
  /\ index = 1
  /\ result = NoIndex

\* SIGCHLD reaches the process: ignored by default, else the Python handler
\* runs at once if it interrupts select.
Signal ==
  CASE pc \in {"start", "returned"} -> UNCHANGED <<pending, bytes>>
    [] pc = "blocked" -> bytes' = bytes + 1 /\ pending' = FALSE
    [] OTHER -> pending' = TRUE /\ UNCHANGED bytes

ProcessEnds(i) ==
  /\ i \notin ended
  /\ ended' = ended \cup {i}
  /\ Signal
  /\ UNCHANGED <<timeout, others, expired, pc, index, result>>

OtherEnds ==
  /\ others < NumOthers
  /\ others' = others + 1
  /\ Signal
  /\ UNCHANGED <<timeout, ended, expired, pc, index, result>>

TimePasses ==
  /\ timeout
  /\ ~expired
  /\ expired' = TRUE
  /\ UNCHANGED <<timeout, ended, others, pending, bytes, pc, index, result>>

\* The Python handler, between two bytecodes.
RunHandler ==
  /\ pending
  /\ pc \in {"poll", "read"}
  /\ pending' = FALSE
  /\ bytes' = bytes + 1
  /\ UNCHANGED <<timeout, ended, others, expired, pc, index, result>>

\* Variant: the handler is installed after the first check of the processes.
InstallAfterPoll ==
  /\ pc = "start"
  /\ pc' = IF 1 \in ended THEN "returned" ELSE "enter"
  /\ result' = IF 1 \in ended THEN 1 ELSE NoIndex
  /\ UNCHANGED <<timeout, ended, others, pending, bytes, expired, index>>

\* os.pipe(), signal.signal(SIGCHLD, handler)
Install ==
  /\ pc = "start"
  /\ pc' = "poll"
  /\ UNCHANGED <<timeout, ended, others, pending, bytes, expired, index, result>>

\* The code between two looks at the flag of the C handler.
Bytecode(place) == pc = place /\ ~pending

\* if p.poll() is not None: return index
PollEnded ==
  /\ Bytecode("poll")
  /\ index \in ended
  /\ result' = index
  /\ pc' = "returned"
  /\ UNCHANGED <<timeout, ended, others, pending, bytes, expired, index>>

PollNext ==
  /\ Bytecode("poll")
  /\ index \notin ended
  /\ IF index < NumProcesses
       THEN index' = index + 1 /\ UNCHANGED pc
       ELSE index' = 1 /\ pc' = "enter"
  /\ UNCHANGED <<timeout, ended, others, pending, bytes, expired, result>>

Block ==
  /\ pc = "enter"
  /\ pc' = "blocked"
  /\ UNCHANGED <<timeout, ended, others, pending, bytes, expired, index, result>>

\* select returns: the pipe can be read (os.read(fd_r, 1)), or the timeout is
\* over.
SelectReturns ==
  /\ pc = "blocked"
  /\ bytes > 0 \/ expired
  /\ bytes' = IF bytes > 0 THEN bytes - 1 ELSE bytes
  /\ pc' = "read"
  /\ UNCHANGED <<timeout, ended, others, pending, expired, index, result>>

\* Variant: an empty pipe does not matter.
LoopGivesUp ==
  /\ Bytecode("read")
  /\ pc' = "returned"
  /\ UNCHANGED <<timeout, ended, others, pending, bytes, expired, index, result>>

\* Variant: the time left is not looked at.
LoopForever ==
  /\ Bytecode("read")
  /\ pc' = "poll"
  /\ UNCHANGED <<timeout, ended, others, pending, bytes, expired, index, result>>

\* while remain >= 0.0 or timeout == 0
Loop ==
  /\ Bytecode("read")
  /\ pc' = IF expired THEN "returned" ELSE "poll"
  /\ UNCHANGED <<timeout, ended, others, pending, bytes, expired, index, result>>

WaitReturned == pc = "returned" /\ UNCHANGED waitVars

\* A signal came when select had been called and the kernel had not begun: the
\* Python handler waits for select, which waits for the handler, for ever if no
\* other signal comes.
SignalMissed == pc = "blocked" /\ pending /\ bytes = 0 /\ ~timeout

WaitHangs == SignalMissed /\ UNCHANGED waitVars

WaitStep ==
  Install \/ RunHandler \/ PollEnded \/ PollNext \/ Block \/ SelectReturns \/ Loop

WaitNext ==
  \/ WaitStep
  \/ \E i \in Processes : ProcessEnds(i)
  \/ OtherEnds
  \/ TimePasses
  \/ WaitReturned
  \/ WaitHangs

----------------------------------------------------------------------------
(* Properties.                                                             *)

\* "None in case of timeout or the index ... of the first process that end":
\* None means that the timeout is over, and an index is that of a process that
\* has ended.  The signals of other children change nothing to this.
AnswerRight ==
  pc = "returned" =>
    IF result = NoIndex THEN timeout /\ expired ELSE result \in ended

\* Once a process of the list has ended, wait_for_processes returns, unless it
\* has missed a signal and neither another one nor a timeout wakes select up.
EndIsNoticedOrMissed ==
  ended # {} /\ pc # "idle" ~> pc = "returned" \/ SignalMissed

\* False: "If 0 block until a process ends" (process.py:716), and no longer.
EndIsNoticed == ended # {} /\ pc # "idle" ~> pc = "returned"

=============================================================================
