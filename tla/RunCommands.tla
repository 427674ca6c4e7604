----------------------------- MODULE RunCommands -----------------------------
(***************************************************************************)
(* e3.os.process.Run: a command, or commands piped one into the next, are  *)
(* started by one object that waits for the last of them.  The commands    *)
(* run concurrently; what they say goes through pipes of a bounded size,   *)
(* that block who writes to a full one and end who writes to one that      *)
(* nobody can read any more.                                               *)
(*                                                                         *)
(* Pipe i is the standard output of command i, pipe 0 the standard input   *)
(* of the first.  What goes through a pipe is counted.                     *)
(***************************************************************************)
EXTENDS Integers, Sequences

CONSTANTS Pipelines,    \* sequences of programs: [kind, out, err]
          Inputs,       \* of "none" and "text"
          Outputs,      \* of "pipe" and "file"
          Errors,       \* of "stdout", "pipe" and "file"
          InputSize,    \* how much is written to "|text"
          Capacity,     \* of a pipe
          MaxCommands   \* in a pipeline

ASSUME RunAssumption ==
    /\ Pipelines \subseteq
         Seq([kind : {"source", "filter", "head"}, out : Nat, err : Nat]) \ {<<>>}
    /\ MaxCommands \in Nat /\ \A p \in Pipelines : Len(p) <= MaxCommands
    /\ Inputs \subseteq {"none", "text"} /\ Outputs \subseteq {"pipe", "file"}
    /\ Errors \subseteq {"stdout", "pipe", "file"}
    /\ InputSize \in Nat

\* A program: a "source" says out and reads nothing, a "filter" says what it
\* reads, a "head" ends when it has read something.  Each says err to its
\* standard error first.
Program(kind, out, err) == [kind |-> kind, out |-> out, err |-> err]

VARIABLES cmds,         \* the programs
          missing,      \* of these, the commands that do not exist
          io,           \* input, output, error, bg: the arguments
          run_pc,       \* "idle", "start", "bg", "wait", "communicate", "returned",
                        \*   "raised"
          commands,     \* of each: state, status, to_say, to_complain
          pipes, err_pipes,
          refs,         \* whether the Popen objects of all the commands are held
          to_feed,      \* what communicate has not written to pipe 0
          raw_out, raw_err, run_status,
          files_open

runVars == <<cmds, missing, io, run_pc, commands, pipes, err_pipes, refs, to_feed,
             raw_out, raw_err, run_status, files_open>>
runArgs == <<cmds, missing, io>>

Cmds == DOMAIN cmds
LastCommand == CHOOSE i \in Cmds : \A j \in Cmds : j <= i
NotEnded == 999
Sigpipe == -13
Sigterm == -15
Sigkill == -9

Unstarted(p) == [state |-> "none", status |-> NotEnded, to_complain |-> p.err,
                 to_say |-> IF p.kind = "source" THEN p.out ELSE 0]

RunInit ==
    /\ cmds \in Pipelines
    /\ missing \in {{}} \cup {{i} : i \in DOMAIN cmds}
    /\ io \in [input : Inputs, output : Outputs, error : Errors, bg : BOOLEAN]
    /\ run_pc \in {"idle", "start"}
    /\ commands = [i \in DOMAIN cmds |-> Unstarted(cmds[i])]
    /\ pipes = [i \in {0} \cup DOMAIN cmds |-> 0]
    /\ err_pipes = [i \in DOMAIN cmds |-> 0]
    /\ refs = TRUE
    /\ to_feed = IF io.input = "text" THEN InputSize ELSE 0
    /\ raw_out = 0 /\ raw_err = 0 /\ run_status = NotEnded
    /\ files_open = TRUE

IsAlive(i) == i \in Cmds /\ commands[i].state = "alive"
Ended(i) == commands[i].state = "ended"
Over == run_pc \in {"returned", "raised"}
NextToStart == CHOOSE i \in Cmds : commands[i].state = "none"
                                   /\ \A j \in Cmds : j < i => commands[j].state # "none"
AllStarted == \A i \in Cmds : commands[i].state # "none"

\* Who holds the ends of the pipes.  Of the Popen objects only the last one is
\* kept once __init__ has returned; a pipe of any of them is open until then.
HoldsRead(i) == IF i = LastCommand THEN ~Over ELSE refs
HoldsErr(i)  == IF i = LastCommand THEN ~Over ELSE refs
HoldsWrite0  == IF LastCommand = 1 THEN ~Over /\ to_feed > 0 ELSE refs

CanBeRead(i) == HoldsRead(i) \/ IsAlive(i + 1)
Eof(i) ==
    /\ pipes[i] = 0
    /\ IF i = 0 THEN io.input = "none" \/ ~HoldsWrite0 ELSE ~IsAlive(i)

-----------------------------------------------------------------------------
(* The object.                                                             *)

Start ==
    /\ run_pc = "start" /\ ~AllStarted
    /\ NextToStart \notin missing
    /\ commands' = [commands EXCEPT ![NextToStart].state = "alive"]
    /\ UNCHANGED <<runArgs, run_pc, pipes, err_pipes, refs, to_feed, raw_out, raw_err,
                   run_status, files_open>>

\* Variant: the commands that were started are left alone.
NotTerminated(c) == c

\* Popen raises: the commands that run are terminated, the files closed.
Terminated(c) ==
    IF c.state = "alive" THEN [c EXCEPT !.state = "ended", !.status = Sigterm] ELSE c

StartFails ==
    /\ run_pc = "start" /\ ~AllStarted
    /\ NextToStart \in missing
    /\ commands' = [i \in Cmds |-> Terminated(commands[i])]
    /\ run_pc' = "raised" /\ refs' = FALSE /\ files_open' = FALSE
    /\ UNCHANGED <<runArgs, pipes, err_pipes, to_feed, raw_out, raw_err, run_status>>

\* Variant: nothing is read while the last command runs.
WaitOnly == "wait"

HasPipe == io.input = "text" \/ "pipe" \in {io.output, io.error}
Waiting == IF HasPipe THEN "communicate" ELSE "wait"

\* In the background __init__ returns now.
Started ==
    /\ run_pc = "start" /\ AllStarted
    /\ run_pc' = IF io.bg THEN "bg" ELSE Waiting
    /\ refs' = ~io.bg
    /\ UNCHANGED <<runArgs, commands, pipes, err_pipes, to_feed, raw_out, raw_err,
                   run_status, files_open>>

\* wait, or poll when the last command has ended.
CallWait ==
    /\ run_pc = "bg" /\ run_pc' = Waiting
    /\ UNCHANGED <<runArgs, commands, pipes, err_pipes, refs, to_feed, raw_out, raw_err,
                   run_status, files_open>>

\* kill(recursive=False)
KillLast ==
    /\ run_pc = "bg" /\ IsAlive(LastCommand)
    /\ commands' = [commands EXCEPT ![LastCommand].state = "ended", ![LastCommand].status = Sigkill]
    /\ UNCHANGED <<runArgs, run_pc, pipes, err_pipes, refs, to_feed, raw_out, raw_err,
                   run_status, files_open>>

\* communicate writes to, and reads from, the last command only.
Feed ==
    /\ run_pc = "communicate" /\ LastCommand = 1 /\ to_feed > 0
    /\ IF IsAlive(1) THEN /\ pipes[0] < Capacity
                        /\ pipes' = [pipes EXCEPT ![0] = @ + 1] /\ to_feed' = to_feed - 1
       ELSE to_feed' = 0 /\ UNCHANGED pipes
    /\ UNCHANGED <<runArgs, run_pc, commands, err_pipes, refs, raw_out, raw_err,
                   run_status, files_open>>
ReadOut ==
    /\ run_pc = "communicate" /\ io.output = "pipe" /\ pipes[LastCommand] > 0
    /\ pipes' = [pipes EXCEPT ![LastCommand] = @ - 1] /\ raw_out' = raw_out + 1
    /\ UNCHANGED <<runArgs, run_pc, commands, err_pipes, refs, to_feed, raw_err,
                   run_status, files_open>>
ReadErr ==
    /\ run_pc = "communicate" /\ err_pipes[LastCommand] > 0
    /\ err_pipes' = [err_pipes EXCEPT ![LastCommand] = @ - 1] /\ raw_err' = raw_err + 1
    /\ UNCHANGED <<runArgs, run_pc, commands, pipes, refs, to_feed, raw_out,
                   run_status, files_open>>

\* Variant: what is left in the pipes is not read.
EndedOnly == Ended(LastCommand)

\* Nothing more can come out of the last command.
Drained ==
    /\ Ended(LastCommand)
    /\ run_pc = "communicate" =>
          /\ io.output = "pipe" => pipes[LastCommand] = 0
          /\ err_pipes[LastCommand] = 0
          /\ LastCommand = 1 => to_feed = 0

RunWaitReturns ==
    /\ run_pc \in {"wait", "communicate"} /\ Drained
    /\ run_status' = commands[LastCommand].status
    /\ run_pc' = "returned" /\ files_open' = FALSE /\ refs' = FALSE
    /\ UNCHANGED <<runArgs, commands, pipes, err_pipes, to_feed, raw_out, raw_err>>

-----------------------------------------------------------------------------
(* The commands.                                                           *)

\* A command that writes where nobody reads is ended by SIGPIPE.
EndsWithStatus(i, signal) == commands' = [commands EXCEPT ![i].state = "ended", ![i].status = signal]

Says(i, field) == commands' = [commands EXCEPT ![i][field] = @ - 1]

WriteTo(i, field, piped) ==
    IF ~piped THEN Says(i, field) /\ UNCHANGED pipes
    ELSE IF ~CanBeRead(i) THEN EndsWithStatus(i, Sigpipe) /\ UNCHANGED pipes
    ELSE /\ pipes[i] < Capacity
         /\ pipes' = [pipes EXCEPT ![i] = @ + 1] /\ Says(i, field)

\* The standard output of the last command may be a file.
IsPiped(i) == i # LastCommand \/ io.output = "pipe"

Say(i) ==
    /\ IsAlive(i) /\ commands[i].to_complain = 0 /\ commands[i].to_say > 0
    /\ WriteTo(i, "to_say", IsPiped(i))
    /\ UNCHANGED <<runArgs, run_pc, err_pipes, refs, to_feed, raw_out, raw_err, run_status,
                   files_open>>

Complain(i) ==
    /\ IsAlive(i) /\ commands[i].to_complain > 0
    /\ CASE io.error = "file"   -> Says(i, "to_complain") /\ UNCHANGED <<pipes, err_pipes>>
         [] io.error = "stdout" -> WriteTo(i, "to_complain", IsPiped(i)) /\ UNCHANGED err_pipes
         [] io.error = "pipe"   ->
               IF ~HoldsErr(i) THEN EndsWithStatus(i, Sigpipe) /\ UNCHANGED <<pipes, err_pipes>>
               ELSE /\ err_pipes[i] < Capacity /\ Says(i, "to_complain")
                    /\ err_pipes' = [err_pipes EXCEPT ![i] = @ + 1] /\ UNCHANGED pipes
    /\ UNCHANGED <<runArgs, run_pc, refs, to_feed, raw_out, raw_err, run_status, files_open>>

Listen(i) ==
    /\ IsAlive(i) /\ commands[i].to_complain = 0 /\ commands[i].to_say = 0
    /\ pipes[i - 1] > 0
    /\ pipes' = [pipes EXCEPT ![i - 1] = @ - 1]
    /\ CASE cmds[i].kind = "filter" -> commands' = [commands EXCEPT ![i].to_say = 1]
         [] cmds[i].kind = "head"   -> EndsWithStatus(i, 0)
         [] OTHER                   -> FALSE
    /\ UNCHANGED <<runArgs, run_pc, err_pipes, refs, to_feed, raw_out, raw_err, run_status,
                   files_open>>

Exit(i) ==
    /\ IsAlive(i) /\ commands[i].to_complain = 0 /\ commands[i].to_say = 0
    /\ cmds[i].kind # "source" => Eof(i - 1)
    /\ EndsWithStatus(i, 0)
    /\ UNCHANGED <<runArgs, run_pc, pipes, err_pipes, refs, to_feed, raw_out, raw_err,
                   run_status, files_open>>

Command(i) == Say(i) \/ Complain(i) \/ Listen(i) \/ Exit(i)
RunStep == Start \/ StartFails \/ Started \/ Feed \/ ReadOut \/ ReadErr \/ RunWaitReturns

RunNext == RunStep \/ CallWait \/ KillLast \/ (\E i \in Cmds : Command(i))

\* The system runs every command that can go on; __init__ and wait go on.
RunFairness == WF_runVars(RunStep) /\ \A i \in 1..MaxCommands : WF_runVars(i \in Cmds /\ Command(i))
RunSpec == RunInit /\ [][RunNext]_runVars /\ RunFairness

-----------------------------------------------------------------------------
(* Properties.                                                             *)

\* How much the last command says when no command is ended before its end.
Passed[i \in 0..MaxCommands] ==
    IF i = 0 THEN IF io.input = "text" /\ LastCommand = 1 THEN InputSize ELSE 0
    ELSE IF i \notin Cmds THEN 0
    ELSE LET complains == IF io.error = "stdout" THEN cmds[i].err ELSE 0
         IN  complains + (IF cmds[i].kind = "source" THEN cmds[i].out
                          ELSE IF cmds[i].kind = "head" THEN 0 ELSE Passed[i - 1])

\* The status is that of the last command; all that it has said to a pipe is in
\* the object, and is all that the commands before it had to say when none of
\* them was ended; no file stays open once the call is over, and no command is
\* left running when one of them does not exist (Run.wait, Run.__init__).
RunRight ==
    /\ run_pc = "returned" =>
          /\ run_status = commands[LastCommand].status /\ Ended(LastCommand)
          /\ HasPipe /\ io.output = "pipe" /\ commands[LastCommand].status = 0
             /\ (\A i \in Cmds : commands[i].status = 0) => raw_out = Passed[LastCommand]
          /\ io.error = "pipe" /\ commands[LastCommand].status = 0 => raw_err = cmds[LastCommand].err
    /\ run_pc = "raised" => \A i \in Cmds : ~IsAlive(i)
    /\ Over => ~files_open

\* Input given as text to piped commands, or a pipe for their errors.
Blocking == LastCommand # 1 /\ (io.input = "text" \/ io.error = "pipe")

\* A call ends and so do the commands it has started, also when one of them
\* ends before it has read what it is given; but for piped commands that are
\* given a text to read, or a pipe for their errors (Run.__init__, Run.wait).
RunEnds ==
    /\ ~Blocking /\ run_pc \notin {"idle", "bg"} ~> run_pc \in {"bg", "returned", "raised"}
    /\ ~Blocking /\ Over ~> \A i \in Cmds : ~IsAlive(i)

\* "If you prepend the input with '|', then the content of input string will be
\* used for process stdin": the commands read it, and end.
InputIsUsed == run_pc = "communicate" /\ io.input = "text" ~> Over
==============================================================================
