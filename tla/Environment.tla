----------------------------- MODULE Environment -----------------------------
(***************************************************************************)
(* e3.env: a BaseEnv is three platforms, for build, host and target; the   *)
(* only Env also saves and restores the whole environment of the process,  *)
(* its variables and its directory, on a stack in memory or in a file.     *)
(* Blocks that save, change and restore it nest: e3.mock.env.mock_env, and *)
(* around every test the fixture e3.pytest.env_protect.                    *)
(*                                                                         *)
(* A platform is a name and the machine it stands for.  A value given to   *)
(* build, host or target is None, the name of one of the three roles, or a *)
(* platform, whose machine is "" when the value does not name one.         *)
(***************************************************************************)
EXTENDS Naturals, Sequences

CONSTANTS Platforms,            \* the names in the knowledge base
          CanadianExceptions,   \* pairs of names
          LocalPlatform,        \* of the machine that runs the program
          HostPlatforms,        \* what the program gives to set_build, set_host
          EnvFiles,             \* names given to store and restore
          Directories,          \* those there are at first
          MaxEnvCalls              \* but restores

Roles == {"build", "host", "target"}
None == [name |-> "none", machine |-> ""]

\* Variant: the outermost is taken.
Bottom(s) == s[1]

\* The innermost.
Top(s) == s[Len(s)]
Pop(s) == SubSeq(s, 1, Len(s) - 1)

-----------------------------------------------------------------------------
(* BaseEnv.                                                                *)

IsCanadian(e) ==
    e.build # e.host /\ <<e.build.name, e.host.name>> \notin CanadianExceptions
IsCross(e) == e.target # e.host

Known(v) == v.name \in Roles \cup Platforms \cup {None.name}

\* A build platform that names no machine is on the machine of the former one.
PlatformOf(e, v, propagate) ==
    IF v.name \in Roles THEN e[v.name]
    ELSE IF propagate /\ v.machine = "" THEN [v EXCEPT !.machine = e.build.machine]
    ELSE v

\* Every value is read in the environment as it was; one that is given sets
\* the roles that follow too.
SetEnv(e, a) ==
    LET build  == IF a.build = None THEN e.build ELSE PlatformOf(e, a.build, TRUE)
        host   == IF a.host # None THEN PlatformOf(e, a.host, FALSE)
                  ELSE IF a.build # None THEN build ELSE e.host
        target == IF a.target # None THEN PlatformOf(e, a.target, FALSE)
                  ELSE IF {a.build, a.host} # {None} THEN host ELSE e.target
    IN  [e EXCEPT !.build = build, !.host = host, !.target = target]

\* What str_triplet says of an environment, given to an environment e of the
\* machine that runs the program: the machine is said of the target only.
FromTriplet(e, env) ==
    LET Said(p) == [p EXCEPT !.machine = ""]
    IN  SetEnv(e, [build  |-> IF env.build = LocalPlatform THEN None ELSE Said(env.build),
                   host   |-> IF env.host = env.build THEN None ELSE Said(env.host),
                   target |-> IF env.target = env.host THEN None ELSE env.target])

-----------------------------------------------------------------------------
(* Env: what is kept is the platforms, and the variables and the directory *)
(* of the last save.  A variable that is not set is empty.                 *)

Variables == {"PATH", "TZ", "E3_HOSTNAME", "GIT_CONFIG"}
NotSet == <<>>
Memory == "memory"
Nothing == {}
TestDir == "tempd"

VARIABLES instance,     \* Env._instance
          context,      \* Env._context
          env_files,    \* what was stored in each file, if something was
          environ,      \* os.environ
          cwd,
          directories,  \* those that exist
          env_blocks,   \* the blocks the program is in
          saves,        \* the surroundings at each save on the stack
          file_saves,   \* and in each file
          restored,     \* what the last step had to restore, if it had to
          calls

environmentVars == <<instance, context, env_files, environ, cwd, directories, env_blocks,
                     saves, file_saves, restored, calls>>

\* Everything a restore is about.
Surroundings ==
    [platforms |-> [r \in Roles |-> instance[r]], environ |-> environ, cwd |-> cwd]

EnvironmentInit ==
    /\ cwd \in Directories
    /\ instance = [build |-> LocalPlatform, host |-> LocalPlatform, target |-> LocalPlatform,
                   environ |-> [v \in Variables |-> NotSet], cwd |-> cwd]
    /\ context = <<>> /\ env_files = [f \in EnvFiles |-> Nothing]
    /\ environ = [v \in Variables |->
                    IF v \in {"PATH", "E3_HOSTNAME"} THEN <<"old">> ELSE NotSet]
    /\ directories = Directories
    /\ env_blocks = <<>> /\ saves = <<>> /\ file_saves = [f \in EnvFiles |-> Nothing]
    /\ restored = Nothing /\ calls = 0

NothingRestored == restored' = Nothing
Called == calls < MaxEnvCalls /\ calls' = calls + 1 /\ NothingRestored

\* store(): the directory is read, and may be gone, once the variables are
\* copied.
CanStore == cwd \in directories
Stored == [instance EXCEPT !.environ = environ, !.cwd = IF CanStore THEN cwd ELSE @]

Push ==
    /\ instance' = Stored
    /\ IF CanStore
       THEN context' = Append(context, Stored) /\ saves' = Append(saves, Surroundings)
       ELSE UNCHANGED <<context, saves>>

Store(f) ==
    /\ Called
    /\ IF f = Memory
       THEN Push /\ UNCHANGED <<env_files, file_saves>>
       ELSE /\ instance' = Stored /\ UNCHANGED <<context, saves>>
            /\ IF CanStore
               THEN /\ env_files' = [env_files EXCEPT ![f] = {Stored}]
                    /\ file_saves' = [file_saves EXCEPT ![f] = {Surroundings}]
               ELSE UNCHANGED <<env_files, file_saves>>
    /\ UNCHANGED <<environ, cwd, directories, env_blocks>>

\* First the variables that differ are deleted, then those that miss are set.
RestoredEnviron(now, saved) ==
    LET common == [v \in Variables |-> IF now[v] = saved[v] THEN now[v] ELSE NotSet]
    IN  [v \in Variables |-> IF common[v] # saved[v] THEN saved[v] ELSE common[v]]

\* The end of restore(): the directory comes last, and may be gone.
TakeUp(saved) ==
    /\ instance' = saved
    /\ environ' = RestoredEnviron(environ, saved.environ)
    /\ cwd' = IF saved.cwd \in directories THEN saved.cwd ELSE cwd

\* restore() with nothing on the stack does nothing, or raises when store()
\* was never called.  expected is what should be restored, blocks those that
\* are not left: one whose save is taken has none any more (depth 0).
PopTo(expected, blocks) ==
    IF context = <<>>
    THEN /\ NothingRestored /\ env_blocks' = blocks
         /\ UNCHANGED <<instance, context, environ, cwd, saves>>
    ELSE /\ TakeUp(Top(context)) /\ context' = Pop(context)
         /\ saves' = Pop(saves) /\ restored' = expected
         /\ env_blocks' =
               [i \in DOMAIN blocks |-> [blocks[i] EXCEPT !.depth = IF @ < Len(saves) THEN @ ELSE 0]]

Restore(f) ==
    /\ IF f = Memory
       THEN PopTo(IF saves = <<>> THEN Nothing ELSE {Top(saves)}, env_blocks)
       ELSE /\ \E saved \in env_files[f] : TakeUp(saved)
            /\ restored' = file_saves[f] /\ UNCHANGED <<context, saves, env_blocks>>
    /\ UNCHANGED <<env_files, directories, file_saves, calls>>

-----------------------------------------------------------------------------
(* What a program changes.                                                 *)

SetBuild(e, p) == [e EXCEPT !.build = p, !.host = p, !.target = p]
SetHost(e, v) ==
    LET host == IF v = None THEN e.build
                ELSE IF v.name \in {"target", "build"} THEN e[v.name] ELSE v
    IN  [e EXCEPT !.host = host, !.target = host]
SetTarget(e, v) ==
    [e EXCEPT !.target = IF v = None THEN e.host
                         ELSE IF v.name \in {"host", "build"} THEN e[v.name] ELSE v]

EnvUnchanged == UNCHANGED <<context, env_files, env_blocks, saves, file_saves>>

SetPlatform(p) ==
    /\ Called /\ EnvUnchanged /\ UNCHANGED <<environ, cwd, directories>>
    /\ instance' \in {SetBuild(instance, p), SetHost(instance, p), SetTarget(instance, p),
                      SetHost(instance, [None EXCEPT !.name = "target"]),
                      SetTarget(instance, [None EXCEPT !.name = "build"])}

\* add_search_path, or an assignment to os.environ.
AddSearchPath(v, append) ==
    /\ Called /\ EnvUnchanged /\ UNCHANGED <<instance, cwd, directories>>
    /\ environ' = [environ EXCEPT ![v] = IF append THEN Append(@, "new") ELSE <<"new">> \o @]
DeleteVariable(v) ==
    /\ Called /\ EnvUnchanged /\ UNCHANGED <<instance, cwd, directories>>
    /\ environ' = [environ EXCEPT ![v] = NotSet]

ChangeDirectory(d) ==
    /\ Called /\ EnvUnchanged /\ UNCHANGED <<instance, environ, directories>>
    /\ cwd' = d
RemoveDirectory(d) ==
    /\ Called /\ EnvUnchanged /\ UNCHANGED <<instance, environ, cwd>>
    /\ directories' = directories \ {d}

-----------------------------------------------------------------------------
(* Blocks.  A block remembers the surroundings it was entered in and how   *)
(* many saves there were then.                                             *)

NewBlock(k) == [kind |-> k, found |-> Surroundings, depth |-> Len(saves) + 1]

\* A failed store raises before the block is entered.
EnterMock(p) ==
    /\ Called /\ CanStore
    /\ context' = Append(context, Stored) /\ saves' = Append(saves, Surroundings)
    /\ instance' = SetBuild(Stored, p)
    /\ env_blocks' = Append(env_blocks, NewBlock("mock"))
    /\ UNCHANGED <<env_files, environ, cwd, directories, file_saves>>

\* The fixture: the test is in a directory of its own, in UTC, and git has
\* one more item of configuration.
EnterProtect ==
    /\ Called /\ env_blocks = <<>> /\ CanStore /\ TestDir \notin directories
    /\ Push /\ directories' = directories \cup {TestDir} /\ cwd' = TestDir
    /\ environ' = [environ EXCEPT !["TZ"] = <<"UTC">>, !["E3_HOSTNAME"] = NotSet,
                                  !["GIT_CONFIG"] = Append(@, "defaultbranch")]
    /\ env_blocks' = Append(env_blocks, NewBlock("protect"))
    /\ UNCHANGED <<env_files, file_saves>>

\* However the block ends.  A block restores what it found when the last
\* save is still its own.
LeaveBlockOf(k) ==
    /\ env_blocks # <<>> /\ Top(env_blocks).kind = k
    /\ PopTo(IF Len(saves) = Top(env_blocks).depth THEN {Top(env_blocks).found} ELSE Nothing,
             Pop(env_blocks))
    /\ UNCHANGED <<env_files, file_saves, calls>>

LeaveMock == LeaveBlockOf("mock") /\ UNCHANGED directories

\* The directory of the test is removed, unless restore raised.
LeaveProtect ==
    /\ LeaveBlockOf("protect")
    /\ directories' = IF context # <<>> /\ Top(context).cwd \notin directories
                      THEN directories ELSE directories \ {TestDir}

EnvironmentNext ==
    \/ \E f \in EnvFiles \cup {Memory} : Store(f) \/ Restore(f)
    \/ \E p \in HostPlatforms : SetPlatform(p) \/ EnterMock(p)
    \/ \E v \in {"PATH", "TZ"} :
          DeleteVariable(v) \/ \E append \in BOOLEAN : AddSearchPath(v, append)
    \/ \E d \in directories : ChangeDirectory(d) \/ RemoveDirectory(d)
    \/ LeaveMock \/ EnterProtect \/ LeaveProtect

EnvironmentSpec == EnvironmentInit /\ [][EnvironmentNext]_environmentVars

-----------------------------------------------------------------------------
\* A restore gives back what there was at the save it belongs to, and a block
\* whose saves and restores balance what it found, through whatever was saved,
\* restored and changed in between; all but a directory that is gone, and
\* even then the platforms and the variables (Env.store, Env.restore,
\* mock_env, env_protect).
RestoredRight ==
    \A found \in restored :
       /\ Surroundings.platforms = found.platforms
       /\ environ = found.environ
       /\ found.cwd \in directories => cwd = found.cwd
==============================================================================
