-------------------------------- MODULE Plans --------------------------------
(***************************************************************************)
(* e3.electrolyt.plan: a plan is a Python module whose entry points call   *)
(* actions inside nested "with defaults(...)" blocks; a PlanContext        *)
(* executes an entry point and returns the list of its actions, each with  *)
(* the environment that was in force, a BaseEnv (see Environment).         *)
(***************************************************************************)
EXTENDS Environment, FiniteSets

CONSTANTS Servers,              \* the platforms a context is created for
          BlockArgs, ActionArgs,\* what a plan gives to defaults and to an action
          EntryPoints,
          IgnoreDisabled,       \* ignore_disabled
          MaxBlocks, MaxCalls, MaxExecutions

\* A platform there is, and what may be given for one.
NotPlatforms == Roles \cup {None.name}
Platform == [name : Platforms, machine : STRING]
Value == {v \in [name : STRING, machine : STRING] : v.name = None.name => v = None}

ASSUME PlanAssumption ==
    /\ LocalPlatform \in Platform /\ Servers \subseteq Platform
    /\ Platforms \subseteq STRING \ NotPlatforms
    /\ BlockArgs \subseteq [build : Value, host : Value, target : Value,
                           module : STRING, enabled : BOOLEAN]
    /\ ActionArgs \subseteq [build : Value, host : Value, target : Value,
                            module : STRING, board : STRING]
    /\ IgnoreDisabled \in BOOLEAN

VARIABLES stack,        \* PlanContext.stack
          mod_env,      \* what the name env stands for in the plan
          entry_points, \* Plan.entry_points: the names that are registered
          known,        \* how many there were when execute was called
          action_list,
          plan_pc,      \* "idle", "running", "raising", "raised"
          server,       \* the first environment
          blocks,       \* the arguments of the blocks the plan is in
          asked,        \* the calls of actions: the blocks and the arguments
          executions

planVars == <<stack, mod_env, entry_points, known, action_list, plan_pc,
              server, blocks, asked, executions>>

-----------------------------------------------------------------------------
NewEnv(p) == [build |-> p, host |-> p, target |-> p, module |-> "", enabled |-> TRUE]

PlanInit ==
    /\ server \in Servers
    /\ stack = <<NewEnv(server)>> /\ mod_env = NewEnv(server)
    /\ entry_points = EntryPoints /\ known = Cardinality(EntryPoints)
    /\ action_list = <<>> /\ plan_pc = "idle"
    /\ blocks = <<>> /\ asked = <<>> /\ executions = 0

ExecutePlan ==
    /\ plan_pc \in {"idle", "raised"} /\ executions < MaxExecutions
    /\ executions' = executions + 1
    /\ mod_env' = Top(stack) /\ action_list' = <<>>
    /\ known' = Cardinality(entry_points)
    /\ plan_pc' = "running" /\ asked' = <<>>
    /\ UNCHANGED <<stack, entry_points, server, blocks>>

\* PlanContext(stack, ...): the environment of a block.
Defaults(e, a) ==
    LET new == SetEnv(e, a)
    IN  [new EXCEPT !.enabled = @ /\ a.enabled,
                    !.module = IF a.module = "" THEN @ ELSE a.module]

AllKnown(a) == \A r \in Roles : Known(a[r])

\* An unknown platform raises before anything is pushed.
EnterBlock(a) ==
    /\ plan_pc = "running" /\ Len(blocks) < MaxBlocks
    /\ IF AllKnown(a)
       THEN /\ stack' = Append(stack, Defaults(Top(stack), a))
            /\ mod_env' = Top(stack') /\ blocks' = Append(blocks, a)
            /\ UNCHANGED plan_pc
       ELSE /\ plan_pc' = "raising" /\ UNCHANGED <<stack, mod_env, blocks>>
    /\ UNCHANGED <<entry_points, known, action_list, server, asked, executions>>

\* __exit__, also when an exception goes through the block.
Popped(s) == Pop(s)

LeaveBlock ==
    /\ plan_pc \in {"running", "raising"} /\ blocks # <<>>
    /\ stack' = Popped(stack) /\ mod_env' = Top(stack')
    /\ blocks' = Pop(blocks)
    /\ UNCHANGED <<entry_points, known, action_list, plan_pc, server, asked, executions>>

\* The platforms an action is recorded for: those of its arguments, but a
\* cross or a Canadian environment stays one.  A target that is the name of the
\* host, with nothing said of its version or machine, is the host.
Propagated(e, a) ==
    LET host   == IF a.host = None /\ IsCanadian(e) THEN [None EXCEPT !.name = "host"]
                  ELSE a.host
        target == IF a.target = [None EXCEPT !.name = e.host.name]
                  THEN [None EXCEPT !.name = "host"]
                  ELSE IF a.target = None /\ IsCross(e)
                  THEN [None EXCEPT !.name = "target"]
                  ELSE a.target
    IN  [a EXCEPT !.host = host, !.target = target]

Recorded(e, a) ==
    LET new == SetEnv(e, Propagated(e, a))
    IN  [new EXCEPT !.module = IF a.module = "" THEN @ ELSE a.module,
                    !.target.machine = IF a.board = "" THEN @ ELSE a.board]

AddAction(a) ==
    /\ plan_pc = "running" /\ Len(asked) < MaxCalls
    /\ asked' = Append(asked, [blocks |-> blocks, args |-> a])
    /\ LET e == Top(stack)
       IN  IF IgnoreDisabled /\ ~e.enabled
           THEN UNCHANGED <<action_list, plan_pc>>
           ELSE IF AllKnown(a)
           THEN action_list' = Append(action_list, Recorded(e, a)) /\ UNCHANGED plan_pc
           ELSE plan_pc' = "raising" /\ UNCHANGED action_list
    /\ UNCHANGED <<stack, mod_env, entry_points, known, server, blocks, executions>>

\* The code of the plan: it may raise, and catch what was raised in a block.
PlanRaises ==
    /\ plan_pc = "running" /\ plan_pc' = "raising"
    /\ UNCHANGED <<stack, mod_env, entry_points, known, action_list, server, blocks,
                   asked, executions>>
PlanCatches ==
    /\ plan_pc = "raising" /\ plan_pc' = "running"
    /\ UNCHANGED <<stack, mod_env, entry_points, known, action_list, server, blocks,
                   asked, executions>>

\* An entry point inside an entry point; a name registered twice is refused.
Decorate(n) ==
    /\ plan_pc = "running" /\ blocks = <<>>
    /\ IF n \in entry_points
       THEN plan_pc' = "raising" /\ UNCHANGED entry_points
       ELSE entry_points' = entry_points \cup {n} /\ UNCHANGED plan_pc
    /\ UNCHANGED <<stack, mod_env, known, action_list, server, blocks, asked, executions>>

\* The entry point returns, or an exception leaves it.
EndOfPlan ==
    /\ plan_pc \in {"running", "raising"} /\ blocks = <<>>
    /\ plan_pc' = IF plan_pc = "running" /\ Cardinality(entry_points) = known
                  THEN "idle" ELSE "raised"
    /\ UNCHANGED <<stack, mod_env, entry_points, known, action_list, server, blocks,
                   asked, executions>>

PlanNext ==
    \/ ExecutePlan \/ LeaveBlock \/ PlanRaises \/ PlanCatches \/ EndOfPlan
    \/ \E a \in BlockArgs : EnterBlock(a)
    \/ \E a \in ActionArgs : AddAction(a)
    \/ \E n \in EntryPoints \cup {"nested"} : Decorate(n)

PlansSpec == PlanInit /\ [][PlanNext]_planVars

-----------------------------------------------------------------------------
(* The name of the platform of a role after the first n blocks of b: that  *)
(* of the last value that decides it, found from the inside out.           *)

Deciders == [build |-> <<"build">>, host |-> <<"host", "build">>,
             target |-> <<"target", "host", "build">>]

NameIn(b) ==
    LET Named(names, a, r) ==
            LET given == {i \in DOMAIN Deciders[r] : a[Deciders[r][i]] # None}
                first == CHOOSE i \in given : \A j \in given : i <= j
                v     == a[Deciders[r][first]].name
            IN  IF given = {} THEN names[r] ELSE IF v \in Roles THEN names[v] ELSE v
        Names[n \in 0..Len(b)] ==
            IF n = 0 THEN [r \in Roles |-> server.name]
            ELSE [r \in Roles |-> Named(Names[n - 1], b[n], r)]
    IN  Names[Len(b)]

RoleNames(e) == [r \in Roles |-> e[r].name]
Enabled(b) == \A i \in DOMAIN b : b[i].enabled

\* The environment an action is recorded with, by what is written around it:
\* a role it does not give keeps a cross target and a Canadian host, and
\* follows the build or the host it gives otherwise.
AsWritten(env, e, a) ==
    LET Gives(r) == a[r] # None
        Said(r)  == IF a[r].name \in Roles THEN e[a[r].name].name ELSE a[r].name
    IN  /\ env.module = IF a.module = "" THEN e.module ELSE a.module
        /\ \A r \in Roles : Gives(r) => env[r].name = Said(r)
        /\ ~Gives("target") /\ IsCross(e) => env.target.name = e.target.name
        /\ ~Gives("host") /\ IsCanadian(e) => env.host = e.host
        /\ ~Gives("target") /\ ~IsCross(e) /\ a.board = "" => ~IsCross(env)
        /\ ~Gives("host") /\ e.build = e.host => env.host = env.build

\* The calls that are recorded, and where.
RecordedCalls ==
    {i \in DOMAIN asked : (Enabled(asked[i].blocks) \/ ~IgnoreDisabled) /\ AllKnown(asked[i].args)}
PlaceOf(i) == Cardinality({j \in RecordedCalls : j <= i})

\* A target that its name or its machine tells from any host.
TargetIsTold(e) ==
    e.target.name # e.host.name \/ e.target.machine \notin {"", LocalPlatform.machine}

\* What a plan sees and returns is decided by the blocks around each line,
\* however the blocks before it were left: env is the innermost environment,
\* nothing is left of a block once it is over, an action is recorded unless
\* one of its blocks is disabled, in the order of the lines and with the
\* platforms of its blocks; and its triplet, given to another process on this
\* machine, stands for the same platforms (PlanContext.__exit__, _add_action,
\* BaseEnv.set_env, str_triplet).
PlanRight ==
    /\ mod_env = Top(stack) /\ Len(stack) = Len(blocks) + 1
    /\ \A n \in 0..Len(blocks) : RoleNames(stack[n + 1]) = NameIn(SubSeq(blocks, 1, n))
    /\ stack[1] = NewEnv(server)
    /\ Len(action_list) = Cardinality(RecordedCalls)
    /\ \A i \in RecordedCalls :
          LET env == action_list[PlaceOf(i)]
          IN  /\ env.enabled = Enabled(asked[i].blocks)
              /\ asked[i].blocks = blocks => AsWritten(env, Top(stack), asked[i].args)
    /\ \A i \in DOMAIN action_list :
          LET e == action_list[i]
              back == FromTriplet(NewEnv(LocalPlatform), e)
          IN  /\ RoleNames(back) = RoleNames(e)
              /\ IsCross(back) => IsCross(e)
              /\ IsCross(e) /\ TargetIsTold(e) => IsCross(back)

\* The environments of a process and those of its plans: what is saved is what
\* is restored (see Environment), and what a plan sees is what is written
\* around each line.
EnvironmentsRight == RestoredRight /\ PlanRight

\* What the comment of _add_action says: no cross environment from a platform
\* to itself ("the goal is avoid cross from a -> a which are not current
\* supported").
NoSelfCross ==
    \A i \in DOMAIN action_list :
       LET e == action_list[i]
       IN  IsCross(e) /\ e.target.machine = "" => e.target.name # e.host.name
==============================================================================
