---------------------------- MODULE AnodContext ----------------------------
(***************************************************************************)
(* e3.anod.context.AnodContext: a plan, line after line, becomes a DAG of  *)
(* actions (add_anod_action and add_spec), which schedule turns into the   *)
(* DAG to execute (AnodSchedule).                                          *)
(*                                                                         *)
(* add_spec calls itself for the dependencies of a specification.  It adds *)
(* what is not there yet and connects the rest, so that the graph should   *)
(* not depend on the order of the lines.                                   *)
(*                                                                         *)
(* The calls of add_spec are a stack of what is still to be done; what an  *)
(* exception leaves behind is not used any more.                           *)
(***************************************************************************)
EXTENDS AnodSchedule

CONSTANTS
  Def,              \* what each specification says: see Definition
  Checkouts,        \* the repositories a source is made of
  Unmanaged,        \* the sources of class UnmanagedSourceBuilder
  Lines,            \* the lines a plan may have
  MaxLines,         \* a bound on their number
  Orders,           \* the specifications whose Install may list its decision first
                    \*   among its predecessors, a frozenset of strings: one set
                    \*   for each seed of the hashes
  RejectDuplicates, \* reject_duplicates
  NoLine

\* package, component: has_package, component is not None.  deps and needs are
\* <primitive>_deps and <primitive>_source_list; kind is a DEPENDENCY_PRIMITIVE.
Definition ==
  [prims : SUBSET {"build", "install", "test"},
   package : BOOLEAN, component : BOOLEAN,
   provides : Seq(Source),
   deps : [{"build", "install", "test", "source"} ->
             Seq([name : Spec,
                  kind : {"build", "install", "download", "test", "source"}])],
   needs : [{"build", "install", "test", "source"} -> Seq(Source)]]

Line == [spec : Spec, prim : {"build", "install", "test", "source"}, upload : BOOLEAN]

ASSUME ContextAssumption ==
  /\ \A s \in Spec : /\ Def[s] \in Definition
                     /\ Def[s].package => Def[s].component
  /\ Checkouts \in [Source -> Seq(Repo)]
  /\ \A s \in Spec : \A t \in Spec \ {s} :
       ToSet(Def[s].provides) \cap ToSet(Def[t].provides) = {}
  /\ Unmanaged \subseteq Source /\ NoItem \notin Source
  /\ Lines \subseteq Line
  /\ MaxLines \in Nat
  /\ Orders \subseteq SUBSET Spec
  /\ RejectDuplicates \in BOOLEAN

VARIABLES
  sources,   \* self.sources: the specification that provides a source
  tags,      \* tree.tags: the lines that plan actions come from
  plan,      \* the lines added so far
  order,     \* a member of Orders
  todo,      \* what the calls in progress have still to do, the innermost first
  returned   \* the uid that the last add_spec has returned

contextVars == <<sources, tags, plan, order, todo, returned>>
vars == <<scheduleVars, contextVars>>

ContextInit ==
  /\ ScheduleInit
  /\ sources = <<>>
  /\ tags = <<>>
  /\ plan = {}
  /\ order \in Orders
  /\ todo = <<>>
  /\ returned = Root

----------------------------------------------------------------------------
(* What is to be done.                                                     *)

\* The arguments of add_spec: primitive prim of spec, for one source or NoItem;
\* line is NoLine unless plan_args is given.
Arguments(s, prim, l) ==
  [spec |-> s, prim |-> prim, source |-> NoItem, line |-> l, expand |-> TRUE,
   force |-> FALSE, upload |-> l.upload]

\* Those of a call that add_spec makes on its own account.
Inner(a, s, prim) ==
  [a EXCEPT !.spec = s, !.prim = prim, !.source = NoItem, !.line = NoLine,
            !.expand = TRUE, !.force = FALSE]

AddSpec(a) == [do |-> "add_spec", args |-> a]
SourceBuild(a, x) == [do |-> "source_build", args |-> a, source |-> x]
ConnectBelow(u) == [do |-> "connect", uid |-> u]
DecideInstall(a) == [do |-> "decide_install", args |-> a]
Dependency(a, e) == [do |-> "dependency", args |-> a, dep |-> e]
JoinDependency(a, e) == [do |-> "join", args |-> a, dep |-> e]
SourceNeed(a, x) == [do |-> "source_need", args |-> a, source |-> x]
DecideSource(x) == [do |-> "decide_source", source |-> x]
ReturnOf(u) == [do |-> "return", uid |-> u]
EndLine(l) == [do |-> "end_line", line |-> l]

Doing(do) == pc = "adding" /\ Head(todo).do = do
Now == Head(todo)
ThenDo(calls) == todo' = calls \o Tail(todo)

Raise == pc' = "failed" /\ UNCHANGED <<tree, decisions, resolver, localVars, contextVars>>

----------------------------------------------------------------------------
(* What an action does to the context.                                     *)

\* f with y for all of S.
Override(f, S, y) == [x \in DOMAIN f \cup S |-> IF x \in S THEN y ELSE f[x]]

HasPrimitive(s, prim) ==
  IF prim = "source" THEN Def[s].provides # <<>> ELSE prim \in Def[s].prims

ResultOf(a) ==
  CASE a.prim = "source" /\ a.source = NoItem -> CreateSources(a.spec)
    [] a.prim = "source" /\ a.source # NoItem -> CreateSource(a.spec, a.source)
    [] a.prim = "build" -> Build(a.spec)
    [] a.prim = "install" -> Install(a.spec)
    [] a.prim = "test" -> Test(a.spec)

\* An instance is kept in a cache: loading it again changes nothing.
Load(s) == sources' = Override(sources, ToSet(Def[s].provides), s)

LinkToPlan(U, l) == tags' = IF l = NoLine THEN tags ELSE Override(tags, U, l)
Conflict(u, l) ==
  RejectDuplicates /\ l # NoLine /\ u \in DOMAIN tags /\ tags[u] # l

Connect(E) == tree' = Extended(tree, {}, E)

\* root --> decision --> left
\*                   \-> right
AddDecision(g, dec) ==
  LET d == DecisionBelow(dec.initiator)
  IN /\ tree' = Extended(g, {d}, {<<dec.initiator, d>>, <<d, dec.left>>, <<d, dec.right>>})
     /\ decisions' = Override(decisions, {d}, dec)

\* The decision below u is predecessors(u)[0].
DecisionIsFirst(u) ==
  LET d == DecisionBelow(u)
  IN d \in tree[u] /\ (tree[u] = {d} \/ u.spec \in order)

----------------------------------------------------------------------------
(* add_spec.                                                               *)

\* The install of a spec that is built and not packaged is its build.  The
\* build of a packaged spec is its install, unless expand_build is FALSE.
BecomesBuild(a) ==
  a.prim = "install" /\ ~a.force /\ ~Def[a.spec].package /\ HasPrimitive(a.spec, "build")
BecomesInstall(a) == a.prim = "build" /\ a.expand /\ Def[a.spec].package

Rejected(a) ==
  \/ ~HasPrimitive(a.spec, a.prim) /\ ~BecomesBuild(a)
  \/ BecomesBuild(a) /\ a.line # NoLine
  \/ Conflict(ResultOf(a), a.line)

RejectSpec == Doing("add_spec") /\ Rejected(Now.args) /\ Raise

\* add_spec as far as all of its calls go.  `ups' are uploads that come with it.
EnterSpec(ups) ==
  /\ Doing("add_spec") /\ ~Rejected(Now.args)
  /\ Load(Now.args.spec)
  /\ LinkToPlan(ups \cup {ResultOf(Now.args)}, Now.args.line)
  /\ UNCHANGED <<pc, resolver, localVars, plan, order>>

HandOver ==
  /\ EnterSpec({})
  /\ BecomesBuild(Now.args) \/ BecomesInstall(Now.args)
  /\ ThenDo(<<AddSpec([Now.args EXCEPT !.prim = IF @ = "build" THEN "install" ELSE "build",
                                       !.expand = FALSE,
                                       !.line = NoLine])>>)
  /\ UNCHANGED <<tree, decisions, returned>>

\* The sources of a package, and one of them: the managed ones are created.
AddSources ==
  /\ EnterSpec({})
  /\ LET a == Now.args
         u == CreateSources(a.spec)
         provided == Def[a.spec].provides
     IN /\ ResultOf(a) = u
        /\ tree' = Extended(tree, {u}, {})
        /\ ThenDo([i \in DOMAIN provided |-> SourceBuild(a, provided[i])] \o <<ReturnOf(u)>>)
  /\ UNCHANGED <<decisions, returned>>

BuildSource ==
  /\ Doing("source_build")
  /\ ThenDo(IF Now.source \in Unmanaged THEN <<>>
            ELSE <<AddSpec([Now.args EXCEPT !.source = Now.source]),
                   ConnectBelow(CreateSources(Now.args.spec))>>)
  /\ UNCHANGED <<scheduleVars, sources, tags, plan, order, returned>>

HasAction(a) == ResultOf(a) \in DOMAIN tree

\* What was expanded before is not expanded again.  A download dependency
\* decides for it.
MeetAgain ==
  /\ EnterSpec({})
  /\ LET a == Now.args
         d == DecisionBelow(ResultOf(a))
     IN /\ HasAction(a) /\ ResultOf(a) # CreateSources(a.spec)
        /\ ~BecomesBuild(a) /\ ~BecomesInstall(a)
        /\ decisions' = IF a.force /\ DecisionIsFirst(ResultOf(a))
                        THEN [decisions EXCEPT ![d] = SetDecision(@, RIGHT)]
                        ELSE decisions
        /\ returned' = ResultOf(a)
  /\ ThenDo(<<>>)
  /\ UNCHANGED tree

\* The action of a is new: V and E come with it, then `calls', then what it
\* depends on.
Expand(a, V, E, calls) ==
  /\ EnterSpec({v \in V : IsUpload(v)})
  /\ ~HasAction(a) /\ ~BecomesBuild(a) /\ ~BecomesInstall(a)
  /\ tree' = Extended(tree, V \cup {ResultOf(a)}, E)
  /\ LET deps == Def[a.spec].deps[a.prim]
         needs == Def[a.spec].needs[a.prim]
     IN ThenDo(calls \o [i \in DOMAIN deps |-> Dependency(a, deps[i])]
                     \o [i \in DOMAIN needs |-> SourceNeed(a, needs[i])]
                     \o <<ReturnOf(ResultOf(a))>>)
  /\ UNCHANGED <<decisions, returned>>

AddBuildOrTest ==
  Doing("add_spec") /\ Now.args.prim \in {"build", "test"} /\ Expand(Now.args, {}, {}, <<>>)

\* install --> decision --> build
\*                      \-> download binary
AddInstall ==
  /\ Doing("add_spec") /\ Now.args.prim = "install"
  /\ LET a == Now.args
         get == DownloadBinary(a.spec)
     IN IF HasPrimitive(a.spec, "build")
        THEN Expand(a, {get}, {},
                    <<AddSpec([Inner(a, a.spec, "build") EXCEPT !.expand = FALSE]),
                      DecideInstall(a)>>)
        ELSE Expand(a, {get}, {<<Install(a.spec), get>>}, <<>>)

AddInstallDecision ==
  /\ Doing("decide_install")
  /\ LET a == Now.args
         dec == NewDecision(Install(a.spec), returned, DownloadBinary(a.spec))
     IN AddDecision(tree, IF a.force THEN SetDecision(dec, RIGHT) ELSE dec)
  /\ ThenDo(<<>>)
  /\ UNCHANGED <<pc, resolver, localVars, sources, tags, plan, order, returned>>

\* The checkouts of a source and, when asked for, its upload.
CheckoutsOf(x) == {Checkout(r) : r \in ToSet(Checkouts[x])}

\* Variant: the checkouts are connected, and not added.
AddSourceUnchecked ==
  /\ Doing("add_spec") /\ Now.args.source # NoItem
  /\ LET a == Now.args
         u == CreateSource(a.spec, a.source)
         up == IF a.upload THEN {UploadSource(a.spec, a.source)} ELSE {}
     IN Expand(a, up, ({u} \X CheckoutsOf(a.source)) \cup ({Root} \X up) \cup (up \X {u}), <<>>)

AddSource ==
  /\ Doing("add_spec") /\ Now.args.source # NoItem
  /\ LET a == Now.args
         u == CreateSource(a.spec, a.source)
         up == IF a.upload THEN {UploadSource(a.spec, a.source)} ELSE {}
     IN Expand(a, CheckoutsOf(a.source) \cup up,
               ({u} \X CheckoutsOf(a.source)) \cup ({Root} \X up) \cup (up \X {u}), <<>>)

----------------------------------------------------------------------------
(* add_spec: the dependencies, one after the other.                        *)

\* A source dependency makes the sources of a spec known.
LoadSourceDependency ==
  /\ Doing("dependency") /\ Now.dep.kind = "source"
  /\ Load(Now.dep.name)
  /\ ThenDo(<<>>)
  /\ UNCHANGED <<scheduleVars, tags, plan, order, returned>>

CallDependency ==
  /\ Doing("dependency") /\ Now.dep.kind # "source"
  /\ LET e == Now.dep
         download == e.kind = "download"
         call == Inner(Now.args, e.name, IF download THEN "install" ELSE e.kind)
     IN ThenDo(<<AddSpec([call EXCEPT !.force = download]), JoinDependency(Now.args, e)>>)
  /\ UNCHANGED <<scheduleVars, sources, tags, plan, order, returned>>

\* A dependency on a build tree that returns an Install expects its decision
\* to be BUILD.
FinishDependency ==
  /\ Doing("join")
  /\ LET u == ResultOf(Now.args)
         d == DecisionBelow(returned)
     IN /\ Connect({<<u, returned>>})
        /\ decisions' = IF /\ Now.dep.kind = "build" /\ returned.kind = "install"
                           /\ DecisionIsFirst(returned)
                        THEN [decisions EXCEPT ![d] = AddTrigger(@, u, LEFT)]
                        ELSE decisions
  /\ ThenDo(<<>>)
  /\ UNCHANGED <<pc, resolver, localVars, sources, tags, plan, order, returned>>

\* Variant: a source that another action needs is not connected again.
SourceEdgesOnce(a, x) ==
  LET install == InstallSource(a.spec, x)
      get == GetSource(x)
  IN {<<ResultOf(a), install>>} \cup
       (IF get \in DOMAIN tree THEN {} ELSE {<<install, get>>})

\* A source is installed once got, and got by a download or by its creation.
SourceEdges(a, x) ==
  {<<ResultOf(a), InstallSource(a.spec, x)>>, <<InstallSource(a.spec, x), GetSource(x)>>}

RejectSource ==
  Doing("source_need") /\ Now.source \notin DOMAIN sources /\ Raise

AddSourceInstall ==
  /\ Doing("source_need") /\ Now.source \in DOMAIN sources
  /\ LET x == Now.source
         install == InstallSource(Now.args.spec, x)
         get == GetSource(x)
         edges == SourceEdges(Now.args, x)
         call == [Inner(Now.args, sources[x], "source") EXCEPT !.source = x]
     IN \/ /\ get \in DOMAIN tree
           /\ tree' = Extended(tree, {install}, edges)
           /\ ThenDo(<<>>)
        \/ /\ get \notin DOMAIN tree /\ x \in Unmanaged
           /\ tree' = Extended(tree, {install, get, DownloadSource(x)},
                               edges \cup {<<get, DownloadSource(x)>>})
           /\ ThenDo(<<>>)
        \/ /\ get \notin DOMAIN tree /\ x \notin Unmanaged
           /\ tree' = Extended(tree, {install, get, DownloadSource(x)}, edges)
           /\ ThenDo(<<AddSpec(call), DecideSource(x)>>)
  /\ UNCHANGED <<decisions, pc, resolver, localVars, sources, tags, plan, order, returned>>

AddSourceDecision ==
  /\ Doing("decide_source")
  /\ LET x == Now.source
     IN AddDecision(Extended(tree, CheckoutsOf(x), {returned} \X CheckoutsOf(x)),
                    NewDecision(GetSource(x), returned, DownloadSource(x)))
  /\ ThenDo(<<>>)
  /\ UNCHANGED <<pc, resolver, localVars, sources, tags, plan, order, returned>>

ConnectSource ==
  /\ Doing("connect")
  /\ Connect({<<Now.uid, returned>>})
  /\ ThenDo(<<>>)
  /\ UNCHANGED <<decisions, pc, resolver, localVars, sources, tags, plan, order, returned>>

ReturnResult ==
  /\ Doing("return")
  /\ returned' = Now.uid
  /\ ThenDo(<<>>)
  /\ UNCHANGED <<scheduleVars, sources, tags, plan, order>>

----------------------------------------------------------------------------
(* add_anod_action: one line of the plan.                                  *)

\* A line is added to a plan that was perhaps scheduled before.
AddLine(l) ==
  /\ pc \in {"plan", "scheduled", "error"}
  /\ l \notin plan /\ Cardinality(plan) < MaxLines
  /\ pc' = "adding"
  /\ plan' = plan \cup {l}
  /\ todo' = <<AddSpec(Arguments(l.spec, l.prim, l)), EndLine(l)>>
  /\ resolver' = NoResolver /\ remaining' = {} /\ dag' = <<>>
  /\ uploads' = <<>> /\ initiators' = {}
  /\ UNCHANGED <<tree, decisions, sources, tags, order, returned>>

\* The uploads of a build, as edges: a binary that is checked, or the metadata
\* of a component that has no package.
UploadsOf(l) ==
  LET up == UploadComponent(l.spec)
      top == IF Def[l.spec].package
             THEN {<<Root, CheckVirus(l.spec)>>, <<CheckVirus(l.spec), up>>}
             ELSE {<<Root, up>>}
  IN IF l.prim = "build" /\ l.upload /\ Def[l.spec].component
     THEN top \cup {<<up, Build(l.spec)>>}
     ELSE {}

\* Uploads are tagged as their build is, and conflict only where it does.
FinishLine ==
  /\ Doing("end_line")
  /\ LET l == Now.line
         new == {e[1] : e \in UploadsOf(l)} \ {Root}
         d == DecisionBelow(returned)
     IN /\ tree' = Extended(tree, new, UploadsOf(l) \cup {<<Root, returned>>})
        /\ LinkToPlan(new, l)
        /\ decisions' = IF l.prim \in {"build", "install"} /\ d \in tree[returned]
                        THEN [decisions EXCEPT ![d] =
                                SetDecision(@, IF l.prim = "build" THEN LEFT ELSE RIGHT)]
                        ELSE decisions
  /\ todo' = <<>>
  /\ pc' = "plan"
  /\ returned' = Root
  /\ UNCHANGED <<resolver, localVars, sources, plan, order>>

\* An exception of add_anod_action ends the planning.
Done ==
  /\ \/ pc = "failed"
     \/ pc \in {"scheduled", "error"} /\ (plan = Lines \/ Cardinality(plan) = MaxLines)
  /\ UNCHANGED vars

AddSpecNext ==
  \/ RejectSpec
  \/ HandOver
  \/ AddSources
  \/ BuildSource
  \/ MeetAgain
  \/ AddBuildOrTest
  \/ AddInstall
  \/ AddInstallDecision
  \/ AddSource
  \/ LoadSourceDependency
  \/ CallDependency
  \/ FinishDependency
  \/ RejectSource
  \/ AddSourceInstall
  \/ AddSourceDecision
  \/ ConnectSource
  \/ ReturnResult

Next ==
  \/ \E l \in Lines : AddLine(l)
  \/ AddSpecNext
  \/ FinishLine
  \/ ScheduleNext /\ UNCHANGED contextVars
  \/ Done

PlanSpec == ContextInit /\ [][Next]_vars

----------------------------------------------------------------------------
(* Properties.                                                             *)

\* What each action needs, from the specifications alone.
TargetOf(s, kind) ==
  CASE kind = "build" -> IF Def[s].package THEN Install(s) ELSE Build(s)
    [] kind = "install" ->
         IF ~Def[s].package /\ HasPrimitive(s, "build") THEN Build(s) ELSE Install(s)
    [] kind = "download" -> Install(s)
    [] kind = "test" -> Test(s)
    [] kind = "source" -> CreateSources(s)

Provider(x) == CHOOSE s \in Spec : x \in ToSet(Def[s].provides)

Wants(s, prim) ==
  {TargetOf(e.name, e.kind) : e \in {e \in ToSet(Def[s].deps[prim]) : e.kind # "source"}}
    \cup {InstallSource(s, x) : x \in ToSet(Def[s].needs[prim])}

Needs(u) ==
  CASE u.kind \in {"build", "test"} -> Wants(u.spec, u.kind)
    [] u.kind = "install" ->
         Wants(u.spec, "install") \cup
           {IF HasPrimitive(u.spec, "build") THEN DecisionBelow(u) ELSE DownloadBinary(u.spec)}
    [] u.kind = "build_or_download" -> {Build(u.spec), DownloadBinary(u.spec)}
    [] u.kind = "sources" ->
         {CreateSource(u.spec, x) : x \in ToSet(Def[u.spec].provides) \ Unmanaged}
    [] u.kind = "source" -> {Checkout(r) : r \in ToSet(Checkouts[u.item])} \cup Wants(u.spec, "source")
    [] u.kind = "source_install" -> {GetSource(u.item)}
    [] u.kind = "source_get" ->
         {IF u.item \in Unmanaged THEN DownloadSource(u.item) ELSE DecisionBelow(u)}
    [] u.kind = "create_or_download" ->
         {CreateSource(Provider(u.item), u.item), DownloadSource(u.item)}
    [] u.kind = "upload_bin" -> {Build(u.spec)}
    [] u.kind = "check_virus" -> {UploadComponent(u.spec)}
    [] u.kind = "upload_src" -> {CreateSource(u.spec, u.item)}
    [] OTHER -> {}

\* A scheduled action that depends on the build tree of a packaged spec comes
\* with its build, one that depends on its download with the download, even
\* when the plan has a line for the other: such a plan is an error.
DependenciesHonoured ==
  pc = "scheduled" =>
    \A u \in DOMAIN dag : u.kind \in {"build", "install", "test", "source"} =>
      \A e \in ToSet(Def[u.spec].deps[u.kind]) :
        /\ e.kind = "build" => Build(e.name) \in DOMAIN dag
        /\ e.kind = "download" => DownloadBinary(e.name) \in DOMAIN dag

=============================================================================
