---------------------------- MODULE AnodSchedule ----------------------------
(***************************************************************************)
(* e3.anod.context.AnodContext.schedule: the actions of the tree that will *)
(* be executed.  The tree is visited from its root down, in any order that *)
(* visits a vertex after all of its dependents; an action is scheduled if  *)
(* one of its dependents is, except below a decision, where the plan or    *)
(* the resolver has to choose; uploads come last.                          *)
(*                                                                         *)
(* The actions and the decisions between two of them (e3.anod.action) are  *)
(* vertices of the tree, known by their uids: the kind of the action, the  *)
(* specification it is about and the source or repository it is about.     *)
(* Environments and qualifiers are left out: a specification with other    *)
(* qualifiers is another one.                                              *)
(***************************************************************************)
EXTENDS Integers, FiniteSets, Sequences, SequencesExt, TLC

CONSTANTS
  Spec,        \* the specifications
  Source,      \* the source packages
  Repo,        \* the repositories
  NoSpec,
  NoItem,
  Resolvers,   \* a subset of {"download", "create"}
  NoResolver

ASSUME ResolversAssumption ==
  Resolvers \subseteq {"download", "create"} /\ NoResolver \notin Resolvers

----------------------------------------------------------------------------
(* Actions.                                                                *)

Uid(k, s, x) == [kind |-> k, spec |-> s, item |-> x]

Root == Uid("root", NoSpec, NoItem)
Build(s) == Uid("build", s, NoItem)
Install(s) == Uid("install", s, NoItem)
Test(s) == Uid("test", s, NoItem)
CreateSources(s) == Uid("sources", s, NoItem)
CreateSource(s, x) == Uid("source", s, x)
DownloadBinary(s) == Uid("download_bin", s, NoItem)
UploadComponent(s) == Uid("upload_bin", s, NoItem)
CheckVirus(s) == Uid("check_virus", s, NoItem)
UploadSource(s, x) == Uid("upload_src", s, x)
InstallSource(s, x) == Uid("source_install", s, x)
GetSource(x) == Uid("source_get", NoSpec, x)
DownloadSource(x) == Uid("download", NoSpec, x)
Checkout(r) == Uid("checkout", NoSpec, r)

\* The decision below u, an Install or a GetSource.
DecisionBelow(u) == [u EXCEPT !.kind = IF @ = "install" THEN "build_or_download"
                                                        ELSE "create_or_download"]

\* isinstance(action, Decision), isinstance(action, Upload).
IsDecision(u) == u.kind \in {"build_or_download", "create_or_download"}
IsUpload(u) == u.kind \in {"upload_bin", "upload_src"}

\* What is put off until the iteration is over.
Late(u) == IsUpload(u) \/ u.kind = "check_virus"

----------------------------------------------------------------------------
(* Decisions.                                                              *)

LEFT == 0
RIGHT == 1
BOTH == 2
Unset == -1   \* None

\* triggers: the pairs of an action and the choice it expects once scheduled.
NewDecision(root, leftAction, rightAction) ==
  [initiator |-> root, left |-> leftAction, right |-> rightAction,
   choice |-> Unset, expected |-> Unset, triggers |-> {}]

\* One more voice on a choice.
Agree(old, new) ==
  CASE old = Unset -> new
    [] old = new -> old
    [] OTHER -> BOTH

SetDecision(d, which) == [d EXCEPT !.choice = Agree(@, which)]

AddTrigger(d, u, which) == [d EXCEPT !.triggers = @ \cup {<<u, which>>}]

\* The voices of the triggers that are scheduled.
ApplyTriggers(d, scheduled) ==
  LET voices == {t[2] : t \in {t \in d.triggers : t[1] \in scheduled}}
      all == voices \cup ({d.expected} \ {Unset})
  IN [d EXCEPT !.expected = IF all = {} THEN Unset
                            ELSE IF Cardinality(all) = 1 THEN CHOOSE c \in all : TRUE
                            ELSE BOTH]

\* Variant: what the triggers expect is not looked at.
GetDecisionOfPlan(d) ==
  IF d.choice \in {Unset, BOTH} THEN {} ELSE {IF d.choice = LEFT THEN d.left ELSE d.right}

\* The set of the choices the plan has made: one or none.
GetDecision(d) ==
  IF \/ d.choice \in {Unset, BOTH}
     \/ d.expected # Unset /\ d.expected # d.choice
  THEN {}
  ELSE {IF d.choice = LEFT THEN d.left ELSE d.right}

----------------------------------------------------------------------------
(* The schedule.                                                           *)

VARIABLES
  tree,        \* self.tree
  decisions,   \* the Decision objects, by their uids
  pc,          \* "plan", "adding", "failed", "iterate", "uploads", "scheduled" or "error"
  resolver,
  remaining,   \* the vertices the iteration has not returned yet
  dag,         \* the result
  uploads,     \* the uploads and checks met by the iteration
  initiators   \* those of the SchedulingError raised

localVars == <<remaining, dag, uploads, initiators>>
scheduleVars == <<tree, decisions, pc, resolver, localVars>>

\* The other ends of the edges of E from u.
Targets(E, u) == {e[2] : e \in {e \in E : e[1] = u}}

\* A graph maps each vertex to its predecessors.  More sets of vertices and
\* of edges <<u, p>>, p a predecessor of u: update_vertex without checks.
Extended(g, V, E) ==
  [u \in DOMAIN g \cup V |->
     (IF u \in DOMAIN g THEN g[u] ELSE {}) \cup Targets(E, u)]

\* u is added, and becomes a predecessor of all of S.
ExtendedBelow(g, u, S) == Extended(g, {u}, S \X {u})

Dependents(g, u) == {v \in DOMAIN g : u \in g[v]}

\* Vertices are taken away as soon as their dependents are: what is left has
\* a cycle in it, or depends on one.
Awaited(g, S) == {u \in S : Dependents(g, u) \cap S # {}}
Cyclic(g) ==
  LET left[n \in 0..Cardinality(DOMAIN g)] ==
        IF n = 0 THEN DOMAIN g ELSE Awaited(g, left[n - 1])
  IN left[Cardinality(DOMAIN g)] # {}

\* Those that depend on u, directly or not.
WithDependents(g, S) == S \cup {v \in DOMAIN g : g[v] \cap S # {}}
Above(g, u) ==
  LET above[n \in 0..Cardinality(DOMAIN g)] ==
        IF n = 0 THEN {u} ELSE WithDependents(g, above[n - 1])
  IN above[Cardinality(DOMAIN g)] \ {u}

ScheduleInit ==
  /\ tree = [u \in {Root} |-> {}]
  /\ decisions = <<>>
  /\ pc = "plan"
  /\ resolver = NoResolver
  /\ remaining = {}
  /\ dag = <<>>
  /\ uploads = <<>>
  /\ initiators = {}

----------------------------------------------------------------------------
(* The iteration over the reversed tree.                                   *)

\* Where the iteration begins, the graph is checked.
StartSchedule(r) ==
  /\ pc = "plan"
  /\ pc' = IF Cyclic(tree) THEN "error" ELSE "iterate"
  /\ remaining' = DOMAIN tree
  /\ dag' = <<>>
  /\ uploads' = <<>>
  /\ initiators' = {}
  /\ resolver' = r
  /\ UNCHANGED <<tree, decisions>>

\* u is the next vertex of the iteration.
NextVertex(u) ==
  /\ pc = "iterate"
  /\ u \in remaining
  /\ Dependents(tree, u) \cap remaining = {}
  /\ remaining' = remaining \ {u}
  /\ UNCHANGED <<tree, resolver>>

\* The predecessors in the reversed graph, uploads apart.
Parents(u) == {v \in Dependents(tree, u) : ~IsUpload(v)}

\* u is there because of a decision, and of nothing else.
DecisionDriven(u) == \E v \in Parents(u) : Parents(u) = {v} /\ IsDecision(v)
DecisionOf(u) == decisions[CHOOSE v \in Parents(u) : TRUE]

VisitRoot ==
  /\ NextVertex(Root)
  /\ dag' = Extended(dag, {Root}, {})
  /\ UNCHANGED <<decisions, pc, uploads, initiators>>

VisitDecision(u) ==
  /\ IsDecision(u)
  /\ NextVertex(u)
  /\ decisions' = [decisions EXCEPT ![u] = ApplyTriggers(@, DOMAIN dag)]
  /\ UNCHANGED <<pc, dag, uploads, initiators>>

VisitUpload(u) ==
  /\ Late(u)
  /\ NextVertex(u)
  /\ uploads' = Append(uploads, u)
  /\ UNCHANGED <<decisions, pc, dag, initiators>>

IsPlain(u) == u # Root /\ ~IsDecision(u) /\ ~Late(u)

\* What the resolver says of u: always_download_source_resolver and
\* always_create_source_resolver.  {} is for decision_error.
Resolve(u) ==
  CASE u.kind = "source" -> {resolver = "create"}
    [] u.kind = "download" -> {resolver = "download"}
    [] OTHER -> {}

\* The plan has chosen u, or has chosen nothing and the resolver has.
Chosen(u) ==
  LET d == DecisionOf(u)
  IN \/ GetDecision(d) = {u}
     \/ GetDecision(d) = {} /\ Resolve(u) = {TRUE}

\* Neither the plan nor the resolver can choose.
Undecided(u) ==
  /\ DecisionOf(u).initiator \in DOMAIN dag
  /\ GetDecision(DecisionOf(u)) = {}
  /\ Resolve(u) = {}

VisitChoice(u) ==
  /\ IsPlain(u) /\ DecisionDriven(u) /\ ~Undecided(u)
  /\ NextVertex(u)
  /\ dag' = IF DecisionOf(u).initiator \in DOMAIN dag /\ Chosen(u)
            THEN ExtendedBelow(dag, u, {DecisionOf(u).initiator})
            ELSE dag
  /\ UNCHANGED <<decisions, pc, uploads, initiators>>

\* Variant: the failing vertex is not added to the graph first.
RaiseUndecidedAlone(u) ==
  /\ IsPlain(u) /\ DecisionDriven(u) /\ Undecided(u)
  /\ NextVertex(u)
  /\ initiators' = {v \in Above(dag, u) : Root \in Dependents(dag, v)}
  /\ pc' = "error"
  /\ UNCHANGED <<decisions, dag, uploads>>

\* SchedulingError: the initiators are the actions of the plan, those below
\* the root, that lead to u.
RaiseUndecided(u) ==
  /\ IsPlain(u) /\ DecisionDriven(u) /\ Undecided(u)
  /\ NextVertex(u)
  /\ LET failed == ExtendedBelow(dag, u, {DecisionOf(u).initiator})
     IN initiators' = {v \in Above(failed, u) : Root \in Dependents(failed, v)}
  /\ pc' = "error"
  /\ UNCHANGED <<decisions, dag, uploads>>

\* Variant: connected to one of the scheduled dependents only.
VisitActionOnce(u) ==
  /\ IsPlain(u) /\ ~DecisionDriven(u)
  /\ NextVertex(u)
  /\ dag' = IF Parents(u) \cap DOMAIN dag # {}
            THEN ExtendedBelow(dag, u, {CHOOSE v \in Parents(u) : v \in DOMAIN dag})
            ELSE dag
  /\ UNCHANGED <<decisions, pc, uploads, initiators>>

VisitAction(u) ==
  /\ IsPlain(u) /\ ~DecisionDriven(u)
  /\ NextVertex(u)
  /\ dag' = IF Parents(u) \cap DOMAIN dag # {}
            THEN ExtendedBelow(dag, u, Parents(u) \cap DOMAIN dag)
            ELSE dag
  /\ UNCHANGED <<decisions, pc, uploads, initiators>>

EndIteration ==
  /\ pc = "iterate"
  /\ remaining = {}
  /\ pc' = "uploads"
  /\ UNCHANGED <<tree, decisions, resolver, localVars>>

----------------------------------------------------------------------------
(* The uploads, the last one met first.                                    *)

WithUpload(g, u) ==
  IF tree[u] \subseteq DOMAIN g
  THEN Extended(g, {u}, ({u} \X tree[u]) \cup ({Root} \X ({u} \cap tree[Root])))
  ELSE g

\* Variant: the first one met first.
AddUploadInOrder ==
  /\ pc = "uploads"
  /\ uploads # <<>>
  /\ dag' = WithUpload(dag, Head(uploads))
  /\ uploads' = Tail(uploads)
  /\ UNCHANGED <<tree, decisions, pc, resolver, remaining, initiators>>

AddUpload ==
  /\ pc = "uploads"
  /\ uploads # <<>>
  /\ dag' = WithUpload(dag, Last(uploads))
  /\ uploads' = Front(uploads)
  /\ UNCHANGED <<tree, decisions, pc, resolver, remaining, initiators>>

Return ==
  /\ pc = "uploads"
  /\ uploads = <<>>
  /\ pc' = "scheduled"
  /\ UNCHANGED <<tree, decisions, resolver, localVars>>

Visit(u) ==
  \/ VisitDecision(u)
  \/ VisitUpload(u)
  \/ VisitChoice(u)
  \/ RaiseUndecided(u)
  \/ VisitAction(u)

ScheduleNext ==
  \/ \E r \in Resolvers : StartSchedule(r)
  \/ VisitRoot
  \/ \E u \in remaining : Visit(u)
  \/ EndIteration
  \/ AddUpload
  \/ Return

----------------------------------------------------------------------------
(* Properties.                                                             *)

\* The choice of a plan: one side, and no scheduled trigger expects the other.
PlanChoice(d) ==
  LET expects == {t[2] : t \in {t \in d.triggers : t[1] \in DOMAIN dag}}
  IN IF d.choice \in {LEFT, RIGHT} /\ expects \subseteq {d.choice}
     THEN {IF d.choice = LEFT THEN d.left ELSE d.right}
     ELSE {}

\* Whether u has its place in the result, as a fact about the result: the tree
\* has no cycle, so that only one set of actions satisfies it.
Wanted(u) ==
  \/ u = Root
  \/ Late(u) /\ tree[u] \subseteq DOMAIN dag
  \/ /\ IsPlain(u) /\ DecisionDriven(u) /\ DecisionOf(u).initiator \in DOMAIN dag
     /\ \/ PlanChoice(DecisionOf(u)) = {u}
        \/ PlanChoice(DecisionOf(u)) = {} /\ Resolve(u) = {TRUE}
  \/ IsPlain(u) /\ ~DecisionDriven(u) /\ Parents(u) \cap DOMAIN dag # {}

\* What schedule returns does not depend on the order of its iteration: neither
\* the triggers it has met when it looks at a decision, nor the uploads it has
\* seen when it adds one, are cut short.
ScheduleIsExact ==
  pc = "scheduled" =>
    /\ DOMAIN dag = {u \in DOMAIN tree : Wanted(u)}
    /\ \A u \in DOMAIN dag :
         dag[u] = {p \in DOMAIN dag : \/ p \in tree[u]
                                      \/ /\ IsPlain(p) /\ DecisionDriven(p)
                                         /\ DecisionOf(p).initiator = u}

\* One of the two actions of decision p takes its place below u.
DecisionTaken(u, p) ==
  Cardinality(dag[u] \cap {decisions[p].left, decisions[p].right}) = 1

\* No other action than decision p leads to what it decides about.
DecidesAlone(p) ==
  \A c \in {decisions[p].left, decisions[p].right} : Parents(c) = {p}

\* Whatever a scheduled action needs is scheduled, to be executed before it: all
\* that is below it in the tree, and one side of a decision.  The exception is
\* a decision about an action that is also there for another reason.
NeedsScheduled ==
  pc = "scheduled" =>
    \A u \in DOMAIN dag : \A p \in tree[u] :
      IF IsDecision(p) THEN DecidesAlone(p) => DecisionTaken(u, p)
      ELSE u # Root \/ IsPlain(p) => p \in dag[u]

\* The same without the exception: "one child of each Decision is chosen by the
\* scheduler, then taking the place of its Decision node in the DAG" (Decision).
DecisionsTaken ==
  pc = "scheduled" =>
    \A u \in DOMAIN dag : \A p \in tree[u] : IsDecision(p) => DecisionTaken(u, p)

\* A SchedulingError names actions of the plan that lead to the failure.
ErrorIsExplained ==
  pc = "error" /\ ~Cyclic(tree) => initiators # {} /\ initiators \subseteq tree[Root]

=============================================================================
