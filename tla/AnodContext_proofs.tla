------------------------- MODULE AnodContext_proofs -------------------------
(***************************************************************************)
(* Theorems about the planner of anod, AnodContext with AnodSchedule, for  *)
(* any specifications, any lines and any schedules in between.             *)
(*                                                                         *)
(* The calls on the stack of add_spec know what the calls above them will  *)
(* leave in the tree, so that the vertices and edges of a tree that is     *)
(* whole are those that the actions need.  An iteration of schedule has so *)
(* far kept, of the vertices it has met, what belongs in the schedule; and *)
(* who is in the schedule is there for the root, so that the search for    *)
(* those to blame comes to it.                                             *)
(*                                                                         *)
(* What a call returns is known before it returns: a decision has been     *)
(* told what depends on one of its sides, or a call is still to tell it,   *)
(* unless the calls are a circle, and no plan with a circle is scheduled.  *)
(***************************************************************************)
EXTENDS AnodContext, FiniteSetTheorems, SequenceTheorems, WellFoundedInduction, TLAPS

----------------------------------------------------------------------------
(* AnodSchedule.                                                           *)
(*                                                                         *)
(* An action is looked at after all that lead to it, so what it looks at   *)
(* does not change any more: who is in the result, what the triggers that  *)
(* are there expect.  What is wanted is so far a matter of those seen.     *)

DecisionType ==
  [initiator : DOMAIN tree, left : DOMAIN tree, right : DOMAIN tree,
   choice : {Unset, LEFT, RIGHT, BOTH}, expected : {Unset, LEFT, RIGHT, BOTH},
   triggers : SUBSET ((DOMAIN tree) \X {LEFT, RIGHT})]

DecisionOK(d) ==
  /\ d \in DOMAIN decisions /\ decisions[d] \in DecisionType
  /\ Dependents(tree, d) = {decisions[d].initiator} /\ IsPlain(decisions[d].initiator)
  /\ tree[d] = {decisions[d].left, decisions[d].right}
  /\ d.kind = "build_or_download" =>
       /\ decisions[d].initiator = Install(d.spec)
       /\ decisions[d].left.kind = "build" /\ decisions[d].right.kind = "download_bin"
  /\ d.kind = "create_or_download" =>
       /\ decisions[d].initiator = GetSource(d.item)
       /\ decisions[d].left.kind = "source" /\ decisions[d].right.kind = "download"
       /\ decisions[d].triggers = {} /\ decisions[d].expected = Unset
  /\ \A t \in decisions[d].triggers :
       IsPlain(t[1]) /\ decisions[d].initiator \in tree[t[1]]

\* What a plan gives to schedule.
PlannedTree ==
  /\ Root \in DOMAIN tree
  /\ \A u \in DOMAIN tree : \A p \in tree[u] :
       /\ p \in DOMAIN tree \ {Root}
       /\ Late(p) => u = Root \/ Late(u)
       /\ u.kind = "check_virus" => Late(p)
  /\ \A d \in DOMAIN tree : IsDecision(d) => DecisionOK(d)

Seen == DOMAIN tree \ remaining
Handled == Seen \ ToSet(uploads)

\* Who depends on what has been seen has been seen.
OrderOK ==
  /\ remaining \subseteq DOMAIN tree /\ uploads \in Seq(DOMAIN tree)
  /\ \A u \in Seen : Dependents(tree, u) \cap remaining = {}
  /\ pc # "iterate" => remaining = {}
  /\ pc = "scheduled" => uploads = <<>>
  /\ resolver \in Resolvers

\* What uploads need, and their checks, comes after them.
UploadsOK ==
  /\ \A i \in 1..Len(uploads) : Late(uploads[i]) /\ uploads[i] \in Seen
  /\ \A i, j \in 1..Len(uploads) : /\ i < j => uploads[i] # uploads[j]
                                   /\ i <= j => uploads[i] \notin tree[uploads[j]]
  /\ \A u \in Handled : Late(u) => /\ tree[u] \cap ToSet(uploads) = {}
                                   /\ pc # "iterate"

\* What an earlier schedule expected may only keep a choice from being made.
VoicesOK ==
  \A d \in Seen : IsDecision(d) =>
    \/ GetDecision(decisions[d]) = PlanChoice(decisions[d])
    \/ GetDecision(decisions[d]) = {} /\ d.kind = "build_or_download"

Leads(u, p) ==
  p \in tree[u] \/ (IsPlain(p) /\ DecisionDriven(p) /\ DecisionOf(p).initiator = u)

DagOK ==
  /\ DOMAIN dag = {u \in Handled : Wanted(u)}
  /\ \A u \in DOMAIN dag : dag[u] = {p \in DOMAIN dag : Leads(u, p)}

DecidedOK == \A u \in Seen : IsPlain(u) /\ DecisionDriven(u) => ~Undecided(u)

ScheduleInv ==
  /\ PlannedTree
  /\ pc \in {"iterate", "uploads", "scheduled"} =>
       OrderOK /\ UploadsOK /\ VoicesOK /\ DagOK /\ DecidedOK

LEMMA RootFacts == /\ Root.kind = "root" /\ ~IsDecision(Root) /\ ~Late(Root)
                   /\ ~IsPlain(Root)
BY DEF Root, Uid, IsDecision, IsUpload, Late, IsPlain

LEMMA KindsApart ==
  ASSUME NEW u
  PROVE  /\ IsDecision(u) => ~Late(u) /\ ~IsPlain(u) /\ u # Root
         /\ Late(u) => ~IsPlain(u) /\ u # Root
         /\ IsPlain(u) => ~Late(u) /\ ~IsDecision(u) /\ u # Root
         /\ u = Root \/ IsDecision(u) \/ Late(u) \/ IsPlain(u)
BY RootFacts DEF IsDecision, IsUpload, Late, IsPlain

LEMMA DependentsMember == \A u, v : v \in Dependents(tree, u) <=> v \in DOMAIN tree /\ u \in tree[v]
BY DEF Dependents

\* The decision an action is there for.
LEMMA DrivenFacts ==
  ASSUME PlannedTree, NEW u, DecisionDriven(u)
  PROVE  \E d \in DOMAIN tree : /\ IsDecision(d) /\ Parents(u) = {d} /\ u \in tree[d]
                                /\ d \in Dependents(tree, u)
                                /\ DecisionOf(u) = decisions[d] /\ DecisionOK(d)
<1>1. PICK d \in Parents(u) : Parents(u) = {d} /\ IsDecision(d) BY DEF DecisionDriven
<1>2. (CHOOSE v \in Parents(u) : TRUE) = d BY <1>1
<1>3. d \in DOMAIN tree /\ u \in tree[d] /\ d \in Dependents(tree, u)
  BY <1>1, DependentsMember DEF Parents
<1>4. QED BY <1>1, <1>2, <1>3 DEF DecisionOf, PlannedTree

\* Nothing but what is expected of a decision changes.
SameDecisions ==
  \A d \in DOMAIN tree : IsDecision(d) =>
    /\ decisions'[d].initiator = decisions[d].initiator
    /\ decisions'[d].left = decisions[d].left /\ decisions'[d].right = decisions[d].right
    /\ decisions'[d].choice = decisions[d].choice
    /\ decisions'[d].triggers = decisions[d].triggers

\* w is none of those whose presence u looks at.
ApartFrom(u, w) ==
  /\ ~Late(u) => w \notin Parents(u)
  /\ Late(u) => w \notin tree[u]
  /\ DecisionDriven(u) => /\ w # DecisionOf(u).initiator
                          /\ \A t \in DecisionOf(u).triggers : t[1] # w

LEMMA ParentsSame ==
  ASSUME UNCHANGED tree, NEW u
  PROVE  Parents(u)' = Parents(u) /\ (DecisionDriven(u)' <=> DecisionDriven(u))
<1>1. Parents(u)' = Parents(u) BY DEF Parents, Dependents
<1>2. QED BY <1>1 DEF DecisionDriven

LEMMA DecisionSame ==
  ASSUME PlannedTree, UNCHANGED tree, SameDecisions, NEW u, DecisionDriven(u)
  PROVE  /\ DecisionOf(u)'.initiator = DecisionOf(u).initiator
         /\ DecisionOf(u)'.left = DecisionOf(u).left /\ DecisionOf(u)'.right = DecisionOf(u).right
         /\ DecisionOf(u)'.choice = DecisionOf(u).choice
         /\ DecisionOf(u)'.triggers = DecisionOf(u).triggers
<1>1. PICK d \in DOMAIN tree : IsDecision(d) /\ Parents(u) = {d} /\ DecisionOf(u) = decisions[d]
  BY DrivenFacts
<1>2. Parents(u)' = {d} BY <1>1, ParentsSame
<1>3. DecisionOf(u)' = decisions'[d]
  <2>1. (CHOOSE v \in Parents(u)' : TRUE) = d BY <1>2
  <2>2. QED BY <2>1 DEF DecisionOf
<1>4. QED BY <1>1, <1>3 DEF SameDecisions

LEMMA PlanChoiceSame ==
  ASSUME NEW D, NEW E, NEW w, D.left = E.left, D.right = E.right, D.choice = E.choice,
         D.triggers = E.triggers, \A t \in D.triggers : t[1] # w,
         DOMAIN dag' = DOMAIN dag \/ DOMAIN dag' = DOMAIN dag \cup {w}
  PROVE  /\ (LET expects == {t[2] : t \in {t \in E.triggers : t[1] \in DOMAIN dag'}}
             IN IF E.choice \in {LEFT, RIGHT} /\ expects \subseteq {E.choice}
                THEN {IF E.choice = LEFT THEN E.left ELSE E.right}
                ELSE {}) = PlanChoice(D)
<1>1. {t \in E.triggers : t[1] \in DOMAIN dag'} = {t \in D.triggers : t[1] \in DOMAIN dag}
  OBVIOUS
<1>2. QED BY <1>1 DEF PlanChoice

LEMMA WantedStays ==
  ASSUME PlannedTree, UNCHANGED <<tree, resolver>>, SameDecisions, NEW w,
         DOMAIN dag' = DOMAIN dag \/ DOMAIN dag' = DOMAIN dag \cup {w},
         NEW u, ApartFrom(u, w)
  PROVE  Wanted(u)' <=> Wanted(u)
<1>1. Wanted(u)' <=>
        \/ u = Root
        \/ Late(u) /\ tree[u] \subseteq DOMAIN dag'
        \/ /\ IsPlain(u) /\ DecisionDriven(u) /\ DecisionOf(u)'.initiator \in DOMAIN dag'
           /\ PlanChoice(DecisionOf(u))' = {u}
              \/ (PlanChoice(DecisionOf(u))' = {} /\ Resolve(u) = {TRUE})
        \/ IsPlain(u) /\ ~DecisionDriven(u) /\ Parents(u) \cap DOMAIN dag' # {}
  <2>1. Parents(u)' = Parents(u) /\ (DecisionDriven(u)' <=> DecisionDriven(u)) BY ParentsSame
  <2>2. Resolve(u)' = Resolve(u) BY DEF Resolve
  <2>3. QED BY <2>1, <2>2 DEF Wanted
<1>2. Wanted(u) <=>
        \/ u = Root
        \/ Late(u) /\ tree[u] \subseteq DOMAIN dag
        \/ /\ IsPlain(u) /\ DecisionDriven(u) /\ DecisionOf(u).initiator \in DOMAIN dag
           /\ PlanChoice(DecisionOf(u)) = {u}
              \/ (PlanChoice(DecisionOf(u)) = {} /\ Resolve(u) = {TRUE})
        \/ IsPlain(u) /\ ~DecisionDriven(u) /\ Parents(u) \cap DOMAIN dag # {}
  BY DEF Wanted
<1>3. Late(u) => (tree[u] \subseteq DOMAIN dag' <=> tree[u] \subseteq DOMAIN dag)
  BY DEF ApartFrom
<1>4. IsPlain(u) => (Parents(u) \cap DOMAIN dag' # {} <=> Parents(u) \cap DOMAIN dag # {})
  BY KindsApart DEF ApartFrom
<1>5. DecisionDriven(u) => PlanChoice(DecisionOf(u))' = PlanChoice(DecisionOf(u))
  <2> SUFFICES ASSUME DecisionDriven(u)
               PROVE  PlanChoice(DecisionOf(u))' = PlanChoice(DecisionOf(u))
    OBVIOUS
  <2>1. PICK D, E : D = DecisionOf(u) /\ E = DecisionOf(u)' OBVIOUS
  <2>2. /\ D.left = E.left /\ D.right = E.right /\ D.choice = E.choice
        /\ D.triggers = E.triggers /\ \A t \in D.triggers : t[1] # w
    BY <2>1, DecisionSame DEF ApartFrom
  <2>3. QED BY <2>1, <2>2, PlanChoiceSame DEF PlanChoice
<1>6. DecisionDriven(u) => /\ DecisionOf(u)'.initiator = DecisionOf(u).initiator
                           /\ DecisionOf(u).initiator # w
  BY DecisionSame DEF ApartFrom
<1>7. QED BY <1>1, <1>2, <1>3, <1>4, <1>5, <1>6

LEMMA LeadsSame ==
  ASSUME PlannedTree, UNCHANGED tree, SameDecisions, NEW u, NEW p
  PROVE  Leads(u, p)' <=> Leads(u, p)
<1>1. DecisionDriven(p)' <=> DecisionDriven(p) BY ParentsSame
<1>2. DecisionDriven(p) => DecisionOf(p)'.initiator = DecisionOf(p).initiator BY DecisionSame
<1>3. QED BY <1>1, <1>2 DEF Leads

\* The result without w, which is not wanted.
LEMMA DagKept ==
  ASSUME PlannedTree, DagOK, UNCHANGED <<tree, resolver, dag>>, SameDecisions,
         NEW w, Handled' = Handled \/ (Handled' = Handled \cup {w} /\ ~Wanted(w))
  PROVE  DagOK'
<1>1. \A u : Wanted(u)' <=> Wanted(u)
  <2> SUFFICES ASSUME NEW u PROVE Wanted(u)' <=> Wanted(u) OBVIOUS
  <2>1. Parents(u)' = Parents(u) /\ (DecisionDriven(u)' <=> DecisionDriven(u))
    BY ParentsSame
  <2>2. Resolve(u)' = Resolve(u) BY DEF Resolve
  <2>3. DecisionDriven(u) => PlanChoice(DecisionOf(u))' = PlanChoice(DecisionOf(u))
    <3> SUFFICES ASSUME DecisionDriven(u)
                 PROVE  PlanChoice(DecisionOf(u))' = PlanChoice(DecisionOf(u))
      OBVIOUS
    <3>1. PICK D, E : D = DecisionOf(u) /\ E = DecisionOf(u)' OBVIOUS
    <3>2. /\ D.left = E.left /\ D.right = E.right /\ D.choice = E.choice
          /\ D.triggers = E.triggers
      BY <3>1, DecisionSame
    <3>3. QED BY <3>1, <3>2 DEF PlanChoice
  <2>4. DecisionDriven(u) => DecisionOf(u)'.initiator = DecisionOf(u).initiator
    BY DecisionSame
  <2>5. QED BY <2>1, <2>2, <2>3, <2>4 DEF Wanted
<1>2. \A u, p : Leads(u, p)' <=> Leads(u, p) BY LeadsSame
<1>3. DOMAIN dag' = {u \in Handled' : Wanted(u)'} BY <1>1 DEF DagOK
<1>4. \A u \in DOMAIN dag' : dag'[u] = {p \in DOMAIN dag' : Leads(u, p)'} BY <1>2 DEF DagOK
<1>5. QED BY <1>3, <1>4 DEF DagOK

\* The result with w, which is wanted.
LEMMA DagGrows ==
  ASSUME PlannedTree, DagOK, UNCHANGED <<tree, resolver>>, SameDecisions,
         NEW w, w \notin Handled, Handled' = Handled \cup {w}, Wanted(w),
         \A u \in Handled \cup {w} : ApartFrom(u, w),
         DOMAIN dag' = DOMAIN dag \cup {w},
         \A u \in DOMAIN dag :
           dag'[u] = dag[u] \cup (IF Leads(u, w) THEN {w} ELSE {}),
         dag'[w] = {p \in DOMAIN dag : Leads(w, p)}, ~Leads(w, w)
  PROVE  DagOK'
<1>1. \A u \in Handled \cup {w} : Wanted(u)' <=> Wanted(u) BY WantedStays
<1>2. \A u, p : Leads(u, p)' <=> Leads(u, p) BY LeadsSame
<1>3. DOMAIN dag' = {u \in Handled' : Wanted(u)'}
  <2>1. \A u : u \in DOMAIN dag' <=> u \in Handled' /\ Wanted(u)' BY <1>1 DEF DagOK
  <2>2. QED BY <2>1
<1>4. \A u \in DOMAIN dag' : dag'[u] = {p \in DOMAIN dag' : Leads(u, p)'}
  <2> SUFFICES ASSUME NEW u \in DOMAIN dag'
               PROVE  dag'[u] = {p \in DOMAIN dag' : Leads(u, p)'}
    OBVIOUS
  <2>1. CASE u = w BY <1>2, <2>1
  <2>2. CASE u \in DOMAIN dag /\ u # w
    <3>1. dag[u] = {p \in DOMAIN dag : Leads(u, p)} BY <2>2 DEF DagOK
    <3>2. dag'[u] = dag[u] \cup (IF Leads(u, w) THEN {w} ELSE {}) BY <2>2
    <3>3. QED BY <1>2, <3>1, <3>2
  <2>3. QED BY <2>1, <2>2
<1>5. QED BY <1>3, <1>4 DEF DagOK

\* A decision that is met looks at all who lead to it.
LEMMA SeenDecision ==
  ASSUME PlannedTree, NEW d \in DOMAIN tree, IsDecision(d),
         \A v \in Seen \cup {d} : Dependents(tree, v) \cap remaining = {}
  PROVE  /\ decisions[d].initiator \in Seen
         /\ \A t \in decisions[d].triggers : t[1] \in Seen
<1>1. DecisionOK(d) BY DEF PlannedTree
<1>2. decisions[d].initiator \in Dependents(tree, d) BY <1>1 DEF DecisionOK
<1>3. decisions[d].initiator \in Seen BY <1>2, DependentsMember DEF Seen
<1>4. ASSUME NEW t \in decisions[d].triggers PROVE t[1] \in Seen
  <2>1. decisions[d].initiator \in tree[t[1]] BY <1>1 DEF DecisionOK
  <2>2. t[1] \in DOMAIN tree BY <1>1 DEF DecisionOK, DecisionType
  <2>3. t[1] \in Dependents(tree, decisions[d].initiator) BY <2>1, <2>2, DependentsMember
  <2>4. QED BY <1>3, <2>2, <2>3 DEF Seen
<1>5. QED BY <1>3, <1>4

LEMMA SeenApart ==
  ASSUME PlannedTree, OrderOK, NEW w \in remaining, Dependents(tree, w) \cap remaining = {},
         NEW v \in Seen \cup {w}
  PROVE  /\ ~Leads(w, v)
         /\ w \notin Parents(v)
         /\ DecisionDriven(v) => /\ w # DecisionOf(v).initiator
                                 /\ \A t \in DecisionOf(v).triggers : t[1] # w
<1>1. \A u \in Seen \cup {w} : Dependents(tree, u) \cap remaining = {} BY DEF OrderOK
<1>2. w \notin Dependents(tree, v) BY <1>1
<1>3. w \in DOMAIN tree /\ v \notin tree[w] BY <1>2, DependentsMember DEF OrderOK
<1>5. w \notin Parents(v) BY <1>2 DEF Parents
<1>6. ASSUME DecisionDriven(v)
      PROVE  /\ w # DecisionOf(v).initiator
             /\ \A t \in DecisionOf(v).triggers : t[1] # w
  <2>1. PICK d \in DOMAIN tree : /\ IsDecision(d) /\ d \in Dependents(tree, v)
                                 /\ DecisionOf(v) = decisions[d]
    BY <1>6, DrivenFacts
  <2>2. d \in Seen BY <1>1, <2>1 DEF Seen
  <2>3. /\ decisions[d].initiator \in Seen
        /\ \A t \in decisions[d].triggers : t[1] \in Seen
    BY <1>1, <2>1, <2>2, SeenDecision
  <2>4. w \notin Seen BY DEF Seen
  <2>5. QED BY <2>1, <2>3, <2>4
<1>7. ~Leads(w, v) BY <1>3, <1>6 DEF Leads
<1>8. QED BY <1>5, <1>6, <1>7

\* What the voices of a decision say stays when w is none of its triggers.
LEMMA ChoiceStays ==
  ASSUME NEW D, NEW w, \A t \in D.triggers : t[1] # w,
         DOMAIN dag' = DOMAIN dag \/ DOMAIN dag' = DOMAIN dag \cup {w}
  PROVE  (LET expects == {t[2] : t \in {t \in D.triggers : t[1] \in DOMAIN dag'}}
          IN IF D.choice \in {LEFT, RIGHT} /\ expects \subseteq {D.choice}
             THEN {IF D.choice = LEFT THEN D.left ELSE D.right}
             ELSE {}) = PlanChoice(D)
<1>1. {t \in D.triggers : t[1] \in DOMAIN dag'} = {t \in D.triggers : t[1] \in DOMAIN dag}
  OBVIOUS
<1>2. QED BY <1>1 DEF PlanChoice

\* The decisions as they were, while w takes its place or none.
LEMMA DecisionsStay ==
  ASSUME PlannedTree, VoicesOK, DecidedOK, UNCHANGED <<tree, resolver, decisions>>, NEW w,
         DOMAIN dag' = DOMAIN dag \/ DOMAIN dag' = DOMAIN dag \cup {w},
         Seen' = Seen \cup {w} \/ Seen' = Seen, ~IsDecision(w) \/ w \in Seen,
         remaining' \subseteq remaining,
         \A d \in Seen : IsDecision(d) => \A t \in decisions[d].triggers : t[1] # w,
         \A v \in Seen' : DecisionDriven(v) => DecisionOf(v).initiator # w,
         w \in Seen \/ (IsPlain(w) /\ DecisionDriven(w) => ~Undecided(w))
  PROVE  PlannedTree' /\ VoicesOK' /\ DecidedOK'
<1>1. PlannedTree'
  BY DEF PlannedTree, DecisionOK, DecisionType, Dependents
<1>2. VoicesOK'
  <2> SUFFICES ASSUME NEW d \in Seen', IsDecision(d)
               PROVE  \/ GetDecision(decisions[d]) = PlanChoice(decisions[d])'
                      \/ GetDecision(decisions[d]) = {} /\ d.kind = "build_or_download"
    BY DEF VoicesOK, GetDecision
  <2>1. d \in Seen OBVIOUS
  <2>2. \A t \in decisions[d].triggers : t[1] # w BY <2>1
  <2>3. PICK D : D = decisions[d] OBVIOUS
  <2>4. PlanChoice(decisions[d])' = PlanChoice(decisions[d])
    BY <2>2, <2>3, ChoiceStays DEF PlanChoice
  <2>5. QED BY <2>1, <2>4 DEF VoicesOK
<1>3. DecidedOK'
  <2> SUFFICES ASSUME NEW v \in Seen', IsPlain(v), DecisionDriven(v)', Undecided(v)'
               PROVE  FALSE
    BY DEF DecidedOK
  <2>1. DecisionDriven(v) /\ Parents(v)' = Parents(v) BY ParentsSame
  <2>2. DecisionOf(v)' = DecisionOf(v) BY <2>1 DEF DecisionOf
  <2>3. Undecided(v) BY <2>1, <2>2 DEF Undecided, Resolve, GetDecision
  <2>4. v \in Seen \/ v = w OBVIOUS
  <2>5. QED BY <2>1, <2>3, <2>4 DEF DecidedOK
<1>4. QED BY <1>1, <1>2, <1>3

\* What an iteration has when it comes to u.
Iterating(u) ==
  /\ PlannedTree /\ OrderOK /\ UploadsOK /\ VoicesOK /\ DagOK /\ DecidedOK
  /\ NextVertex(u)

LEMMA IteratingFacts ==
  ASSUME ScheduleInv, NEW u, NextVertex(u)
  PROVE  /\ Iterating(u)
         /\ u \in DOMAIN tree /\ u \notin Seen /\ u \notin Handled /\ u \notin ToSet(uploads)
         /\ \A v \in Handled : ~Late(v)
         /\ Seen' = Seen \cup {u}
         /\ remaining' = remaining \ {u} /\ UNCHANGED <<tree, resolver>>
<1>1. Iterating(u) BY DEF Iterating, ScheduleInv, NextVertex
<1>2. u \in remaining /\ u \in DOMAIN tree /\ u \notin Seen
  BY <1>1 DEF Iterating, NextVertex, OrderOK, Seen
<1>3. u \notin ToSet(uploads)
  BY <1>1, <1>2 DEF Iterating, UploadsOK, OrderOK, ToSet
<1>4. \A v \in Handled : ~Late(v) BY <1>1 DEF Iterating, NextVertex, UploadsOK
<1>5. remaining' = remaining \ {u} /\ UNCHANGED <<tree, resolver>> BY DEF NextVertex
<1>6. Seen' = Seen \cup {u} BY <1>2, <1>5 DEF Seen
<1>7. QED BY <1>1, <1>2, <1>3, <1>4, <1>5, <1>6 DEF Handled

\* A vertex is visited that is not put off.
LEMMA OrderStays ==
  ASSUME ScheduleInv, NEW u, NextVertex(u), ~Late(u), UNCHANGED <<pc, uploads>>
  PROVE  OrderOK' /\ UploadsOK' /\ Handled' = Handled \cup {u}
<1>0. /\ Iterating(u)
      /\ u \in DOMAIN tree /\ u \notin Seen /\ u \notin ToSet(uploads)
      /\ \A v \in Handled : ~Late(v)
      /\ Seen' = Seen \cup {u}
      /\ remaining' = remaining \ {u} /\ UNCHANGED <<tree, resolver>>
  BY IteratingFacts
<1>1. Handled' = Handled \cup {u} BY <1>0 DEF Handled, ToSet
<1>2. OrderOK'
  <2>1. \A v \in Seen' : Dependents(tree, v)' \cap remaining' = {}
    BY <1>0 DEF Iterating, OrderOK, NextVertex, Dependents
  <2>2. QED BY <1>0, <2>1 DEF Iterating, OrderOK, NextVertex
<1>3. UploadsOK' BY <1>0, <1>1 DEF Iterating, UploadsOK, NextVertex, ToSet
<1>4. QED BY <1>1, <1>2, <1>3

LEMMA AllApart ==
  ASSUME ScheduleInv, NEW u, NextVertex(u), ~Late(u)
  PROVE  /\ \A v \in Handled \cup {u} : ApartFrom(v, u) /\ ~Leads(u, v)
         /\ \A d \in Seen : IsDecision(d) => \A t \in decisions[d].triggers : t[1] # u
         /\ \A v \in Seen \cup {u} : DecisionDriven(v) => DecisionOf(v).initiator # u
<1>0. /\ Iterating(u) /\ u \notin Seen
      /\ \A v \in Handled : ~Late(v)
  BY IteratingFacts
<1>1. /\ PlannedTree /\ OrderOK /\ u \in remaining /\ Dependents(tree, u) \cap remaining = {}
  BY <1>0 DEF Iterating, NextVertex
<1>2. \A v \in Seen \cup {u} :
        /\ ~Leads(u, v) /\ u \notin Parents(v)
        /\ DecisionDriven(v) => /\ u # DecisionOf(v).initiator
                                /\ \A t \in DecisionOf(v).triggers : t[1] # u
  BY <1>1, SeenApart
<1>3. \A v \in Handled \cup {u} : ApartFrom(v, u) /\ ~Leads(u, v)
  BY <1>0, <1>2 DEF Handled, ApartFrom
<1>4. \A d \in Seen : IsDecision(d) => \A t \in decisions[d].triggers : t[1] # u
  <2> SUFFICES ASSUME NEW d \in Seen, IsDecision(d)
               PROVE  \A t \in decisions[d].triggers : t[1] # u
    OBVIOUS
  <2>1. d \in DOMAIN tree BY DEF Seen
  <2>2. \A v \in Seen \cup {d} : Dependents(tree, v) \cap remaining = {}
    BY <1>1 DEF OrderOK
  <2>3. QED BY <1>0, <1>1, <2>1, <2>2, SeenDecision
<1>5. QED BY <1>2, <1>3, <1>4

\* An action or the root takes its place, or none.
LEMMA PlaceStep ==
  ASSUME ScheduleInv, NEW u, NextVertex(u), ~Late(u), ~IsDecision(u),
         UNCHANGED <<decisions, pc, uploads>>,
         IsPlain(u) /\ DecisionDriven(u) => ~Undecided(u),
         \/ ~Wanted(u) /\ dag' = dag
         \/ /\ Wanted(u) /\ DOMAIN dag' = DOMAIN dag \cup {u}
            /\ \A v \in DOMAIN dag :
                 dag'[v] = dag[v] \cup (IF Leads(v, u) THEN {u} ELSE {})
            /\ dag'[u] = {}
  PROVE  ScheduleInv'
<1>0. /\ Iterating(u) /\ u \notin Handled /\ u \in DOMAIN tree /\ Seen' = Seen \cup {u}
      /\ remaining' = remaining \ {u} /\ UNCHANGED <<tree, resolver>>
  BY IteratingFacts
<1>1. OrderOK' /\ UploadsOK' /\ Handled' = Handled \cup {u} BY OrderStays
<1>2. /\ \A v \in Handled \cup {u} : ApartFrom(v, u) /\ ~Leads(u, v)
      /\ \A d \in Seen : IsDecision(d) => \A t \in decisions[d].triggers : t[1] # u
      /\ \A v \in Seen \cup {u} : DecisionDriven(v) => DecisionOf(v).initiator # u
  BY AllApart
<1>3. PlannedTree /\ VoicesOK /\ DagOK /\ DecidedOK BY <1>0 DEF Iterating
<1>4. PlannedTree' /\ VoicesOK' /\ DecidedOK'
  <2>1. DOMAIN dag' = DOMAIN dag \/ DOMAIN dag' = DOMAIN dag \cup {u} OBVIOUS
  <2>2. remaining' \subseteq remaining BY <1>0
  <2>3. \A v \in Seen' : DecisionDriven(v) => DecisionOf(v).initiator # u BY <1>0, <1>2
  <2>4. QED BY <1>0, <1>2, <1>3, <2>1, <2>2, <2>3, DecisionsStay
<1>5. SameDecisions BY DEF SameDecisions
<1>6. DagOK'
  <2>1. CASE ~Wanted(u) /\ dag' = dag BY <1>0, <1>1, <1>3, <1>5, <2>1, DagKept
  <2>2. CASE Wanted(u)
    <3>1. dag'[u] = {p \in DOMAIN dag : Leads(u, p)} BY <1>2, <1>3, <2>2 DEF DagOK
    <3>2. QED BY <1>0, <1>1, <1>2, <1>3, <1>5, <2>2, <3>1, DagGrows
  <2>3. QED BY <2>1, <2>2
<1>7. pc' = "iterate" BY <1>0 DEF Iterating, NextVertex
<1>8. QED BY <1>1, <1>4, <1>6, <1>7 DEF ScheduleInv

\* h is g with u in it, below S.
PutBelow(h, g, u, S) ==
  /\ DOMAIN h = DOMAIN g \cup {u}
  /\ \A v \in DOMAIN g : h[v] = g[v] \cup (IF v \in S THEN {u} ELSE {})
  /\ h[u] = {}

LEMMA ExtendedFacts ==
  ASSUME NEW g, NEW u, NEW S, NEW E, u \notin DOMAIN g, S \subseteq DOMAIN g,
         \A v : Targets(E, v) = IF v \in S THEN {u} ELSE {}
  PROVE  PutBelow(Extended(g, {u}, E), g, u, S)
<1>1. PICK h : h = Extended(g, {u}, E) OBVIOUS
<1>2. /\ DOMAIN h = DOMAIN g \cup {u}
      /\ \A v \in DOMAIN g \cup {u} :
           h[v] = (IF v \in DOMAIN g THEN g[v] ELSE {}) \cup Targets(E, v)
  BY <1>1 DEF Extended
<1>3. PutBelow(h, g, u, S) BY <1>2 DEF PutBelow
<1>4. QED BY <1>1, <1>3

LEMMA ExtendedBelowFacts ==
  ASSUME NEW g, NEW u, NEW S, u \notin DOMAIN g, S \subseteq DOMAIN g
  PROVE  PutBelow(ExtendedBelow(g, u, S), g, u, S)
<1>1. \A v : Targets(S \X {u}, v) = IF v \in S THEN {u} ELSE {}
  <2> SUFFICES ASSUME NEW v PROVE Targets(S \X {u}, v) = IF v \in S THEN {u} ELSE {}
    OBVIOUS
  <2>1. \A e \in S \X {u} : e[1] \in S /\ e[2] = u OBVIOUS
  <2>2. v \in S => <<v, u>> \in {e \in S \X {u} : e[1] = v} /\ <<v, u>>[2] = u OBVIOUS
  <2>3. CASE v \in S
    <3>1. Targets(S \X {u}, v) \subseteq {u} BY <2>1 DEF Targets
    <3>2. u \in Targets(S \X {u}, v) BY <2>2, <2>3 DEF Targets
    <3>3. QED BY <2>3, <3>1, <3>2
  <2>4. CASE v \notin S BY <2>1, <2>4 DEF Targets
  <2>5. QED BY <2>3, <2>4
<1>2. QED BY <1>1, ExtendedFacts DEF ExtendedBelow

LEMMA VisitRootStep == ScheduleInv /\ VisitRoot => ScheduleInv'
<1> SUFFICES ASSUME ScheduleInv, VisitRoot PROVE ScheduleInv' OBVIOUS
<1>1. Iterating(Root) /\ Root \notin Handled BY IteratingFacts DEF VisitRoot
<1>2. Root \notin DOMAIN dag BY <1>1 DEF Iterating, DagOK
<1>3. ~Late(Root) /\ ~IsDecision(Root) /\ ~IsPlain(Root) BY RootFacts
<1>4. \A v \in DOMAIN dag : ~Leads(v, Root)
  BY <1>1, <1>3 DEF Iterating, PlannedTree, DagOK, Leads, Handled, Seen
<1>5. /\ DOMAIN dag' = DOMAIN dag \cup {Root}
      /\ \A v \in DOMAIN dag : dag'[v] = dag[v] \cup (IF Leads(v, Root) THEN {Root} ELSE {})
      /\ dag'[Root] = {}
  <2>1. dag' = Extended(dag, {Root}, {}) BY DEF VisitRoot
  <2>2. PICK E : E = {} OBVIOUS
  <2>3. \A v : Targets(E, v) = IF v \in {} THEN {Root} ELSE {} BY <2>2 DEF Targets
  <2>4. PutBelow(dag', dag, Root, {}) BY <1>2, <2>1, <2>2, <2>3, ExtendedFacts
  <2>5. QED BY <1>4, <2>4 DEF PutBelow
<1>6. Wanted(Root) BY DEF Wanted
<1>7. NextVertex(Root) /\ UNCHANGED <<decisions, pc, uploads>> BY DEF VisitRoot
<1>8. QED BY <1>3, <1>5, <1>6, <1>7, PlaceStep

LEMMA VisitActionStep ==
  ASSUME ScheduleInv, NEW u, VisitAction(u)
  PROVE  ScheduleInv'
<1>1. Iterating(u) /\ u \notin Handled /\ \A v \in Handled : ~Late(v)
  BY IteratingFacts DEF VisitAction
<1>2. u \notin DOMAIN dag /\ DOMAIN dag \subseteq Handled BY <1>1 DEF Iterating, DagOK
<1>3. IsPlain(u) /\ ~Late(u) /\ ~IsDecision(u) /\ u # Root /\ ~DecisionDriven(u)
  BY KindsApart DEF VisitAction
<1>4. Wanted(u) <=> Parents(u) \cap DOMAIN dag # {} BY <1>3 DEF Wanted
<1>5. \A v \in DOMAIN dag : Leads(v, u) <=> v \in Parents(u)
  BY <1>1, <1>2, <1>3, DependentsMember DEF Leads, Parents, Late, Handled, Seen
<1>6. CASE Parents(u) \cap DOMAIN dag # {}
  <2>1. dag' = ExtendedBelow(dag, u, Parents(u) \cap DOMAIN dag) BY <1>6 DEF VisitAction
  <2>2. /\ DOMAIN dag' = DOMAIN dag \cup {u}
        /\ \A v \in DOMAIN dag :
             dag'[v] = dag[v] \cup (IF v \in Parents(u) \cap DOMAIN dag THEN {u} ELSE {})
        /\ dag'[u] = {}
    <3>1. PICK S : S = Parents(u) \cap DOMAIN dag OBVIOUS
    <3>2. S \subseteq DOMAIN dag /\ dag' = ExtendedBelow(dag, u, S) BY <2>1, <3>1
    <3>3. PutBelow(dag', dag, u, S) BY <1>2, <3>2, ExtendedBelowFacts
    <3>4. QED BY <3>1, <3>3 DEF PutBelow
  <2>3. \A v \in DOMAIN dag : dag'[v] = dag[v] \cup (IF Leads(v, u) THEN {u} ELSE {})
    BY <1>5, <2>2
  <2>4. NextVertex(u) /\ UNCHANGED <<decisions, pc, uploads>> BY DEF VisitAction
  <2>5. QED BY <1>3, <1>4, <1>6, <2>2, <2>3, <2>4, PlaceStep
<1>7. CASE Parents(u) \cap DOMAIN dag = {}
  <2>1. dag' = dag BY <1>7 DEF VisitAction
  <2>2. NextVertex(u) /\ UNCHANGED <<decisions, pc, uploads>> BY DEF VisitAction
  <2>3. QED BY <1>3, <1>4, <1>7, <2>1, <2>2, PlaceStep
<1>8. QED BY <1>6, <1>7

LEMMA VisitChoiceStep ==
  ASSUME ScheduleInv, NEW u, VisitChoice(u)
  PROVE  ScheduleInv'
<1>1. Iterating(u) /\ u \notin Handled /\ \A v \in Handled : ~Late(v)
  BY IteratingFacts DEF VisitChoice
<1>2. u \notin DOMAIN dag /\ DOMAIN dag \subseteq Handled BY <1>1 DEF Iterating, DagOK
<1>3. IsPlain(u) /\ ~Late(u) /\ ~IsDecision(u) /\ u # Root /\ DecisionDriven(u) /\ ~Undecided(u)
  BY KindsApart DEF VisitChoice
<1>4. PICK d \in DOMAIN tree :
        /\ IsDecision(d) /\ Parents(u) = {d} /\ d \in Dependents(tree, u)
        /\ DecisionOf(u) = decisions[d]
  BY <1>1, <1>3, DrivenFacts DEF Iterating
<1>5. d \in Seen BY <1>1, <1>4 DEF Iterating, NextVertex, Seen
<1>6. DecisionOf(u).initiator \in DOMAIN dag =>
        GetDecision(DecisionOf(u)) = PlanChoice(DecisionOf(u))
  <2>1. CASE d.kind = "build_or_download"
    <3>1. u \in {decisions[d].left, decisions[d].right}
      BY <1>1, <1>4, DependentsMember DEF Iterating, PlannedTree, DecisionOK
    <3>2. u.kind \in {"build", "download_bin"}
      BY <1>1, <1>4, <2>1, <3>1 DEF Iterating, PlannedTree, DecisionOK
    <3>3. Resolve(u) = {} BY <3>2 DEF Resolve
    <3>4. QED BY <1>1, <1>3, <1>4, <1>5, <3>3 DEF Undecided, Iterating, VoicesOK
  <2>2. CASE d.kind # "build_or_download"
    BY <1>1, <1>4, <1>5, <2>2 DEF Iterating, VoicesOK
  <2>3. QED BY <2>1, <2>2
<1>7. Wanted(u) <=> DecisionOf(u).initiator \in DOMAIN dag /\ Chosen(u)
  BY <1>3, <1>6 DEF Wanted, Chosen
<1>8. \A v \in DOMAIN dag : Leads(v, u) <=> v \in {DecisionOf(u).initiator}
  <2> SUFFICES ASSUME NEW v \in DOMAIN dag, u \in tree[v]
               PROVE  FALSE
    BY <1>3 DEF Leads
  <2>1. v \in Handled /\ Wanted(v) /\ ~Late(v) /\ v \in DOMAIN tree
    BY <1>1, <1>2 DEF Iterating, DagOK, Handled, Seen
  <2>2. v \in Parents(u) BY <2>1, DependentsMember DEF Parents, Late
  <2>3. IsDecision(v) BY <1>4, <2>2
  <2>4. ~Wanted(v) BY <2>3, KindsApart DEF Wanted
  <2>5. QED BY <2>1, <2>4
<1>9. NextVertex(u) /\ UNCHANGED <<decisions, pc, uploads>> BY DEF VisitChoice
<1>10. CASE DecisionOf(u).initiator \in DOMAIN dag /\ Chosen(u)
  <2>1. dag' = ExtendedBelow(dag, u, {DecisionOf(u).initiator}) BY <1>10 DEF VisitChoice
  <2>2. /\ DOMAIN dag' = DOMAIN dag \cup {u}
        /\ \A v \in DOMAIN dag :
             dag'[v] = dag[v] \cup (IF v \in {DecisionOf(u).initiator} THEN {u} ELSE {})
        /\ dag'[u] = {}
    <3>1. PICK S : S = {DecisionOf(u).initiator} OBVIOUS
    <3>2. S \subseteq DOMAIN dag /\ dag' = ExtendedBelow(dag, u, S) BY <1>10, <2>1, <3>1
    <3>3. PutBelow(dag', dag, u, S) BY <1>2, <3>2, ExtendedBelowFacts
    <3>4. QED BY <3>1, <3>3 DEF PutBelow
  <2>3. \A v \in DOMAIN dag : dag'[v] = dag[v] \cup (IF Leads(v, u) THEN {u} ELSE {})
    BY <1>8, <2>2
  <2>4. QED BY <1>3, <1>7, <1>9, <1>10, <2>2, <2>3, PlaceStep
<1>11. CASE ~(DecisionOf(u).initiator \in DOMAIN dag /\ Chosen(u))
  <2>1. dag' = dag BY <1>11 DEF VisitChoice
  <2>2. QED BY <1>3, <1>7, <1>9, <1>11, <2>1, PlaceStep
<1>12. QED BY <1>10, <1>11

\* A decision hears the triggers that are scheduled; what was expected of it
\* before may keep it from choosing.
LEMMA TriggersRight ==
  ASSUME NEW D, NEW E, D.expected \in {Unset, LEFT, RIGHT, BOTH},
         D.choice \in {Unset, LEFT, RIGHT, BOTH},
         \A t \in D.triggers : t[2] \in {LEFT, RIGHT},
         E.left = D.left, E.right = D.right, E.choice = D.choice, E.triggers = D.triggers,
         E.expected = ApplyTriggers(D, DOMAIN dag).expected,
         D = [D EXCEPT !.expected = D.expected], "expected" \in DOMAIN D
  PROVE  /\ E.expected \in {Unset, LEFT, RIGHT, BOTH}
         /\ GetDecision(E) \in {{}, PlanChoice(D)}
         /\ D.expected = Unset => GetDecision(E) = PlanChoice(D)
         /\ D.expected = Unset /\ D.triggers = {} => E.expected = Unset
<1>1. PICK V : V = {t[2] : t \in {t \in D.triggers : t[1] \in DOMAIN dag}} OBVIOUS
<1>2. V \subseteq {LEFT, RIGHT} BY <1>1
<1>3. PICK A : A = V \cup ({D.expected} \ {Unset}) OBVIOUS
<1>4. E.expected = IF A = {} THEN Unset
                   ELSE IF Cardinality(A) = 1 THEN CHOOSE c \in A : TRUE
                   ELSE BOTH
  BY <1>1, <1>3 DEF ApplyTriggers
<1>5. \A c : A = {c} => E.expected = c
  <2> SUFFICES ASSUME NEW c, A = {c} PROVE E.expected = c OBVIOUS
  <2>1. Cardinality({c}) = 1 BY FS_Singleton
  <2>2. (CHOOSE x \in {c} : TRUE) = c OBVIOUS
  <2>3. QED BY <1>4, <2>1, <2>2
<1>6. A = {} => E.expected = Unset BY <1>4
<1>7. A # {} /\ (\A c : A # {c}) => E.expected = BOTH
  <2> SUFFICES ASSUME A # {}, \A c : A # {c} PROVE E.expected = BOTH OBVIOUS
  <2>1. IsFiniteSet(A)
    <3>1. /\ IsFiniteSet({LEFT}) /\ IsFiniteSet({RIGHT}) /\ IsFiniteSet({BOTH})
      BY FS_Singleton
    <3>2. IsFiniteSet({LEFT} \cup {RIGHT}) BY <3>1, FS_Union
    <3>3. IsFiniteSet(({LEFT} \cup {RIGHT}) \cup {BOTH}) BY <3>1, <3>2, FS_Union
    <3>4. A \subseteq (({LEFT} \cup {RIGHT}) \cup {BOTH}) BY <1>2, <1>3
    <3>5. QED BY <3>3, <3>4, FS_Subset
  <2>2. Cardinality(A) # 1 BY <2>1, FS_Singleton
  <2>3. QED BY <1>4, <2>2
<1>8. PlanChoice(D) = IF D.choice \in {LEFT, RIGHT} /\ V \subseteq {D.choice}
                      THEN {IF D.choice = LEFT THEN D.left ELSE D.right}
                      ELSE {}
  BY <1>1 DEF PlanChoice
<1>9. A \subseteq {LEFT, RIGHT, BOTH} BY <1>2, <1>3
<1>10. \/ A = {} /\ E.expected = Unset
       \/ A = {LEFT} /\ E.expected = LEFT
       \/ A = {RIGHT} /\ E.expected = RIGHT
       \/ E.expected = BOTH /\ \A c \in {LEFT, RIGHT} : ~(A \subseteq {c})
  <2>1. CASE \E c : A = {c}
    <3>1. PICK c : A = {c} BY <2>1
    <3>2. c \in {LEFT, RIGHT, BOTH} /\ E.expected = c BY <1>5, <1>9, <3>1
    <3>3. QED BY <3>1, <3>2 DEF LEFT, RIGHT, BOTH
  <2>2. CASE \A c : A # {c}
    <3>1. \A c \in {LEFT, RIGHT} : A \subseteq {c} => A = {} BY <2>2
    <3>2. CASE A = {} BY <1>6, <3>2
    <3>3. CASE A # {} BY <1>7, <2>2, <3>1, <3>3
    <3>4. QED BY <3>2, <3>3
  <2>3. QED BY <2>1, <2>2
<1>11. D.expected = Unset => A = V BY <1>3
<1>12. V \subseteq A BY <1>3
<1>13. GetDecision(E) = IF \/ D.choice \in {Unset, BOTH}
                           \/ E.expected # Unset /\ E.expected # D.choice
                        THEN {} ELSE {IF D.choice = LEFT THEN D.left ELSE D.right}
  BY DEF GetDecision
<1>14. D.choice \in {LEFT, RIGHT} \/ D.choice \in {Unset, BOTH} OBVIOUS
<1>15. LEFT # RIGHT /\ LEFT # BOTH /\ RIGHT # BOTH /\ LEFT # Unset /\ RIGHT # Unset /\ BOTH # Unset
  BY DEF LEFT, RIGHT, BOTH, Unset
<1>16. D.choice \in {LEFT, RIGHT} =>
         (GetDecision(E) = {} <=> ~(A \subseteq {D.choice}))
  BY <1>10, <1>13, <1>15
<1>17. GetDecision(E) \in {{}, PlanChoice(D)} BY <1>8, <1>12, <1>13, <1>14, <1>15, <1>16
<1>18. D.expected = Unset => GetDecision(E) = PlanChoice(D)
  BY <1>8, <1>11, <1>13, <1>14, <1>15, <1>16
<1>19. D.triggers = {} => V = {} BY <1>1
<1>20. QED BY <1>6, <1>10, <1>11, <1>17, <1>18, <1>19

LEMMA ChangedDecision ==
  ASSUME PlannedTree, NEW u \in DOMAIN tree, IsDecision(u),
         decisions' = [decisions EXCEPT ![u] = ApplyTriggers(@, DOMAIN dag)]
  PROVE  /\ SameDecisions /\ DOMAIN decisions' = DOMAIN decisions
         /\ decisions'[u].expected \in {Unset, LEFT, RIGHT, BOTH}
         /\ u.kind = "create_or_download" => decisions'[u].expected = Unset
         /\ decisions'[u] = [decisions[u] EXCEPT !.expected = decisions'[u].expected]
         /\ \/ GetDecision(decisions'[u]) = PlanChoice(decisions[u])
            \/ GetDecision(decisions'[u]) = {} /\ u.kind = "build_or_download"
         /\ \A d \in DOMAIN tree \ {u} : decisions'[d] = decisions[d]
<1>1. DecisionOK(u) BY DEF PlannedTree
<1>2. u \in DOMAIN decisions /\ decisions[u] \in DecisionType BY <1>1 DEF DecisionOK
<1>3. decisions'[u] = ApplyTriggers(decisions[u], DOMAIN dag) BY <1>2
<1>4. PICK D, E : D = decisions[u] /\ E = decisions'[u] OBVIOUS
<1>5. /\ E.initiator = D.initiator /\ E.left = D.left /\ E.right = D.right
      /\ E.choice = D.choice /\ E.triggers = D.triggers
      /\ E = [D EXCEPT !.expected = E.expected]
  BY <1>2, <1>3, <1>4 DEF ApplyTriggers, DecisionType
<1>6. /\ E.expected \in {Unset, LEFT, RIGHT, BOTH} /\ GetDecision(E) \in {{}, PlanChoice(D)}
      /\ D.expected = Unset => GetDecision(E) = PlanChoice(D)
      /\ D.expected = Unset /\ D.triggers = {} => E.expected = Unset
  <2>1. /\ D.expected \in {Unset, LEFT, RIGHT, BOTH} /\ D.choice \in {Unset, LEFT, RIGHT, BOTH}
        /\ D = [D EXCEPT !.expected = D.expected] /\ "expected" \in DOMAIN D
    BY <1>2, <1>4 DEF DecisionType
  <2>2. \A t \in D.triggers : t[2] \in {LEFT, RIGHT} BY <1>2, <1>4 DEF DecisionType
  <2>3. E.expected = ApplyTriggers(D, DOMAIN dag).expected BY <1>3, <1>4
  <2>4. QED BY <1>5, <2>1, <2>2, <2>3, TriggersRight
<1>7. \A d \in DOMAIN tree \ {u} : decisions'[d] = decisions[d] BY DEF PlannedTree, DecisionOK
<1>8. SameDecisions BY <1>4, <1>5, <1>7 DEF SameDecisions
<1>9. u.kind = "create_or_download" => D.expected = Unset /\ D.triggers = {}
  BY <1>1, <1>4 DEF DecisionOK
<1>10. u.kind \in {"build_or_download", "create_or_download"} BY DEF IsDecision
<1>11. QED BY <1>4, <1>5, <1>6, <1>7, <1>8, <1>9, <1>10

LEMMA VisitDecisionStep ==
  ASSUME ScheduleInv, NEW u, VisitDecision(u)
  PROVE  ScheduleInv'
<1>1. /\ Iterating(u) /\ u \notin Handled /\ u \in DOMAIN tree /\ u \notin Seen
      /\ Seen' = Seen \cup {u} /\ remaining' = remaining \ {u} /\ UNCHANGED <<tree, resolver>>
  BY IteratingFacts DEF VisitDecision
<1>2. IsDecision(u) /\ ~Late(u) /\ ~IsPlain(u) /\ u # Root BY KindsApart DEF VisitDecision
<1>3. NextVertex(u) /\ UNCHANGED <<pc, dag, uploads>> BY DEF VisitDecision
<1>4. OrderOK' /\ UploadsOK' /\ Handled' = Handled \cup {u} BY <1>2, <1>3, OrderStays
<1>5. PlannedTree /\ OrderOK /\ VoicesOK /\ DagOK /\ DecidedOK /\ u \in remaining
  BY <1>1 DEF Iterating, NextVertex
<1>6. /\ SameDecisions /\ DOMAIN decisions' = DOMAIN decisions
      /\ decisions'[u].expected \in {Unset, LEFT, RIGHT, BOTH}
      /\ decisions'[u] = [decisions[u] EXCEPT !.expected = decisions'[u].expected]
      /\ u.kind = "create_or_download" => decisions'[u].expected = Unset
      /\ \/ GetDecision(decisions'[u]) = PlanChoice(decisions[u])
         \/ GetDecision(decisions'[u]) = {} /\ u.kind = "build_or_download"
      /\ \A d \in DOMAIN tree \ {u} : decisions'[d] = decisions[d]
  BY <1>1, <1>2, <1>5, ChangedDecision DEF VisitDecision
<1>7. \A D, E : /\ E.left = D.left /\ E.right = D.right /\ E.choice = D.choice
                /\ E.triggers = D.triggers
                => PlanChoice(E) = PlanChoice(D)
  BY DEF PlanChoice
<1>8. \A d : PlanChoice(decisions[d])' = PlanChoice(decisions'[d]) BY <1>3 DEF PlanChoice
<1>9. PlannedTree'
  <2>1. ASSUME NEW d \in DOMAIN tree, IsDecision(d) PROVE DecisionOK(d)'
    <3>1. DecisionOK(d) BY <1>5, <2>1 DEF PlannedTree
    <3>2. decisions'[d] \in [initiator : DOMAIN tree, left : DOMAIN tree, right : DOMAIN tree,
                             choice : {Unset, LEFT, RIGHT, BOTH},
                             expected : {Unset, LEFT, RIGHT, BOTH},
                             triggers : SUBSET ((DOMAIN tree) \X {LEFT, RIGHT})]
      BY <1>6, <3>1 DEF DecisionOK, DecisionType
    <3>3. /\ decisions'[d].initiator = decisions[d].initiator
          /\ decisions'[d].left = decisions[d].left /\ decisions'[d].right = decisions[d].right
          /\ decisions'[d].triggers = decisions[d].triggers
      BY <1>6, <2>1 DEF SameDecisions
    <3>4. Dependents(tree, d)' = Dependents(tree, d) BY <1>1 DEF Dependents
    <3>5. d.kind = "create_or_download" => decisions'[d].expected = Unset
      BY <1>6, <3>1 DEF DecisionOK
    <3>6. QED BY <1>1, <1>6, <3>1, <3>2, <3>3, <3>4, <3>5 DEF DecisionOK, DecisionType
  <2>2. QED BY <1>1, <1>5, <2>1 DEF PlannedTree
<1>10. VoicesOK'
  <2> SUFFICES ASSUME NEW d \in Seen', IsDecision(d)
               PROVE  \/ GetDecision(decisions'[d]) = PlanChoice(decisions'[d])
                      \/ GetDecision(decisions'[d]) = {} /\ d.kind = "build_or_download"
    BY <1>8 DEF VoicesOK, GetDecision
  <2>1. d \in DOMAIN tree BY <1>1 DEF Seen
  <2>2. PlanChoice(decisions'[d]) = PlanChoice(decisions[d])
    BY <1>6, <1>7, <2>1 DEF SameDecisions
  <2>3. CASE d = u BY <1>6, <2>2, <2>3
  <2>4. CASE d # u
    <3>1. decisions'[d] = decisions[d] BY <1>6, <2>1, <2>4
    <3>2. d \in Seen BY <1>1, <2>4
    <3>3. QED BY <1>5, <2>2, <3>1, <3>2 DEF VoicesOK
  <2>5. QED BY <2>3, <2>4
<1>11. ~Wanted(u) BY <1>2 DEF Wanted
<1>12. DagOK' BY <1>1, <1>3, <1>4, <1>5, <1>6, <1>11, DagKept
<1>13. DecidedOK'
  <2> SUFFICES ASSUME NEW v \in Seen', IsPlain(v), DecisionDriven(v)', Undecided(v)'
               PROVE  FALSE
    BY DEF DecidedOK
  <2>1. v \in Seen BY <1>1, <1>2
  <2>2. DecisionDriven(v) /\ Parents(v)' = Parents(v) BY <1>1, ParentsSame
  <2>3. PICK d \in DOMAIN tree : /\ Parents(v) = {d} /\ d \in Dependents(tree, v)
                                 /\ DecisionOf(v) = decisions[d]
    BY <1>5, <2>2, DrivenFacts
  <2>4. d # u BY <1>5, <2>1, <2>3 DEF OrderOK
  <2>5. DecisionOf(v)' = decisions'[d]
    <3>1. (CHOOSE x \in Parents(v)' : TRUE) = d BY <2>2, <2>3
    <3>2. QED BY <3>1 DEF DecisionOf
  <2>6. DecisionOf(v)' = DecisionOf(v) BY <1>6, <2>3, <2>4, <2>5
  <2>7. Undecided(v) BY <1>1, <1>3, <2>6 DEF Undecided, Resolve, GetDecision
  <2>8. QED BY <1>5, <2>1, <2>2, <2>7 DEF DecidedOK
<1>14. pc' = "iterate" BY <1>3 DEF NextVertex
<1>15. QED BY <1>4, <1>9, <1>10, <1>12, <1>13, <1>14 DEF ScheduleInv

LEMMA VisitUploadStep ==
  ASSUME ScheduleInv, NEW u, VisitUpload(u)
  PROVE  ScheduleInv'
<1>1. /\ Iterating(u) /\ u \notin Handled /\ u \in DOMAIN tree /\ u \notin Seen
      /\ u \notin ToSet(uploads) /\ \A v \in Handled : ~Late(v)
      /\ Seen' = Seen \cup {u} /\ remaining' = remaining \ {u} /\ UNCHANGED <<tree, resolver>>
  BY IteratingFacts DEF VisitUpload
<1>2. Late(u) /\ ~IsDecision(u) /\ ~IsPlain(u) BY KindsApart DEF VisitUpload
<1>3. NextVertex(u) /\ UNCHANGED <<pc, dag, decisions>> BY DEF VisitUpload
<1>4. /\ PlannedTree /\ OrderOK /\ UploadsOK /\ VoicesOK /\ DagOK /\ DecidedOK
      /\ u \in remaining /\ Dependents(tree, u) \cap remaining = {} /\ pc = "iterate"
  BY <1>1 DEF Iterating, NextVertex
<1>5. /\ uploads \in Seq(DOMAIN tree) /\ uploads' \in Seq(DOMAIN tree)
      /\ Len(uploads') = Len(uploads) + 1 /\ uploads'[Len(uploads) + 1] = u
      /\ \A i \in 1..Len(uploads) : uploads'[i] = uploads[i]
  BY <1>1, <1>4 DEF OrderOK, VisitUpload
<1>6. ToSet(uploads') = ToSet(uploads) \cup {u}
  <2>1. ToSet(uploads') \subseteq ToSet(uploads) \cup {u} BY <1>5 DEF ToSet
  <2>2. ToSet(uploads) \subseteq ToSet(uploads') BY <1>5 DEF ToSet
  <2>3. u \in ToSet(uploads') BY <1>5 DEF ToSet
  <2>4. QED BY <2>1, <2>2, <2>3
<1>7. Handled' = Handled BY <1>1, <1>6 DEF Handled
<1>8. OrderOK'
  <2>1. \A v \in Seen' : Dependents(tree, v)' \cap remaining' = {}
    BY <1>1, <1>4 DEF OrderOK, Dependents
  <2>2. QED BY <1>1, <1>3, <1>4, <1>5, <2>1 DEF OrderOK
<1>9. UploadsOK'
  <2>1. \A i \in 1..Len(uploads') : Late(uploads'[i]) /\ uploads'[i] \in Seen'
    BY <1>1, <1>2, <1>4, <1>5 DEF UploadsOK
  <2>2. \A v \in Seen \cup {u} : v \notin tree[u]
    BY <1>4, DependentsMember DEF OrderOK
  <2>3. ASSUME NEW i \in 1..Len(uploads'), NEW j \in 1..Len(uploads'), i <= j
        PROVE  /\ i < j => uploads'[i] # uploads'[j]
               /\ uploads'[i] \notin tree[uploads'[j]]
    <3>1. CASE j = Len(uploads) + 1
      <4>1. uploads'[j] = u BY <1>5, <3>1
      <4>2. i < j => uploads'[i] \in Seen BY <1>4, <1>5, <3>1 DEF UploadsOK
      <4>3. i = j => uploads'[i] = u BY <4>1
      <4>4. i < j \/ i = j BY <2>3
      <4>5. QED BY <1>1, <2>2, <4>1, <4>2, <4>3, <4>4
    <3>2. CASE j # Len(uploads) + 1
      <4>1. i \in 1..Len(uploads) /\ j \in 1..Len(uploads) BY <1>5, <2>3, <3>2
      <4>2. QED BY <1>4, <1>5, <2>3, <4>1 DEF UploadsOK
    <3>3. QED BY <3>1, <3>2
  <2>4. QED BY <1>1, <1>7, <2>1, <2>3 DEF UploadsOK
<1>10. PlannedTree' /\ VoicesOK' /\ DecidedOK'
  <2>1. DOMAIN dag' = DOMAIN dag BY <1>3
  <2>2. \A d \in Seen : IsDecision(d) => \A t \in decisions[d].triggers : t[1] # u
    <3> SUFFICES ASSUME NEW d \in Seen, IsDecision(d)
                 PROVE  \A t \in decisions[d].triggers : t[1] # u
      OBVIOUS
    <3>1. d \in DOMAIN tree BY DEF Seen
    <3>2. \A v \in Seen \cup {d} : Dependents(tree, v) \cap remaining = {}
      BY <1>4 DEF OrderOK
    <3>3. QED BY <1>1, <1>4, <3>1, <3>2, SeenDecision
  <2>3. \A v \in Seen \cup {u} : DecisionDriven(v) => DecisionOf(v).initiator # u
    BY <1>4, SeenApart
  <2>4. remaining' \subseteq remaining BY <1>1
  <2>5. QED BY <1>1, <1>2, <1>3, <1>4, <2>1, <2>2, <2>3, <2>4, DecisionsStay
<1>11. DagOK'
  <2>1. SameDecisions BY <1>3 DEF SameDecisions
  <2>2. QED BY <1>1, <1>3, <1>4, <1>7, <2>1, DagKept
<1>12. QED BY <1>3, <1>4, <1>8, <1>9, <1>10, <1>11 DEF ScheduleInv

LEMMA StartStep ==
  ASSUME ScheduleInv, NEW r \in Resolvers, StartSchedule(r)
  PROVE  ScheduleInv'
<1>1. /\ PlannedTree /\ UNCHANGED <<tree, decisions>> /\ pc' \in {"error", "iterate"}
      /\ remaining' = DOMAIN tree /\ dag' = <<>> /\ uploads' = <<>> /\ resolver' = r
  BY DEF ScheduleInv, StartSchedule
<1>2. PlannedTree' BY <1>1 DEF PlannedTree, DecisionOK, DecisionType, Dependents
<1>3. Seen' = {} /\ Handled' = {} BY <1>1 DEF Seen, Handled
<1>4. pc' = "iterate" => OrderOK' BY <1>1, <1>3 DEF OrderOK
<1>5. UploadsOK' BY <1>1, <1>3 DEF UploadsOK
<1>6. VoicesOK' BY <1>3 DEF VoicesOK
<1>7. DagOK' BY <1>1, <1>3 DEF DagOK
<1>8. DecidedOK' BY <1>3 DEF DecidedOK
<1>9. QED BY <1>1, <1>2, <1>4, <1>5, <1>6, <1>7, <1>8 DEF ScheduleInv

LEMMA RaiseStep ==
  ASSUME ScheduleInv, NEW u, RaiseUndecided(u)
  PROVE  ScheduleInv'
<1>1. PlannedTree /\ UNCHANGED <<tree, decisions>> /\ pc' = "error"
  BY DEF ScheduleInv, RaiseUndecided, NextVertex
<1>2. PlannedTree' BY <1>1 DEF PlannedTree, DecisionOK, DecisionType, Dependents
<1>3. QED BY <1>1, <1>2 DEF ScheduleInv

\* Nothing but pc changes, or nothing at all.
LEMMA StillStep ==
  ASSUME ScheduleInv, UNCHANGED <<tree, decisions, resolver, localVars>>,
         \/ pc' = pc
         \/ pc = "iterate" /\ remaining = {} /\ pc' = "uploads"
         \/ pc = "uploads" /\ uploads = <<>> /\ pc' = "scheduled"
  PROVE  ScheduleInv'
<1>1. UNCHANGED <<tree, decisions, resolver, remaining, dag, uploads>> BY DEF localVars
<1>2. PlannedTree' BY <1>1 DEF ScheduleInv, PlannedTree, DecisionOK, DecisionType, Dependents
<1>4. ASSUME pc' \in {"iterate", "uploads", "scheduled"}
      PROVE  OrderOK' /\ UploadsOK' /\ VoicesOK' /\ DagOK' /\ DecidedOK'
  <2>1. OrderOK /\ UploadsOK /\ VoicesOK /\ DagOK /\ DecidedOK
    BY <1>4 DEF ScheduleInv
  <2>2. PlannedTree BY DEF ScheduleInv
  <2>3. Seen' = Seen /\ Handled' = Handled BY <1>1 DEF Seen, Handled
  <2>4. OrderOK'
    <3>1. \A v : Dependents(tree, v)' = Dependents(tree, v) BY <1>1 DEF Dependents
    <3>2. QED BY <1>1, <1>4, <2>1, <2>3, <3>1 DEF OrderOK
  <2>5. UploadsOK' BY <1>1, <1>4, <2>1, <2>3 DEF UploadsOK
  <2>6. VoicesOK' BY <1>1, <2>1, <2>3 DEF VoicesOK, GetDecision, PlanChoice
  <2>7. SameDecisions BY <1>1 DEF SameDecisions
  <2>8. DagOK'
    <3>1. PICK w : w = Root OBVIOUS
    <3>2. QED BY <1>1, <2>1, <2>2, <2>3, <2>7, <3>1, DagKept
  <2>9. DecidedOK'
    <3> SUFFICES ASSUME NEW v \in Seen, IsPlain(v), DecisionDriven(v)', Undecided(v)'
                 PROVE  FALSE
      BY <2>3 DEF DecidedOK
    <3>1. DecisionDriven(v) /\ Parents(v)' = Parents(v) BY <1>1, ParentsSame
    <3>2. DecisionOf(v)' = DecisionOf(v) BY <1>1, <3>1 DEF DecisionOf
    <3>3. Undecided(v) BY <1>1, <3>2 DEF Undecided, Resolve, GetDecision
    <3>4. QED BY <2>1, <3>1, <3>3 DEF DecidedOK
  <2>10. QED BY <2>4, <2>5, <2>6, <2>8, <2>9
<1>5. QED BY <1>2, <1>4 DEF ScheduleInv

\* The last upload is taken.
LEMMA AddUploadFacts ==
  ASSUME ScheduleInv, AddUpload, NEW w, w = uploads[Len(uploads)]
  PROVE  /\ PlannedTree /\ OrderOK /\ UploadsOK /\ VoicesOK /\ DagOK /\ DecidedOK
         /\ pc = "uploads" /\ remaining = {} /\ Seen = DOMAIN tree
         /\ UNCHANGED <<tree, decisions, pc, resolver, remaining>>
         /\ dag' = WithUpload(dag, w)
         /\ Late(w) /\ w \in DOMAIN tree /\ w \notin Handled /\ Handled' = Handled \cup {w}
         /\ w \in ToSet(uploads) /\ ToSet(uploads') \subseteq ToSet(uploads)
         /\ \A v \in ToSet(uploads) : v \notin tree[w]
         /\ OrderOK' /\ UploadsOK'
<1>1. /\ PlannedTree /\ OrderOK /\ UploadsOK /\ VoicesOK /\ DagOK /\ DecidedOK
      /\ pc = "uploads" /\ uploads # <<>>
      /\ UNCHANGED <<tree, decisions, pc, resolver, remaining>>
  BY DEF AddUpload, ScheduleInv
<1>2. remaining = {} /\ Seen = DOMAIN tree /\ Seen' = Seen BY <1>1 DEF OrderOK, Seen
<1>3. PICK n \in Nat : n = Len(uploads) /\ n > 0 /\ uploads \in Seq(DOMAIN tree)
  BY <1>1 DEF OrderOK
<1>4. /\ uploads' \in Seq(DOMAIN tree) /\ Len(uploads') = n - 1
      /\ \A i \in 1..(n - 1) : uploads'[i] = uploads[i]
  BY <1>3 DEF AddUpload, Front
<1>5. dag' = WithUpload(dag, w) BY DEF AddUpload, Last
<1>6. Late(w) /\ w \in DOMAIN tree /\ w \in ToSet(uploads)
  BY <1>1, <1>3, <1>2 DEF UploadsOK, ToSet
<1>7. \A v \in ToSet(uploads) : v \notin tree[w]
  BY <1>1, <1>3 DEF UploadsOK, ToSet
<1>8. ToSet(uploads') = ToSet(uploads) \ {w}
  <2>1. \A i \in 1..(n - 1) : uploads[i] # w BY <1>1, <1>3 DEF UploadsOK
  <2>2. ToSet(uploads') \subseteq ToSet(uploads) \ {w} BY <1>3, <1>4, <2>1 DEF ToSet
  <2>3. ASSUME NEW v \in ToSet(uploads), v # w PROVE v \in ToSet(uploads')
    <3>1. PICK i \in 1..n : uploads[i] = v BY <1>3 DEF ToSet
    <3>2. i \in 1..(n - 1) BY <1>3, <2>3, <3>1
    <3>3. QED BY <1>4, <3>1, <3>2 DEF ToSet
  <2>4. QED BY <2>2, <2>3
<1>9. w \notin Handled /\ Handled' = Handled \cup {w}
  BY <1>2, <1>6, <1>8 DEF Handled
<1>10. OrderOK'
  <2>1. \A v : Dependents(tree, v)' = Dependents(tree, v) BY <1>1 DEF Dependents
  <2>2. QED BY <1>1, <1>2, <1>4, <2>1 DEF OrderOK
<1>11. UploadsOK'
  <2>1. \A i \in 1..Len(uploads') : Late(uploads'[i]) /\ uploads'[i] \in Seen'
    BY <1>1, <1>2, <1>3, <1>4 DEF UploadsOK
  <2>2. \A i, j \in 1..Len(uploads') : /\ i < j => uploads'[i] # uploads'[j]
                                       /\ i <= j => uploads'[i] \notin tree[uploads'[j]]
    <3>1. \A i \in 1..Len(uploads') : i \in 1..Len(uploads) /\ uploads'[i] = uploads[i]
      BY <1>3, <1>4
    <3>2. QED BY <1>1, <3>1 DEF UploadsOK
  <2>3. \A v \in Handled' : Late(v) => tree[v] \cap ToSet(uploads') = {}
    BY <1>1, <1>7, <1>8, <1>9 DEF UploadsOK
  <2>4. QED BY <1>1, <2>1, <2>2, <2>3 DEF UploadsOK
<1>12. QED BY <1>1, <1>2, <1>5, <1>6, <1>7, <1>8, <1>9, <1>10, <1>11

\* No decision looks at an upload.
LEMMA LateApart ==
  ASSUME PlannedTree, NEW w, Late(w)
  PROVE  /\ \A d \in DOMAIN tree : IsDecision(d) =>
              /\ decisions[d].initiator # w
              /\ \A t \in decisions[d].triggers : t[1] # w
         /\ \A v : DecisionDriven(v) => /\ DecisionOf(v).initiator # w
                                        /\ \A t \in DecisionOf(v).triggers : t[1] # w
         /\ \A v : ~Late(v) => w \notin Parents(v)
<1>1. ~IsPlain(w) BY KindsApart
<1>2. \A d \in DOMAIN tree : IsDecision(d) =>
        decisions[d].initiator # w /\ \A t \in decisions[d].triggers : t[1] # w
  BY <1>1 DEF PlannedTree, DecisionOK
<1>3. \A v : DecisionDriven(v) => /\ DecisionOf(v).initiator # w
                                 /\ \A t \in DecisionOf(v).triggers : t[1] # w
  BY <1>2, DrivenFacts
<1>4. ASSUME NEW v, w \in Parents(v) PROVE Late(v)
  <2>1. w \in DOMAIN tree /\ v \in tree[w] /\ ~IsUpload(w)
    BY <1>4, DependentsMember DEF Parents
  <2>2. w.kind = "check_virus" BY <2>1 DEF Late
  <2>3. QED BY <2>1, <2>2 DEF PlannedTree
<1>5. QED BY <1>2, <1>3, <1>4

LEMMA AddUploadStep == ScheduleInv /\ AddUpload => ScheduleInv'
<1> SUFFICES ASSUME ScheduleInv, AddUpload PROVE ScheduleInv' OBVIOUS
<1>1. PICK w : w = uploads[Len(uploads)] OBVIOUS
<1>2. /\ PlannedTree /\ OrderOK /\ UploadsOK /\ VoicesOK /\ DagOK /\ DecidedOK
      /\ pc = "uploads" /\ remaining = {} /\ Seen = DOMAIN tree
      /\ UNCHANGED <<tree, decisions, pc, resolver, remaining>>
      /\ dag' = WithUpload(dag, w)
      /\ Late(w) /\ w \in DOMAIN tree /\ w \notin Handled /\ Handled' = Handled \cup {w}
      /\ w \in ToSet(uploads) /\ ToSet(uploads') \subseteq ToSet(uploads)
      /\ \A v \in ToSet(uploads) : v \notin tree[w]
      /\ OrderOK' /\ UploadsOK'
  BY <1>1, AddUploadFacts
<1>3. ~IsDecision(w) /\ ~IsPlain(w) /\ w # Root BY <1>2, KindsApart
<1>4. Wanted(w) <=> tree[w] \subseteq DOMAIN dag BY <1>2, <1>3 DEF Wanted
<1>5. /\ \A d \in DOMAIN tree : IsDecision(d) =>
           /\ decisions[d].initiator # w
           /\ \A t \in decisions[d].triggers : t[1] # w
      /\ \A v : DecisionDriven(v) => /\ DecisionOf(v).initiator # w
                                     /\ \A t \in DecisionOf(v).triggers : t[1] # w
      /\ \A v : ~Late(v) => w \notin Parents(v)
  BY <1>2, LateApart
<1>6. \A v \in Handled \cup {w} : ApartFrom(v, w)
  BY <1>2, <1>5 DEF ApartFrom, UploadsOK
<1>7. SameDecisions BY <1>2 DEF SameDecisions
<1>8. Root \in DOMAIN dag
  <2>1. Root \in Seen /\ Root \notin ToSet(uploads)
    BY <1>2, RootFacts DEF PlannedTree, UploadsOK, ToSet, OrderOK
  <2>2. Wanted(Root) BY DEF Wanted
  <2>3. QED BY <1>2, <2>1, <2>2 DEF DagOK, Handled
<1>9. \A v \in DOMAIN dag : Leads(v, w) <=> v = Root /\ w \in tree[Root]
  <2> SUFFICES ASSUME NEW v \in DOMAIN dag, w \in tree[v] PROVE v = Root
    BY <1>3 DEF Leads
  <2>1. v \in Handled /\ v \in DOMAIN tree BY <1>2 DEF DagOK, Handled
  <2>2. ~Late(v) BY <1>2, <2>1 DEF UploadsOK
  <2>3. QED BY <1>2, <2>1, <2>2 DEF PlannedTree
<1>10. \A p : Leads(w, p) <=> p \in tree[w] BY <1>5 DEF Leads
<1>11. w \notin DOMAIN dag BY <1>2 DEF DagOK
<1>12. ASSUME tree[w] \subseteq DOMAIN dag
       PROVE  DagOK' /\ DOMAIN dag' = DOMAIN dag \cup {w}
  <2>1. PICK E : E = ({w} \X tree[w]) \cup ({Root} \X ({w} \cap tree[Root])) OBVIOUS
  <2>2. dag' = Extended(dag, {w}, E) BY <1>2, <1>12, <2>1 DEF WithUpload
  <2>3. /\ DOMAIN dag' = DOMAIN dag \cup {w}
        /\ \A v \in DOMAIN dag \cup {w} :
             dag'[v] = (IF v \in DOMAIN dag THEN dag[v] ELSE {}) \cup Targets(E, v)
    BY <2>2 DEF Extended
  <2>4. \A e : e \in E <=> \/ e \in {w} \X tree[w]
                           \/ e \in {Root} \X ({w} \cap tree[Root])
    BY <2>1
  <2>5. Targets(E, w) = tree[w]
    <3>1. \A p \in tree[w] : <<w, p>> \in E BY <2>4
    <3>2. tree[w] \subseteq Targets(E, w)
      <4> SUFFICES ASSUME NEW p \in tree[w] PROVE p \in Targets(E, w) OBVIOUS
      <4>1. <<w, p>> \in E /\ <<w, p>>[1] = w /\ <<w, p>>[2] = p BY <3>1
      <4>2. QED BY <4>1 DEF Targets
    <3>3. \A e \in E : e[1] = w => e[2] \in tree[w] BY <1>3, <2>4
    <3>4. QED BY <3>2, <3>3 DEF Targets
  <2>6. Targets(E, Root) = {w} \cap tree[Root]
    <3>1. {w} \cap tree[Root] \subseteq Targets(E, Root)
      <4> SUFFICES ASSUME NEW p \in {w} \cap tree[Root] PROVE p \in Targets(E, Root) OBVIOUS
      <4>1. <<Root, p>> \in E /\ <<Root, p>>[1] = Root /\ <<Root, p>>[2] = p BY <2>4
      <4>2. QED BY <4>1 DEF Targets
    <3>2. \A e \in E : e[1] = Root => e[2] \in {w} \cap tree[Root] BY <1>3, <2>4
    <3>3. QED BY <3>1, <3>2 DEF Targets
  <2>7. \A v : v # w /\ v # Root => Targets(E, v) = {}
    <3>1. \A e \in E : e[1] \in {w, Root} BY <2>4
    <3>2. QED BY <3>1 DEF Targets
  <2>8. dag'[w] = {p \in DOMAIN dag : Leads(w, p)} BY <1>10, <1>11, <1>12, <2>3, <2>5
  <2>9. ~Leads(w, w) BY <1>10, <1>11, <1>12
  <2>10. ASSUME NEW v \in DOMAIN dag
         PROVE  dag'[v] = dag[v] \cup (IF Leads(v, w) THEN {w} ELSE {})
    <3>1. dag'[v] = dag[v] \cup Targets(E, v) BY <2>3
    <3>2. Targets(E, v) = IF Leads(v, w) THEN {w} ELSE {}
      BY <1>9, <1>11, <2>6, <2>7
    <3>3. QED BY <3>1, <3>2
  <2>11. DagOK'
    BY <1>2, <1>4, <1>6, <1>7, <1>12, <2>3, <2>8, <2>9, <2>10, DagGrows
  <2>12. QED BY <2>3, <2>11
<1>13. ASSUME ~(tree[w] \subseteq DOMAIN dag)
       PROVE  DagOK' /\ DOMAIN dag' = DOMAIN dag
  <2>1. dag' = dag BY <1>2, <1>13 DEF WithUpload
  <2>2. DagOK' BY <1>2, <1>4, <1>7, <1>13, <2>1, DagKept
  <2>3. QED BY <2>1, <2>2
<1>14. DagOK' /\ (DOMAIN dag' = DOMAIN dag \/ DOMAIN dag' = DOMAIN dag \cup {w})
  BY <1>12, <1>13
<1>15. PlannedTree' /\ VoicesOK' /\ DecidedOK'
  <2>1. Seen' = Seen /\ w \in Seen /\ remaining' \subseteq remaining BY <1>2 DEF Seen
  <2>2. \A d \in Seen : IsDecision(d) => \A t \in decisions[d].triggers : t[1] # w
    BY <1>2, <1>5
  <2>3. \A v \in Seen' : DecisionDriven(v) => DecisionOf(v).initiator # w BY <1>5
  <2>4. QED BY <1>2, <1>14, <2>1, <2>2, <2>3, DecisionsStay
<1>16. QED BY <1>2, <1>14, <1>15 DEF ScheduleInv

LEMMA ScheduleStep == ScheduleInv /\ ScheduleNext => ScheduleInv'
<1> SUFFICES ASSUME ScheduleInv, ScheduleNext PROVE ScheduleInv' OBVIOUS
<1>1. ASSUME NEW r \in Resolvers, StartSchedule(r) PROVE ScheduleInv' BY <1>1, StartStep
<1>2. CASE VisitRoot BY <1>2, VisitRootStep
<1>3. ASSUME NEW u \in remaining, Visit(u) PROVE ScheduleInv'
  <2>1. CASE VisitDecision(u) BY <2>1, VisitDecisionStep
  <2>2. CASE VisitUpload(u) BY <2>2, VisitUploadStep
  <2>3. CASE VisitChoice(u) BY <2>3, VisitChoiceStep
  <2>4. CASE RaiseUndecided(u) BY <2>4, RaiseStep
  <2>5. CASE VisitAction(u) BY <2>5, VisitActionStep
  <2>6. QED BY <1>3, <2>1, <2>2, <2>3, <2>4, <2>5 DEF Visit
<1>4. CASE EndIteration BY <1>4, StillStep DEF EndIteration
<1>5. CASE AddUpload BY <1>5, AddUploadStep
<1>6. CASE Return BY <1>6, StillStep DEF Return
<1>7. QED BY <1>1, <1>2, <1>3, <1>4, <1>5, <1>6 DEF ScheduleNext

\* All has been handled once schedule returns.
LEMMA ScheduledFacts ==
  ASSUME ScheduleInv, pc = "scheduled"
  PROVE  /\ PlannedTree /\ VoicesOK /\ DagOK /\ DecidedOK /\ resolver \in Resolvers
         /\ Seen = DOMAIN tree /\ Handled = DOMAIN tree
<1>1. OrderOK /\ PlannedTree /\ VoicesOK /\ DagOK /\ DecidedOK BY DEF ScheduleInv
<1>2. remaining = {} /\ uploads = <<>> /\ resolver \in Resolvers BY <1>1 DEF OrderOK
<1>3. ToSet(uploads) = {} BY <1>2 DEF ToSet
<1>4. Seen = DOMAIN tree BY <1>2 DEF Seen
<1>5. Handled = DOMAIN tree BY <1>3, <1>4 DEF Handled
<1>6. QED BY <1>1, <1>2, <1>4, <1>5

LEMMA ExactOnceScheduled == ScheduleInv => ScheduleIsExact
<1> SUFFICES ASSUME ScheduleInv, pc = "scheduled"
             PROVE  /\ DOMAIN dag = {u \in DOMAIN tree : Wanted(u)}
                    /\ \A u \in DOMAIN dag :
                         dag[u] = {p \in DOMAIN dag : Leads(u, p)}
  BY DEF ScheduleIsExact, Leads
<1>1. QED BY ScheduledFacts DEF DagOK

\* An action of a decision that nothing else leads to.
LEMMA SidesFacts ==
  ASSUME PlannedTree, NEW p \in DOMAIN tree, IsDecision(p),
         NEW c \in {decisions[p].left, decisions[p].right}, Parents(c) = {p}
  PROVE  /\ c \in DOMAIN tree /\ IsPlain(c) /\ DecisionDriven(c)
         /\ DecisionOf(c) = decisions[p]
<1>1. DecisionOK(p) BY DEF PlannedTree
<1>2. Parents(c) = {p} OBVIOUS
<1>3. c \in DOMAIN tree /\ c \in tree[p] /\ c # Root BY <1>1 DEF DecisionOK, PlannedTree
<1>4. DecisionDriven(c) /\ DecisionOf(c) = decisions[p]
  <2>1. (CHOOSE v \in Parents(c) : TRUE) = p BY <1>2
  <2>2. QED BY <1>2, <2>1 DEF DecisionDriven, DecisionOf
<1>5. ~Late(c) BY <1>3, KindsApart DEF PlannedTree
<1>6. ~IsDecision(c)
  <2> SUFFICES ASSUME IsDecision(c) PROVE FALSE OBVIOUS
  <2>1. Dependents(tree, c) = {decisions[c].initiator} /\ IsPlain(decisions[c].initiator)
    BY <1>3 DEF PlannedTree, DecisionOK
  <2>2. p \in Dependents(tree, c) BY <1>3, DependentsMember
  <2>3. QED BY <2>1, <2>2, KindsApart
<1>7. QED BY <1>3, <1>4, <1>5, <1>6 DEF IsPlain

LEMMA OneSideTaken ==
  ASSUME ScheduleInv, pc = "scheduled", NEW u \in DOMAIN dag, NEW p \in tree[u],
         IsDecision(p), DecidesAlone(p)
  PROVE  DecisionTaken(u, p)
<1>1. /\ PlannedTree /\ VoicesOK /\ DagOK /\ DecidedOK /\ resolver \in Resolvers
      /\ Seen = DOMAIN tree /\ Handled = DOMAIN tree
  BY ScheduledFacts
<1>2. u \in DOMAIN tree /\ p \in DOMAIN tree BY <1>1 DEF DagOK, PlannedTree
<1>3. DecisionOK(p) BY <1>1, <1>2 DEF PlannedTree
<1>4. decisions[p].initiator = u BY <1>2, <1>3, DependentsMember DEF DecisionOK
<1>5. PICK l, r : l = decisions[p].left /\ r = decisions[p].right OBVIOUS
<1>6. \A c \in {l, r} : /\ c \in DOMAIN tree /\ IsPlain(c) /\ DecisionDriven(c)
                        /\ DecisionOf(c) = decisions[p]
  BY <1>1, <1>2, <1>5, SidesFacts DEF DecidesAlone
<1>7. PICK G : G = GetDecision(decisions[p]) OBVIOUS
<1>8. \A c \in {l, r} : G = {} => Resolve(c) # {}
  BY <1>1, <1>4, <1>6, <1>7 DEF DecidedOK, Undecided
<1>9. G = PlanChoice(decisions[p])
  <2>1. p.kind = "build_or_download" => Resolve(l) = {}
    BY <1>3, <1>5 DEF DecisionOK, Resolve
  <2>2. QED BY <1>1, <1>2, <1>7, <1>8, <2>1 DEF VoicesOK
<1>10. \A c \in {l, r} : c \in dag[u] <=> G = {c} \/ (G = {} /\ Resolve(c) = {TRUE})
  <2> SUFFICES ASSUME NEW c \in {l, r}
               PROVE  c \in dag[u] <=> G = {c} \/ (G = {} /\ Resolve(c) = {TRUE})
    OBVIOUS
  <2>1. /\ c \in DOMAIN tree /\ IsPlain(c) /\ DecisionDriven(c)
        /\ DecisionOf(c) = decisions[p]
    BY <1>6
  <2>2. Leads(u, c) BY <1>4, <2>1 DEF Leads
  <2>3. c \in dag[u] <=> c \in DOMAIN dag BY <1>1, <2>2 DEF DagOK
  <2>4. c \in DOMAIN dag <=> Wanted(c) BY <1>1, <2>1 DEF DagOK
  <2>5. Wanted(c) <=> G = {c} \/ (G = {} /\ Resolve(c) = {TRUE})
    BY <1>4, <1>9, <2>1, KindsApart DEF Wanted
  <2>6. QED BY <2>3, <2>4, <2>5
<1>11. l # r BY <1>3, <1>5 DEF DecisionOK, IsDecision
<1>12. G \in {{}, {l}, {r}} BY <1>5, <1>7 DEF GetDecision
<1>13. \E c \in {l, r} : dag[u] \cap {l, r} = {c}
  <2>1. CASE G = {l} BY <1>10, <1>11, <2>1
  <2>2. CASE G = {r} BY <1>10, <1>11, <2>2
  <2>3. CASE G = {}
    <3>1. l.kind \in {"source", "download"} BY <1>8, <2>3 DEF Resolve
    <3>2. p.kind = "create_or_download" BY <1>3, <1>5, <3>1 DEF DecisionOK, IsDecision
    <3>3. l.kind = "source" /\ r.kind = "download" BY <1>3, <1>5, <3>2 DEF DecisionOK
    <3>4. Resolve(l) = {resolver = "create"} /\ Resolve(r) = {resolver = "download"}
      BY <3>3 DEF Resolve
    <3>5. resolver \in {"download", "create"} BY <1>1, ResolversAssumption
    <3>6. CASE resolver = "create"
      <4>1. Resolve(l) = {TRUE} /\ Resolve(r) # {TRUE} BY <3>4, <3>6
      <4>2. QED BY <1>10, <1>11, <2>3, <4>1
    <3>7. CASE resolver = "download"
      <4>1. Resolve(r) = {TRUE} /\ Resolve(l) # {TRUE} BY <3>4, <3>7
      <4>2. QED BY <1>10, <1>11, <2>3, <4>1
    <3>8. QED BY <3>5, <3>6, <3>7
  <2>4. QED BY <1>12, <2>1, <2>2, <2>3
<1>14. QED BY <1>5, <1>13, FS_Singleton DEF DecisionTaken

LEMMA NeededOnceScheduled == ScheduleInv => NeedsScheduled
<1> SUFFICES ASSUME ScheduleInv, pc = "scheduled", NEW u \in DOMAIN dag, NEW p \in tree[u]
             PROVE  /\ IsDecision(p) /\ DecidesAlone(p) => DecisionTaken(u, p)
                    /\ ~IsDecision(p) /\ (u # Root \/ IsPlain(p)) => p \in dag[u]
  BY DEF NeedsScheduled
<1>1. /\ PlannedTree /\ DagOK /\ Handled = DOMAIN tree BY ScheduledFacts
<1>2. u \in DOMAIN tree /\ Wanted(u) /\ ~IsDecision(u) /\ p \in DOMAIN tree /\ p # Root
  <2>1. u \in DOMAIN tree /\ Wanted(u) BY <1>1 DEF DagOK
  <2>2. ~IsDecision(u) BY <2>1, KindsApart DEF Wanted
  <2>3. p \in DOMAIN tree /\ p # Root BY <1>1, <2>1 DEF PlannedTree
  <2>4. QED BY <2>1, <2>2, <2>3
<1>3. Leads(u, p) BY DEF Leads
<1>4. ASSUME ~IsDecision(p), u # Root \/ IsPlain(p) PROVE p \in DOMAIN dag
  <2>1. CASE Late(u)
    <3>1. tree[u] \subseteq DOMAIN dag BY <1>2, <2>1, KindsApart DEF Wanted
    <3>2. QED BY <3>1
  <2>2. CASE ~Late(u)
    <3>1. ~Late(p) BY <1>1, <1>2, <1>4, <2>2, KindsApart DEF PlannedTree
    <3>2. IsPlain(p) BY <1>2, <1>4, <3>1, KindsApart
    <3>3. u \in Parents(p) BY <1>2, <2>2, DependentsMember DEF Parents, Late
    <3>4. ~DecisionDriven(p) BY <1>2, <3>3 DEF DecisionDriven
    <3>5. Wanted(p) BY <3>2, <3>3, <3>4 DEF Wanted
    <3>6. QED BY <1>1, <1>2, <3>5 DEF DagOK
  <2>3. QED BY <2>1, <2>2
<1>5. ~IsDecision(p) /\ (u # Root \/ IsPlain(p)) => p \in dag[u]
  BY <1>1, <1>3, <1>4 DEF DagOK
<1>6. QED BY <1>5, OneSideTaken

----------------------------------------------------------------------------
(* AnodContext.                                                            *)

Prim == {"build", "install", "test", "source"}

\* What add_spec may return.
Results ==
  {Build(s) : s \in Spec} \cup {Install(s) : s \in Spec} \cup {Test(s) : s \in Spec}
    \cup {CreateSources(s) : s \in Spec} \cup {CreateSource(s, x) : s \in Spec, x \in Source}

ArgType ==
  [spec : Spec, prim : Prim, source : Source \cup {NoItem}, line : Lines \cup {NoLine},
   expand : BOOLEAN, force : BOOLEAN, upload : BOOLEAN]

DepType == [name : Spec, kind : {"build", "install", "download", "test", "source"}]

Calls ==
  [do : {"add_spec", "decide_install"}, args : ArgType]
    \cup [do : {"connect", "return"}, uid : Results]
    \cup [do : {"dependency", "join"}, args : ArgType, dep : DepType]
    \cup [do : {"source_need", "source_build"}, args : ArgType, source : Source]
    \cup [do : {"decide_source"}, source : Source]
    \cup [do : {"end_line"}, line : Lines]

\* What looks at what a call has returned, and what it may be.
Consumers == {"join", "connect", "decide_install", "decide_source", "end_line"}

Takes(e, r) ==
  /\ r \in Results
  /\ e.do = "decide_install" => r = Build(e.args.spec)
  /\ e.do = "decide_source" => r.kind = "source"
  /\ e.do = "end_line" /\ e.line.prim = "build" =>
       r \in {Build(e.line.spec), Install(e.line.spec)} /\ HasPrimitive(e.line.spec, "build")

\* The call of add_spec returns what e may take.
Aims(a, e) ==
  /\ e.do = "decide_install" => a.prim = "build" /\ ~a.expand /\ a.spec = e.args.spec
  /\ e.do = "decide_source" => a.prim = "source" /\ a.source # NoItem
  /\ e.do = "end_line" /\ e.line.prim = "build" =>
       /\ a.spec = e.line.spec
       /\ a.prim = "build" \/ (a.prim = "install" /\ HasPrimitive(a.spec, "build"))

Answers(c, e) ==
  \/ c.do = "return" /\ Takes(e, c.uid)
  \/ c.do = "add_spec" /\ Aims(c.args, e)

Grown(D, a) == ResultOf(a) \in D /\ (a.source # NoItem <=> a.prim = "source")

\* What is to be done is about what is in the tree, whose actions are D; a
\* decision is not there before it is decided.
CallOK(D, c) ==
  /\ c.do = "add_spec" /\ c.args.source # NoItem => c.args.prim = "source"
  /\ c.do = "source_build" => /\ c.args.prim = "source" /\ CreateSources(c.args.spec) \in D
  /\ c.do \in {"connect", "return"} => c.uid \in D
  /\ c.do \in {"dependency", "join", "source_need"} => Grown(D, c.args)
  /\ c.do = "decide_install" =>
       /\ {Install(c.args.spec), DownloadBinary(c.args.spec)} \subseteq D
       /\ DecisionBelow(Install(c.args.spec)) \notin D
  /\ c.do = "decide_source" =>
       /\ {GetSource(c.source), DownloadSource(c.source)} \subseteq D
       /\ DecisionBelow(GetSource(c.source)) \notin D

Apart(c, e) ==
  /\ c.do = "decide_install" /\ e.do = "decide_install" => c.args.spec # e.args.spec
  /\ c.do = "decide_source" /\ e.do = "decide_source" => c.source # e.source

CallsOK ==
  /\ todo # <<>>
  /\ \A i \in 1..Len(todo) :
       CallOK(DOMAIN tree, todo[i]) /\ (todo[i].do = "end_line" <=> i = Len(todo))
  /\ todo[1].do \in Consumers => returned \in DOMAIN tree /\ Takes(todo[1], returned)
  /\ \A i \in 1..(Len(todo) - 1) :
       todo[i + 1].do \in Consumers => Answers(todo[i], todo[i + 1])
  /\ \A i, j \in 1..Len(todo) : i # j => Apart(todo[i], todo[j])

DecisionPending(s) ==
  \E i \in 1..Len(todo) : todo[i].do = "decide_install" /\ todo[i].args.spec = s

SourcesOK == DOMAIN sources \subseteq Source /\ \A x \in DOMAIN sources : sources[x] \in Spec

\* What is installed and can be built is built below a decision.
BuildsOK ==
  \A s \in Spec : Install(s) \in DOMAIN tree /\ HasPrimitive(s, "build") =>
                    Build(s) \in DOMAIN tree \/ DecisionPending(s)

PlanInv ==
  /\ PlannedTree
  /\ SourcesOK
  /\ todo \in Seq(Calls)
  /\ pc = "adding" => CallsOK
  /\ pc \notin {"adding", "failed"} => todo = <<>>
  /\ pc # "failed" => BuildsOK

----------------------------------------------------------------------------

LEMMA CallFacts ==
  ASSUME NEW c \in Calls
  PROVE  /\ c.do \in {"add_spec", "decide_install", "connect", "return", "dependency", "join",
                      "source_need", "source_build", "decide_source", "end_line"}
         /\ c.do \in {"add_spec", "decide_install", "dependency", "join", "source_need",
                      "source_build"} => c.args \in ArgType
         /\ c.do \in {"connect", "return"} => c.uid \in Results
         /\ c.do \in {"dependency", "join"} => c.dep \in DepType
         /\ c.do \in {"source_need", "source_build", "decide_source"} => c.source \in Source
         /\ c.do = "end_line" => c.line \in Lines
BY DEF Calls

LEMMA CallTypes ==
  /\ \A a \in ArgType : AddSpec(a) \in Calls /\ DecideInstall(a) \in Calls
  /\ \A u \in Results : ConnectBelow(u) \in Calls /\ ReturnOf(u) \in Calls
  /\ \A a \in ArgType, e \in DepType : Dependency(a, e) \in Calls /\ JoinDependency(a, e) \in Calls
  /\ \A a \in ArgType, x \in Source : SourceNeed(a, x) \in Calls /\ SourceBuild(a, x) \in Calls
  /\ \A x \in Source : DecideSource(x) \in Calls
  /\ \A l \in Lines : EndLine(l) \in Calls
BY DEF Calls, AddSpec, DecideInstall, ConnectBelow, ReturnOf, Dependency, JoinDependency,
       SourceNeed, SourceBuild, DecideSource, EndLine

\* The kinds of what is made.
LEMMA UidFacts ==
  ASSUME NEW k, NEW s, NEW x
  PROVE  Uid(k, s, x).kind = k /\ Uid(k, s, x).spec = s /\ Uid(k, s, x).item = x
BY DEF Uid

LEMMA ResultFacts ==
  ASSUME NEW r \in Results
  PROVE  IsPlain(r) /\ r.kind \in {"build", "install", "test", "sources", "source"}
BY DEF Results, Build, Install, Test, CreateSources, CreateSource, Uid, IsPlain, IsDecision, Late,
       IsUpload, Root

LEMMA ResultType ==
  ASSUME NEW a \in ArgType, a.source # NoItem => a.prim = "source"
  PROVE  /\ ResultOf(a) \in Results
         /\ a.prim = "build" => ResultOf(a) = Build(a.spec)
         /\ a.prim = "install" => ResultOf(a) = Install(a.spec)
         /\ a.prim = "test" => ResultOf(a) = Test(a.spec)
         /\ a.prim = "source" /\ a.source # NoItem =>
              a.source \in Source /\ ResultOf(a) = CreateSource(a.spec, a.source)
         /\ a.prim = "source" /\ a.source = NoItem => ResultOf(a) = CreateSources(a.spec)
         /\ ResultOf(a) = CreateSources(a.spec) => a.prim = "source" /\ a.source = NoItem
<1>1. a.prim \in Prim /\ a.spec \in Spec /\ a.source \in Source \cup {NoItem} BY DEF ArgType
<1>2. /\ a.prim = "build" => ResultOf(a) = Build(a.spec)
      /\ a.prim = "install" => ResultOf(a) = Install(a.spec)
      /\ a.prim = "test" => ResultOf(a) = Test(a.spec)
      /\ a.prim = "source" /\ a.source # NoItem => ResultOf(a) = CreateSource(a.spec, a.source)
      /\ a.prim = "source" /\ a.source = NoItem => ResultOf(a) = CreateSources(a.spec)
  BY DEF ResultOf
<1>3. ResultOf(a) = CreateSources(a.spec) => a.prim = "source" /\ a.source = NoItem
  BY <1>1, <1>2, UidFacts DEF Build, Install, Test, CreateSource, CreateSources, Prim
<1>4. ResultOf(a) \in Results BY <1>1, <1>2 DEF Results, Prim
<1>5. QED BY <1>1, <1>2, <1>3, <1>4

----------------------------------------------------------------------------
(* The stack of what is to be done.                                        *)

\* What is concatenated.
LEMMA ConcatFacts ==
  ASSUME NEW S, NEW s \in Seq(S), NEW t \in Seq(S)
  PROVE  /\ s \o t \in Seq(S) /\ Len(s \o t) = Len(s) + Len(t)
         /\ \A i \in 1..Len(s) : (s \o t)[i] = s[i]
         /\ \A i \in Len(s) + 1..Len(s) + Len(t) : (s \o t)[i] = t[i - Len(s)]
OBVIOUS

LEMMA TailFacts ==
  ASSUME NEW S, NEW s \in Seq(S), s # <<>>
  PROVE  /\ Tail(s) \in Seq(S) /\ Len(Tail(s)) = Len(s) - 1 /\ Len(s) >= 1
         /\ Head(s) = s[1] /\ s[1] \in S
         /\ \A i \in 1..Len(s) - 1 : Tail(s)[i] = s[i + 1]
OBVIOUS

\* Calls that may take the place of the one that is done.
PushOK(batch) ==
  /\ batch \in Seq(Calls)
  /\ \A i \in 1..Len(batch) : /\ CallOK(DOMAIN tree', batch[i]) /\ batch[i].do # "end_line"
                              /\ i = 1 => batch[i].do \notin Consumers
                              /\ \A j \in 2..Len(todo) : Apart(batch[i], todo[j])
                              /\ \A j \in 1..Len(batch) : i # j => Apart(batch[i], batch[j])
  /\ \A i \in 1..Len(batch) - 1 :
       batch[i + 1].do \in Consumers => Answers(batch[i], batch[i + 1])
  /\ todo[2].do \in Consumers =>
       IF batch = <<>> THEN returned' \in DOMAIN tree' /\ Takes(todo[2], returned')
                       ELSE Answers(batch[Len(batch)], todo[2])
  /\ \A j \in 2..Len(todo) : CallOK(DOMAIN tree', todo[j])

LEMMA ApartSym == \A c, e : Apart(c, e) => Apart(e, c)
BY DEF Apart

LEMMA StackGrows ==
  ASSUME todo \in Seq(Calls), CallsOK, todo[1].do # "end_line",
         NEW batch, PushOK(batch), ThenDo(batch)
  PROVE  CallsOK' /\ todo' \in Seq(Calls)
<1>1. todo # <<>> BY DEF CallsOK
<1>2. batch \in Seq(Calls) BY DEF PushOK
<1>3. PICK n \in Nat : n = Len(todo) BY LenProperties
<1>4. PICK m \in Nat : m = Len(batch) BY <1>2, LenProperties
<1>5. n > 1
  <2>1. n >= 1 BY <1>1, <1>3, TailFacts
  <2>2. n # 1 BY <1>3 DEF CallsOK
  <2>3. QED BY <2>1, <2>2
<1>6. PICK rest \in Seq(Calls) : /\ rest = Tail(todo) /\ Len(rest) = n - 1
                                 /\ \A i \in 1..n - 1 : rest[i] = todo[i + 1]
  <2>1. /\ Tail(todo) \in Seq(Calls) /\ Len(Tail(todo)) = Len(todo) - 1
        /\ \A i \in 1..Len(todo) - 1 : Tail(todo)[i] = todo[i + 1]
    BY <1>1, TailFacts
  <2>2. QED BY <1>3, <2>1
<1>7. /\ todo' = batch \o rest /\ todo' \in Seq(Calls) /\ Len(todo') = m + n - 1
      /\ \A i \in 1..m : todo'[i] = batch[i]
      /\ \A i \in m + 1..m + n - 1 : todo'[i] = rest[i - m]
  <2>1. todo' = batch \o rest BY <1>6 DEF ThenDo
  <2>2. /\ batch \o rest \in Seq(Calls) /\ Len(batch \o rest) = Len(batch) + Len(rest)
        /\ \A i \in 1..Len(batch) : (batch \o rest)[i] = batch[i]
        /\ \A i \in Len(batch) + 1..Len(batch) + Len(rest) :
             (batch \o rest)[i] = rest[i - Len(batch)]
    BY <1>2, ConcatFacts
  <2>3. Len(batch) + Len(rest) = m + n - 1 BY <1>3, <1>4, <1>6
  <2>4. QED BY <2>1, <2>2, <2>3, <1>4
<1>8. \A i \in m + 1..m + n - 1 : i - m + 1 \in 2..n /\ todo'[i] = todo[i - m + 1]
  <2>1. \A i \in m + 1..m + n - 1 : i - m \in 1..n - 1 /\ i - m + 1 \in 2..n BY <1>3, <1>4
  <2>2. QED BY <2>1, <1>6, <1>7
<1>9. todo' # <<>> BY <1>4, <1>5, <1>7
<1>10. \A i \in 1..Len(todo') :
         CallOK(DOMAIN tree', todo'[i]) /\ (todo'[i].do = "end_line" <=> i = Len(todo'))
  <2>1. TAKE i \in 1..Len(todo')
  <2>2. CASE i \in 1..m
    <3>1. CallOK(DOMAIN tree', batch[i]) /\ batch[i].do # "end_line" BY <2>2, <1>4 DEF PushOK
    <3>2. i # m + n - 1 BY <2>2, <1>5
    <3>3. QED BY <3>1, <3>2, <2>2, <1>7
  <2>3. CASE i \in m + 1..m + n - 1
    <3>1. PICK j \in 2..n : j = i - m + 1 /\ todo'[i] = todo[j] BY <2>3, <1>8
    <3>2. CallOK(DOMAIN tree', todo[j]) BY <1>3 DEF PushOK
    <3>3. todo[j].do = "end_line" <=> j = n
      <4>1. j \in 1..Len(todo) BY <1>3
      <4>2. QED BY <4>1, <1>3 DEF CallsOK
    <3>4. j = n <=> i = m + n - 1 BY <3>1, <2>3
    <3>5. QED BY <3>1, <3>2, <3>3, <3>4, <1>7
  <2>4. QED BY <2>2, <2>3, <1>7
<1>11. todo'[1].do \in Consumers => returned' \in DOMAIN tree' /\ Takes(todo'[1], returned')
  <2>1. CASE m = 0
    <3>1. batch = <<>> BY <2>1, <1>2, <1>4
    <3>2. todo'[1] = todo[2] BY <2>1, <1>5, <1>8
    <3>3. QED BY <3>1, <3>2 DEF PushOK
  <2>2. CASE m # 0
    <3>1. 1 \in 1..m BY <2>2, <1>4
    <3>2. QED BY <3>1, <1>4, <1>7 DEF PushOK
  <2>3. QED BY <2>1, <2>2
<1>12. \A i \in 1..(Len(todo') - 1) :
         todo'[i + 1].do \in Consumers => Answers(todo'[i], todo'[i + 1])
  <2>1. TAKE i \in 1..(Len(todo') - 1)
  <2>2. HAVE todo'[i + 1].do \in Consumers
  <2>3. i \in 1..m + n - 2 BY <1>7, <1>3, <1>4
  <2>4. CASE i < m
    <3>1. i \in 1..m - 1 /\ i \in 1..m /\ i + 1 \in 1..m BY <2>3, <2>4, <1>4
    <3>2. todo'[i] = batch[i] /\ todo'[i + 1] = batch[i + 1] BY <3>1, <1>7
    <3>3. QED BY <3>1, <3>2, <2>2, <1>4 DEF PushOK
  <2>5. CASE i = m
    <3>1. m \in 1..m /\ m + 1 \in m + 1..m + n - 1 BY <2>3, <2>5, <1>4, <1>5
    <3>2. todo'[m] = batch[m] BY <3>1, <1>7
    <3>5. m + 1 - m + 1 = 2 BY <1>4
    <3>6. todo'[m + 1] = todo[2] BY <3>1, <3>5, <1>8
    <3>3. batch # <<>> BY <3>1, <1>4
    <3>4. QED BY <3>2, <3>6, <3>3, <2>2, <2>5, <1>4 DEF PushOK
  <2>6. CASE i > m
    <3>6. i \in m + 1..m + n - 1 BY <2>3, <2>6, <1>3, <1>4
    <3>1. PICK j \in 2..n : j = i - m + 1 /\ todo'[i] = todo[j] BY <3>6, <1>8
    <3>2. i + 1 \in m + 1..m + n - 1 BY <2>3, <2>6
    <3>3. j + 1 = (i + 1) - m + 1 /\ todo'[i + 1] = todo[j + 1] BY <3>1, <3>2, <1>8
    <3>4. j \in 1..(Len(todo) - 1) BY <3>1, <2>3, <1>3, <1>4
    <3>5. QED BY <3>1, <3>3, <3>4, <2>2 DEF CallsOK
  <2>7. QED BY <2>3, <2>4, <2>5, <2>6
<1>13. \A i, j \in 1..Len(todo') : i # j => Apart(todo'[i], todo'[j])
  <2>1. TAKE i, j \in 1..Len(todo')
  <2>2. HAVE i # j
  <2>3. CASE i \in 1..m /\ j \in 1..m BY <2>2, <2>3, <1>4, <1>7 DEF PushOK
  <2>4. CASE i \in 1..m /\ j \in m + 1..m + n - 1
    <3>1. PICK k \in 2..n : todo'[j] = todo[k] BY <2>4, <1>8
    <3>2. QED BY <3>1, <2>4, <1>3, <1>4, <1>7 DEF PushOK
  <2>5. CASE i \in m + 1..m + n - 1 /\ j \in 1..m
    <3>1. PICK k \in 2..n : todo'[i] = todo[k] BY <2>5, <1>8
    <3>2. Apart(batch[j], todo[k]) BY <2>5, <1>3, <1>4 DEF PushOK
    <3>3. QED BY <3>1, <3>2, <2>5, <1>7, ApartSym
  <2>6. CASE i \in m + 1..m + n - 1 /\ j \in m + 1..m + n - 1
    <3>1. /\ i - m + 1 \in 1..Len(todo) /\ j - m + 1 \in 1..Len(todo) /\ i - m + 1 # j - m + 1
      BY <2>2, <2>6, <1>3
    <3>2. todo'[i] = todo[i - m + 1] /\ todo'[j] = todo[j - m + 1] BY <2>6, <1>8
    <3>3. QED BY <3>1, <3>2 DEF CallsOK
  <2>7. \A k \in 1..Len(todo') : k \in 1..m \/ k \in m + 1..m + n - 1 BY <1>3, <1>4, <1>7
  <2>8. QED BY <2>3, <2>4, <2>5, <2>6, <2>7
<1>14. QED BY <1>7, <1>9, <1>10, <1>11, <1>12, <1>13 DEF CallsOK

RestOK == \A j \in 2..Len(todo) : CallOK(DOMAIN tree', todo[j])

LEMMA BelowFacts ==
  /\ \A s : /\ DecisionBelow(Install(s)) = Uid("build_or_download", s, NoItem)
            /\ IsDecision(DecisionBelow(Install(s)))
  /\ \A x : /\ DecisionBelow(GetSource(x)) = Uid("create_or_download", NoSpec, x)
            /\ IsDecision(DecisionBelow(GetSource(x)))
BY DEF DecisionBelow, Install, GetSource, Uid, IsDecision

LEMMA CallGrows ==
  ASSUME NEW D, NEW E, D \subseteq E, NEW c, CallOK(D, c),
         c.do = "decide_install" => DecisionBelow(Install(c.args.spec)) \notin E,
         c.do = "decide_source" => DecisionBelow(GetSource(c.source)) \notin E
  PROVE  CallOK(E, c)
BY DEF CallOK, Grown

\* As long as no decision is added.
LEMMA RestKept ==
  ASSUME CallsOK, DOMAIN tree \subseteq DOMAIN tree',
         \A d \in DOMAIN tree' : IsDecision(d) => d \in DOMAIN tree
  PROVE  RestOK
<1> SUFFICES ASSUME NEW j \in 2..Len(todo) PROVE CallOK(DOMAIN tree', todo[j]) BY DEF RestOK
<1>1. CallOK(DOMAIN tree, todo[j])
  <2>1. j \in 1..Len(todo) OBVIOUS
  <2>2. QED BY <2>1 DEF CallsOK
<1>2. todo[j].do = "decide_install" => DecisionBelow(Install(todo[j].args.spec)) \notin DOMAIN tree'
  BY <1>1, BelowFacts DEF CallOK
<1>3. todo[j].do = "decide_source" => DecisionBelow(GetSource(todo[j].source)) \notin DOMAIN tree'
  BY <1>1, BelowFacts DEF CallOK
<1>4. QED BY <1>1, <1>2, <1>3, CallGrows

\* What is done was not a call whose result is looked at.
LEMMA NotAnswered ==
  ASSUME todo \in Seq(Calls), CallsOK, todo[1].do \notin {"end_line", "return", "add_spec"}
  PROVE  todo[2].do \notin Consumers
<1>1. Len(todo) \in Nat /\ Len(todo) # 0
  <2>1. todo # <<>> BY DEF CallsOK
  <2>2. QED BY <2>1
<1>2. Len(todo) # 1 BY <1>1 DEF CallsOK
<1>3. 1 \in 1..(Len(todo) - 1)
  <2>1. PICK n \in Nat : n = Len(todo) /\ n # 0 /\ n # 1 BY <1>1, <1>2
  <2>2. 1 \in 1..(n - 1) BY <2>1
  <2>3. QED BY <2>1, <2>2
<1>4. todo[1 + 1].do \in Consumers => Answers(todo[1], todo[1 + 1]) BY <1>3 DEF CallsOK
<1>5. QED BY <1>4 DEF Answers

LEMMA CallReturned ==
  ASSUME todo \in Seq(Calls), CallsOK, todo[1].do # "end_line", ThenDo(<<>>), RestOK,
         todo[2].do \in Consumers => returned' \in DOMAIN tree' /\ Takes(todo[2], returned')
  PROVE  CallsOK' /\ todo' \in Seq(Calls)
<1>1. PushOK(<<>>) BY DEF PushOK, RestOK
<1>2. QED BY <1>1, StackGrows

LEMMA PoppedSilent ==
  ASSUME todo \in Seq(Calls), CallsOK, todo[1].do \notin {"end_line", "return", "add_spec"},
         ThenDo(<<>>), RestOK
  PROVE  CallsOK' /\ todo' \in Seq(Calls)
BY NotAnswered, CallReturned

LEMMA CallThen ==
  ASSUME todo \in Seq(Calls), CallsOK, todo[1].do \notin {"end_line", "return", "add_spec"}, RestOK,
         NEW b \in ArgType, NEW e \in Calls, ThenDo(<<AddSpec(b), e>>),
         CallOK(DOMAIN tree', AddSpec(b)), CallOK(DOMAIN tree', e), e.do # "end_line",
         Aims(b, e), \A j \in 2..Len(todo) : Apart(e, todo[j])
  PROVE  CallsOK' /\ todo' \in Seq(Calls)
<1> DEFINE batch == <<AddSpec(b), e>>
<1>1. batch \in Seq(Calls) BY CallTypes
<1>2. /\ Len(batch) = 2 /\ batch[1] = AddSpec(b) /\ batch[2] = e /\ batch # <<>>
      /\ \A i \in 1..Len(batch) : i = 1 \/ i = 2
  OBVIOUS
<1>3. AddSpec(b).do = "add_spec" /\ AddSpec(b).args = b BY DEF AddSpec
<1>4. \A c : Apart(AddSpec(b), c) /\ Apart(c, AddSpec(b)) BY <1>3 DEF Apart
<1>5. Answers(AddSpec(b), e) BY <1>3 DEF Answers
<1>6. PushOK(batch)
  <2> HIDE DEF batch
  <2>1. ASSUME NEW i \in 1..Len(batch)
        PROVE  /\ CallOK(DOMAIN tree', batch[i]) /\ batch[i].do # "end_line"
               /\ i = 1 => batch[i].do \notin Consumers
               /\ \A j \in 2..Len(todo) : Apart(batch[i], todo[j])
               /\ \A j \in 1..Len(batch) : i # j => Apart(batch[i], batch[j])
    BY <1>2, <1>3, <1>4 DEF Consumers
  <2>2. \A i \in 1..Len(batch) - 1 : batch[i + 1].do \in Consumers => Answers(batch[i], batch[i + 1])
    BY <1>2, <1>5
  <2>3. todo[2].do \notin Consumers BY NotAnswered
  <2>4. QED BY <1>1, <2>1, <2>2, <2>3 DEF PushOK, RestOK
<1>7. QED BY <1>6, StackGrows

----------------------------------------------------------------------------
(* The tree.                                                               *)

\* The tree has more vertices, V, and more edges, E.
GrownBy(V, E) ==
  /\ DOMAIN tree' = DOMAIN tree \cup V
  /\ \A u \in DOMAIN tree' : \A p :
       p \in tree'[u] <=> \/ u \in DOMAIN tree /\ p \in tree[u]
                         \/ \E e \in E : e[1] = u /\ e[2] = p

LEMMA ExtendedTree ==
  ASSUME NEW V, NEW E, tree' = Extended(tree, V, E)
  PROVE  GrownBy(V, E)
<1>1. /\ DOMAIN tree' = DOMAIN tree \cup V
      /\ \A u \in DOMAIN tree \cup V :
           tree'[u] = (IF u \in DOMAIN tree THEN tree[u] ELSE {}) \cup Targets(E, u)
  BY DEF Extended
<1>2. \A u, p : p \in Targets(E, u) <=> \E e \in E : e[1] = u /\ e[2] = p BY DEF Targets
<1>3. QED BY <1>1, <1>2 DEF GrownBy

LEMMA SameTree ==
  ASSUME PlannedTree, UNCHANGED tree
  PROVE  GrownBy({}, {})
BY DEF GrownBy

\* A decision may be told of more, but it stays the same decision.
SameDecision(d) ==
  /\ d \in DOMAIN decisions'
  /\ decisions'[d].choice \in {Unset, LEFT, RIGHT, BOTH}
  /\ decisions'[d] = [decisions[d] EXCEPT !.choice = decisions'[d].choice,
                                         !.triggers = decisions'[d].triggers]
  /\ decisions'[d].triggers # decisions[d].triggers =>
       /\ d.kind = "build_or_download"
       /\ \E u \in DOMAIN tree : /\ IsPlain(u) /\ decisions[d].initiator \in tree'[u]
                               /\ decisions'[d].triggers = decisions[d].triggers \cup {<<u, LEFT>>}

LEMMA DecisionKept ==
  ASSUME NEW d \in DOMAIN tree, DecisionOK(d), SameDecision(d),
         DOMAIN tree \subseteq DOMAIN tree', tree'[d] = tree[d],
         Dependents(tree', d) = Dependents(tree, d),
         \A u \in DOMAIN tree : tree[u] \subseteq tree'[u]
  PROVE  DecisionOK(d)'
<1>1. PICK D, N : D = decisions[d] /\ N = decisions'[d] OBVIOUS
<1>2. D \in DecisionType BY <1>1 DEF DecisionOK
<1>3. /\ N.initiator = D.initiator /\ N.left = D.left /\ N.right = D.right /\ N.expected = D.expected
      /\ N.choice \in {Unset, LEFT, RIGHT, BOTH}
      /\ N = [D EXCEPT !.choice = N.choice, !.triggers = N.triggers]
  BY <1>1, <1>2 DEF SameDecision, DecisionType
<1>4. /\ N.triggers \subseteq (DOMAIN tree) \X {LEFT, RIGHT}
      /\ \A t \in N.triggers : IsPlain(t[1]) /\ D.initiator \in tree'[t[1]]
      /\ d.kind = "create_or_download" => N.triggers = D.triggers
  <2>1. CASE N.triggers = D.triggers
    <3>1. D.triggers \subseteq (DOMAIN tree) \X {LEFT, RIGHT} BY <1>2 DEF DecisionType
    <3>2. \A t \in D.triggers : t[1] \in DOMAIN tree BY <3>1
    <3>3. \A t \in D.triggers : IsPlain(t[1]) /\ D.initiator \in tree[t[1]]
      BY <1>1 DEF DecisionOK
    <3>4. QED BY <2>1, <3>1, <3>2, <3>3
  <2>2. CASE N.triggers # D.triggers
    <3>1. PICK u \in DOMAIN tree : /\ IsPlain(u) /\ D.initiator \in tree'[u]
                                   /\ N.triggers = D.triggers \cup {<<u, LEFT>>}
      BY <1>1, <2>2 DEF SameDecision
    <3>2. D.triggers \subseteq (DOMAIN tree) \X {LEFT, RIGHT} BY <1>2 DEF DecisionType
    <3>3. \A t \in D.triggers : t[1] \in DOMAIN tree BY <3>2
    <3>4. \A t \in D.triggers : IsPlain(t[1]) /\ D.initiator \in tree[t[1]]
      BY <1>1 DEF DecisionOK
    <3>5. d.kind # "create_or_download" BY <1>1, <2>2 DEF SameDecision
    <3>6. <<u, LEFT>>[1] = u /\ <<u, LEFT>> \in (DOMAIN tree) \X {LEFT, RIGHT} OBVIOUS
    <3>7. QED BY <3>1, <3>2, <3>3, <3>4, <3>5, <3>6
  <2>3. QED BY <2>1, <2>2
<1>5. N \in [initiator : DOMAIN tree', left : DOMAIN tree', right : DOMAIN tree',
            choice : {Unset, LEFT, RIGHT, BOTH}, expected : {Unset, LEFT, RIGHT, BOTH},
            triggers : SUBSET ((DOMAIN tree') \X {LEFT, RIGHT})]
  BY <1>2, <1>3, <1>4 DEF DecisionType
<1>6. d \in DOMAIN decisions' BY DEF SameDecision
<1>7. QED BY <1>1, <1>3, <1>4, <1>5, <1>6 DEF DecisionOK, DecisionType

\* The edges that may be added: none to or from a decision that was there.
MayLead(u, p) ==
  /\ IsDecision(u) => u \notin DOMAIN tree
  /\ IsDecision(p) => p \notin DOMAIN tree
  /\ p # Root
  /\ Late(p) => u = Root \/ Late(u)
  /\ u.kind = "check_virus" => Late(p)

LEMMA TreeGrows ==
  ASSUME PlannedTree, NEW V, NEW E, GrownBy(V, E),
         \A e \in E : MayLead(e[1], e[2]) /\ e[2] \in DOMAIN tree \cup V,
         \A d \in DOMAIN tree : IsDecision(d) => SameDecision(d),
         \A v \in V : IsDecision(v) /\ v \notin DOMAIN tree => DecisionOK(v)'
  PROVE  PlannedTree'
<1>1. /\ DOMAIN tree' = DOMAIN tree \cup V
      /\ \A u \in DOMAIN tree' : \A p :
           p \in tree'[u] <=> \/ u \in DOMAIN tree /\ p \in tree[u]
                             \/ \E e \in E : e[1] = u /\ e[2] = p
  BY DEF GrownBy
<1>2. Root \in DOMAIN tree' BY <1>1 DEF PlannedTree
<1>3. ASSUME NEW u \in DOMAIN tree', NEW p \in tree'[u]
      PROVE  /\ p \in DOMAIN tree' \ {Root}
             /\ Late(p) => u = Root \/ Late(u)
             /\ u.kind = "check_virus" => Late(p)
  <2>1. CASE u \in DOMAIN tree /\ p \in tree[u] BY <1>1, <2>1 DEF PlannedTree
  <2>2. CASE \E e \in E : e[1] = u /\ e[2] = p BY <1>1, <2>2 DEF MayLead
  <2>3. QED BY <1>1, <1>3, <2>1, <2>2
<1>4. ASSUME NEW d \in DOMAIN tree', IsDecision(d) PROVE DecisionOK(d)'
  <2>1. CASE d \notin DOMAIN tree BY <1>1, <1>4, <2>1
  <2>2. CASE d \in DOMAIN tree
    <3>1. DecisionOK(d) BY <1>4, <2>2 DEF PlannedTree
    <3>2. \A e \in E : e[1] # d /\ e[2] # d BY <1>4, <2>2 DEF MayLead
    <3>3. tree'[d] = tree[d]
      <4>1. \A p : p \in tree'[d] <=> p \in tree[d] BY <1>1, <2>2, <3>2
      <4>2. tree[d] \subseteq DOMAIN tree /\ tree'[d] \subseteq DOMAIN tree'
        BY <1>3, <1>4, <2>2 DEF PlannedTree
      <4>3. QED BY <4>1, <4>2
    <3>4. Dependents(tree', d) = Dependents(tree, d)
      <4>1. \A v : v \in Dependents(tree', d) <=> v \in DOMAIN tree' /\ d \in tree'[v]
        BY DEF Dependents
      <4>2. \A v : v \in Dependents(tree, d) <=> v \in DOMAIN tree /\ d \in tree[v]
        BY DEF Dependents
      <4>3. \A v : v \in Dependents(tree', d) <=> v \in Dependents(tree, d)
        BY <1>1, <3>2, <4>1, <4>2
      <4>4. QED BY <4>3 DEF Dependents
    <3>5. \A u \in DOMAIN tree : tree[u] \subseteq tree'[u] BY <1>1
    <3>6. QED BY <1>1, <1>4, <2>2, <3>1, <3>3, <3>4, <3>5, DecisionKept
  <2>3. QED BY <2>1, <2>2
<1>5. QED BY <1>2, <1>3, <1>4 DEF PlannedTree

\* The decisions are what they were.
LEMMA DecisionsUnchanged ==
  ASSUME PlannedTree, UNCHANGED decisions
  PROVE  \A d \in DOMAIN tree : IsDecision(d) => SameDecision(d)
<1> SUFFICES ASSUME NEW d \in DOMAIN tree, IsDecision(d) PROVE SameDecision(d) OBVIOUS
<1>1. PICK D : D = decisions[d] OBVIOUS
<1>2. d \in DOMAIN decisions /\ D \in DecisionType BY <1>1 DEF PlannedTree, DecisionOK
<1>3. D.choice \in {Unset, LEFT, RIGHT, BOTH}
      /\ D = [D EXCEPT !.choice = D.choice, !.triggers = D.triggers]
  BY <1>2 DEF DecisionType
<1>4. QED BY <1>1, <1>2, <1>3 DEF SameDecision

\* The plan chooses: SetDecision.
LEMMA DecisionSet ==
  ASSUME PlannedTree, NEW c \in DOMAIN tree, IsDecision(c), NEW which \in {LEFT, RIGHT},
         decisions' = [decisions EXCEPT ![c] = SetDecision(@, which)]
  PROVE  \A d \in DOMAIN tree : IsDecision(d) => SameDecision(d)
<1> SUFFICES ASSUME NEW d \in DOMAIN tree, IsDecision(d) PROVE SameDecision(d) OBVIOUS
<1>1. PICK D : D = decisions[d] OBVIOUS
<1>2. d \in DOMAIN decisions /\ D \in DecisionType BY <1>1 DEF PlannedTree, DecisionOK
<1>3. d \in DOMAIN decisions' BY <1>2
<1>4. decisions'[d] = D \/ decisions'[d] = SetDecision(D, which) BY <1>1, <1>2
<1>5. D.choice \in {Unset, LEFT, RIGHT, BOTH}
      /\ D = [D EXCEPT !.choice = D.choice, !.triggers = D.triggers]
  BY <1>2 DEF DecisionType
<1>6. PICK N : N = SetDecision(D, which) OBVIOUS
<1>7. /\ N.choice \in {Unset, LEFT, RIGHT, BOTH} /\ N.triggers = D.triggers
      /\ N = [D EXCEPT !.choice = N.choice, !.triggers = N.triggers]
  <2>1. Agree(D.choice, which) \in {Unset, LEFT, RIGHT, BOTH} BY <1>5 DEF Agree
  <2>2. PICK m \in {Unset, LEFT, RIGHT, BOTH} : m = Agree(D.choice, which) BY <2>1
  <2>3. N = [D EXCEPT !.choice = m] BY <1>6, <2>2 DEF SetDecision
  <2>4. QED BY <1>2, <2>2, <2>3 DEF DecisionType
<1>8. QED BY <1>1, <1>3, <1>4, <1>5, <1>6, <1>7 DEF SameDecision

\* An action is told the decision: AddTrigger.
LEMMA DecisionTriggered ==
  ASSUME PlannedTree, NEW c \in DOMAIN tree, c.kind = "build_or_download",
         NEW u \in DOMAIN tree, IsPlain(u), decisions[c].initiator \in tree'[u],
         decisions' = [decisions EXCEPT ![c] = AddTrigger(@, u, LEFT)]
  PROVE  \A d \in DOMAIN tree : IsDecision(d) => SameDecision(d)
<1> SUFFICES ASSUME NEW d \in DOMAIN tree, IsDecision(d) PROVE SameDecision(d) OBVIOUS
<1>1. PICK D : D = decisions[d] OBVIOUS
<1>2. d \in DOMAIN decisions /\ D \in DecisionType BY <1>1 DEF PlannedTree, DecisionOK
<1>3. d \in DOMAIN decisions' BY <1>2
<1>5. D.choice \in {Unset, LEFT, RIGHT, BOTH}
      /\ D = [D EXCEPT !.choice = D.choice, !.triggers = D.triggers]
  BY <1>2 DEF DecisionType
<1>6. CASE d # c
  <2>1. decisions'[d] = D BY <1>1, <1>6
  <2>2. QED BY <1>1, <1>3, <1>5, <2>1 DEF SameDecision
<1>7. CASE d = c
  <2>1. PICK N : N = AddTrigger(D, u, LEFT) OBVIOUS
  <2>2. decisions'[d] = N BY <1>1, <1>2, <1>7, <2>1
  <2>3. /\ N.choice = D.choice /\ N.triggers = D.triggers \cup {<<u, LEFT>>}
        /\ N = [D EXCEPT !.choice = N.choice, !.triggers = N.triggers]
    BY <1>2, <2>1 DEF AddTrigger, DecisionType
  <2>4. QED BY <1>1, <1>3, <1>5, <1>7, <2>2, <2>3 DEF SameDecision
<1>8. QED BY <1>6, <1>7

----------------------------------------------------------------------------
(* The steps of add_spec.                                                  *)

LEMMA NowFacts ==
  ASSUME PlanInv, pc = "adding"
  PROVE  /\ PlannedTree /\ SourcesOK /\ BuildsOK /\ CallsOK /\ todo \in Seq(Calls) /\ todo # <<>>
         /\ Now = todo[1] /\ Now \in Calls /\ CallOK(DOMAIN tree, Now)
         /\ Now.do = "end_line" => Len(todo) = 1
         /\ Now.do # "end_line" /\ todo[2].do \in Consumers => Answers(Now, todo[2])
         /\ Now.do \in Consumers => returned \in DOMAIN tree /\ Takes(Now, returned)
<1>1. PlannedTree /\ SourcesOK /\ BuildsOK /\ CallsOK /\ todo \in Seq(Calls) BY DEF PlanInv
<1>2. todo # <<>> BY <1>1 DEF CallsOK
<1>3. PICK n \in Nat : n = Len(todo) /\ n >= 1 BY <1>1, <1>2, TailFacts
<1>4. Now = todo[1] /\ Now \in Calls BY <1>1, <1>2, TailFacts DEF Now
<1>5. 1 \in 1..Len(todo) BY <1>3
<1>6. CallOK(DOMAIN tree, Now) /\ (Now.do = "end_line" <=> 1 = Len(todo))
  BY <1>1, <1>4, <1>5 DEF CallsOK
<1>7. ASSUME Now.do # "end_line", todo[2].do \in Consumers PROVE Answers(Now, todo[2])
  <2>1. 1 \in 1..(Len(todo) - 1) BY <1>3, <1>6, <1>7
  <2>2. todo[1 + 1].do \in Consumers => Answers(todo[1], todo[1 + 1])
    BY <1>1, <2>1 DEF CallsOK
  <2>3. QED BY <2>2, <1>4, <1>7
<1>8. Now.do \in Consumers => returned \in DOMAIN tree /\ Takes(Now, returned)
  BY <1>1, <1>4 DEF CallsOK
<1>9. QED BY <1>1, <1>2, <1>4, <1>6, <1>7, <1>8

LEMMA AddingStep ==
  ASSUME pc' = "adding", PlannedTree', SourcesOK', CallsOK', todo' \in Seq(Calls), BuildsOK'
  PROVE  PlanInv'
BY DEF PlanInv

LEMMA RestStays ==
  ASSUME todo \in Seq(Calls), todo # <<>>, NEW batch \in Seq(Calls), ThenDo(batch),
         NEW j \in 2..Len(todo)
  PROVE  \E k \in 1..Len(todo') : todo'[k] = todo[j]
<1>1. PICK rest \in Seq(Calls) : /\ rest = Tail(todo) /\ Len(rest) = Len(todo) - 1
                                 /\ \A i \in 1..Len(todo) - 1 : rest[i] = todo[i + 1]
  <2>1. /\ Tail(todo) \in Seq(Calls) /\ Len(Tail(todo)) = Len(todo) - 1
        /\ \A i \in 1..Len(todo) - 1 : Tail(todo)[i] = todo[i + 1]
    BY TailFacts
  <2>2. QED BY <2>1
<1>2. PICK n \in Nat : n = Len(todo) OBVIOUS
<1>3. PICK m \in Nat : m = Len(batch) OBVIOUS
<1>4. /\ todo' = batch \o rest /\ Len(batch \o rest) = Len(batch) + Len(rest)
      /\ \A i \in Len(batch) + 1..Len(batch) + Len(rest) : (batch \o rest)[i] = rest[i - Len(batch)]
  BY <1>1, ConcatFacts DEF ThenDo
<1>5. /\ Len(todo') = m + n - 1
      /\ \A i \in m + 1..m + n - 1 : todo'[i] = rest[i - m]
  BY <1>1, <1>2, <1>3, <1>4
<1>6. PICK k : k = m + j - 1 OBVIOUS
<1>7. /\ k \in m + 1..m + n - 1 /\ k \in 1..m + n - 1 /\ k - m = j - 1
      /\ j - 1 \in 1..n - 1 /\ j - 1 + 1 = j
  BY <1>2, <1>3, <1>6
<1>8. todo'[k] = rest[j - 1] /\ rest[j - 1] = todo[j] BY <1>1, <1>2, <1>5, <1>7
<1>9. QED BY <1>5, <1>7, <1>8

LEMMA OldBuilds ==
  ASSUME PlanInv, pc = "adding",
         NEW batch \in Seq(Calls), ThenDo(batch), DOMAIN tree \subseteq DOMAIN tree',
         NEW s \in Spec, Install(s) \in DOMAIN tree, HasPrimitive(s, "build"),
         Now.do = "decide_install" => Now.args.spec # s
  PROVE  Build(s) \in DOMAIN tree' \/ DecisionPending(s)'
<1> SUFFICES ASSUME Build(s) \notin DOMAIN tree PROVE DecisionPending(s)' OBVIOUS
<1>1. PICK i \in 1..Len(todo) : todo[i].do = "decide_install" /\ todo[i].args.spec = s
  BY NowFacts DEF BuildsOK, DecisionPending
<1>2. i # 1 BY <1>1, NowFacts
<1>3. i \in 2..Len(todo) BY <1>2
<1>4. PICK k \in 1..Len(todo') : todo'[k] = todo[i] BY <1>3, RestStays, NowFacts
<1>5. QED BY <1>1, <1>4 DEF DecisionPending

LEMMA BuildsKept ==
  ASSUME PlanInv, pc = "adding", Now.do # "decide_install",
         NEW batch \in Seq(Calls), ThenDo(batch), DOMAIN tree \subseteq DOMAIN tree',
         \A s \in Spec : Install(s) \in DOMAIN tree' => Install(s) \in DOMAIN tree
  PROVE  BuildsOK'
<1> SUFFICES ASSUME NEW s \in Spec, Install(s) \in DOMAIN tree', HasPrimitive(s, "build")
             PROVE  Build(s) \in DOMAIN tree' \/ DecisionPending(s)'
  BY DEF BuildsOK
<1>1. Install(s) \in DOMAIN tree OBVIOUS
<1>2. QED BY <1>1, OldBuilds

\* More vertices that are no installs, and more edges.
Adds(V, E) ==
  /\ GrownBy(V, E)
  /\ \A v \in V : v.kind # "install" /\ ~IsDecision(v)
  /\ \A e \in E : MayLead(e[1], e[2]) /\ e[2] \in DOMAIN tree \cup V
  /\ \A d \in DOMAIN tree : IsDecision(d) => SameDecision(d)

LEMMA AddsFacts ==
  ASSUME PlanInv, pc = "adding", Now.do # "decide_install", NEW V, NEW E, Adds(V, E),
         NEW batch \in Seq(Calls), ThenDo(batch)
  PROVE  PlannedTree' /\ BuildsOK' /\ RestOK /\ DOMAIN tree \subseteq DOMAIN tree'
<1>1. DOMAIN tree' = DOMAIN tree \cup V BY DEF Adds, GrownBy
<1>2. PlannedTree' BY NowFacts, TreeGrows DEF Adds
<1>3. \A s \in Spec : Install(s) \in DOMAIN tree' => Install(s) \in DOMAIN tree
  BY <1>1, UidFacts DEF Adds, Install
<1>4. BuildsOK' BY <1>1, <1>3, BuildsKept
<1>5. RestOK BY <1>1, NowFacts, RestKept DEF Adds
<1>6. QED BY <1>1, <1>2, <1>4, <1>5

LEMMA AddsNothing ==
  ASSUME PlannedTree, UNCHANGED <<tree, decisions>>
  PROVE  Adds({}, {})
BY SameTree, DecisionsUnchanged DEF Adds

LEMMA LoadOK ==
  ASSUME NEW s \in Spec, Load(s), SourcesOK
  PROVE  SourcesOK'
<1>1. Def[s].provides \in Seq(Source) BY ContextAssumption DEF Definition
<1>2. ToSet(Def[s].provides) \subseteq Source BY <1>1 DEF ToSet
<1>3. PICK S : S = ToSet(Def[s].provides) OBVIOUS
<1>4. sources' = [x \in DOMAIN sources \cup S |-> IF x \in S THEN s ELSE sources[x]]
  BY <1>3 DEF Load, Override
<1>5. QED BY <1>2, <1>3, <1>4 DEF SourcesOK

LEMMA NoCall == <<>> \in Seq(Calls)
OBVIOUS

LEMMA LoadSourceDependencyStep == PlanInv /\ LoadSourceDependency => PlanInv'
<1> SUFFICES ASSUME PlanInv, LoadSourceDependency PROVE PlanInv' OBVIOUS
<1>1. /\ pc = "adding" /\ Now.do = "dependency" /\ pc' = "adding" /\ Load(Now.dep.name)
      /\ ThenDo(<<>>) /\ UNCHANGED <<tree, decisions>>
  BY DEF LoadSourceDependency, Doing, Now, scheduleVars
<1>2. Now.dep.name \in Spec BY <1>1, NowFacts, CallFacts DEF DepType
<1>3. SourcesOK' BY <1>1, <1>2, NowFacts, LoadOK
<1>4. Adds({}, {}) BY <1>1, NowFacts, AddsNothing
<1>5. PlannedTree' /\ BuildsOK' /\ RestOK BY <1>1, <1>4, NoCall, AddsFacts
<1>6. CallsOK' /\ todo' \in Seq(Calls) BY <1>1, <1>5, NowFacts, PoppedSilent
<1>7. QED BY <1>1, <1>3, <1>5, <1>6, AddingStep

LEMMA ArgFacts ==
  ASSUME NEW a \in ArgType
  PROVE  /\ a.spec \in Spec /\ a.prim \in Prim /\ a.source \in Source \cup {NoItem}
         /\ a.line \in Lines \cup {NoLine} /\ a.upload \in BOOLEAN
         /\ a.expand \in BOOLEAN /\ a.force \in BOOLEAN
         /\ Def[a.spec] \in Definition
BY ContextAssumption DEF ArgType

LEMMA WithSource ==
  ASSUME NEW a \in ArgType, NEW x \in Source
  PROVE  /\ [a EXCEPT !.source = x] \in ArgType
         /\ [a EXCEPT !.source = x].source = x
         /\ [a EXCEPT !.source = x].prim = a.prim
         /\ [a EXCEPT !.source = x].spec = a.spec
BY DEF ArgType

LEMMA InnerFacts ==
  ASSUME NEW a \in ArgType, NEW s \in Spec, NEW prim \in Prim
  PROVE  /\ Inner(a, s, prim) \in ArgType
         /\ Inner(a, s, prim).spec = s /\ Inner(a, s, prim).prim = prim
         /\ Inner(a, s, prim).source = NoItem
BY DEF ArgType, Inner

LEMMA PlainLeads ==
  ASSUME NEW u, NEW p, IsPlain(u), IsPlain(p)
  PROVE  MayLead(u, p)
<1>1. ~Late(u) /\ ~Late(p) /\ p # Root /\ ~IsDecision(u) /\ ~IsDecision(p) BY KindsApart
<1>2. u.kind # "check_virus" BY <1>1 DEF Late
<1>3. QED BY <1>1, <1>2 DEF MayLead

LEMMA BuildSourceStep == PlanInv /\ BuildSource => PlanInv'
<1> SUFFICES ASSUME PlanInv, BuildSource PROVE PlanInv' OBVIOUS
<1> DEFINE a == Now.args
           b == [a EXCEPT !.source = Now.source]
           e == ConnectBelow(CreateSources(a.spec))
<1>1. /\ pc = "adding" /\ Now.do = "source_build" /\ pc' = "adding"
      /\ UNCHANGED <<tree, decisions, sources>>
      /\ ThenDo(IF Now.source \in Unmanaged THEN <<>> ELSE <<AddSpec(b), e>>)
  BY DEF BuildSource, Doing, Now, scheduleVars
<1>2. a \in ArgType /\ Now.source \in Source BY <1>1, NowFacts, CallFacts
<1>3. a.prim = "source" /\ CreateSources(a.spec) \in DOMAIN tree BY <1>1, NowFacts DEF CallOK
<1>4. b \in ArgType /\ b.prim = "source" BY <1>2, <1>3, WithSource
<1>5. e \in Calls /\ e.do = "connect" /\ e.uid = CreateSources(a.spec)
  <2>1. CreateSources(a.spec) \in Results BY <1>2, ArgFacts DEF Results
  <2>2. QED BY <2>1, CallTypes DEF ConnectBelow
<1>6. Adds({}, {}) BY <1>1, NowFacts, AddsNothing
<1>7. SourcesOK' BY <1>1, NowFacts DEF SourcesOK
<1>8. CASE Now.source \in Unmanaged
  <2>1. ThenDo(<<>>) BY <1>1, <1>8
  <2>2. PlannedTree' /\ BuildsOK' /\ RestOK BY <1>1, <1>6, <2>1, NoCall, AddsFacts
  <2>3. CallsOK' /\ todo' \in Seq(Calls) BY <1>1, <2>1, <2>2, NowFacts, PoppedSilent
  <2>4. QED BY <1>1, <1>7, <2>2, <2>3, AddingStep
<1>9. CASE Now.source \notin Unmanaged
  <2>1. ThenDo(<<AddSpec(b), e>>) BY <1>1, <1>9
  <2>2. <<AddSpec(b), e>> \in Seq(Calls) BY <1>4, <1>5, CallTypes
  <2>3. PlannedTree' /\ BuildsOK' /\ RestOK BY <1>1, <1>6, <2>1, <2>2, AddsFacts
  <2>4. CallOK(DOMAIN tree', AddSpec(b)) BY <1>4 DEF CallOK, AddSpec
  <2>5. CallOK(DOMAIN tree', e) BY <1>1, <1>3, <1>5 DEF CallOK
  <2>6. Aims(b, e) BY <1>5 DEF Aims
  <2>7. \A j \in 2..Len(todo) : Apart(e, todo[j]) BY <1>5 DEF Apart
  <2> HIDE DEF a, b, e
  <2>8. CallsOK' /\ todo' \in Seq(Calls)
    BY <1>1, <1>4, <1>5, <2>1, <2>3, <2>4, <2>5, <2>6, <2>7, NowFacts, CallThen
  <2>9. QED BY <1>1, <1>7, <2>3, <2>8, AddingStep
<1>10. QED BY <1>8, <1>9

LEMMA CallDependencyStep == PlanInv /\ CallDependency => PlanInv'
<1> SUFFICES ASSUME PlanInv, CallDependency PROVE PlanInv' OBVIOUS
<1> DEFINE a == Now.args
           d == Now.dep
           prim == IF d.kind = "download" THEN "install" ELSE d.kind
           call == Inner(a, d.name, prim)
           b == [call EXCEPT !.force = (d.kind = "download")]
           e == JoinDependency(a, d)
<1>1. /\ pc = "adding" /\ Now.do = "dependency" /\ pc' = "adding" /\ Now.dep.kind # "source"
      /\ UNCHANGED <<tree, decisions, sources>>
      /\ ThenDo(<<AddSpec(b), e>>)
  BY DEF CallDependency, Doing, Now, scheduleVars
<1>2. a \in ArgType /\ d \in DepType BY <1>1, NowFacts, CallFacts
<1>3. Grown(DOMAIN tree, a) BY <1>1, NowFacts DEF CallOK
<1>4. d.name \in Spec /\ prim \in Prim BY <1>1, <1>2 DEF DepType, Prim
<1>5. call \in ArgType /\ call.source = NoItem BY <1>2, <1>4, InnerFacts
<1>6. b \in ArgType /\ b.source = NoItem BY <1>5 DEF ArgType
<1>7. e \in Calls /\ e.do = "join" /\ e.args = a BY <1>2, CallTypes DEF JoinDependency
<1> HIDE DEF a, b, d, e, prim, call
<1>8. Adds({}, {}) BY <1>1, NowFacts, AddsNothing
<1>9. SourcesOK' BY <1>1, NowFacts DEF SourcesOK
<1>10. <<AddSpec(b), e>> \in Seq(Calls) BY <1>6, <1>7, CallTypes
<1>11. PlannedTree' /\ BuildsOK' /\ RestOK BY <1>1, <1>8, <1>10, AddsFacts
<1>12. CallOK(DOMAIN tree', AddSpec(b)) BY <1>6 DEF CallOK, AddSpec
<1>13. CallOK(DOMAIN tree', e) BY <1>1, <1>3, <1>7 DEF CallOK
<1>14. Aims(b, e) BY <1>7 DEF Aims
<1>15. \A j \in 2..Len(todo) : Apart(e, todo[j]) BY <1>7 DEF Apart
<1>16. CallsOK' /\ todo' \in Seq(Calls)
  BY <1>1, <1>6, <1>7, <1>11, <1>12, <1>13, <1>14, <1>15, NowFacts, CallThen
<1>17. QED BY <1>1, <1>9, <1>11, <1>16, AddingStep

LEMMA ConnectSourceStep == PlanInv /\ ConnectSource => PlanInv'
<1> SUFFICES ASSUME PlanInv, ConnectSource PROVE PlanInv' OBVIOUS
<1> DEFINE E == {<<Now.uid, returned>>}
<1>1. /\ pc = "adding" /\ Now.do = "connect" /\ pc' = "adding" /\ ThenDo(<<>>)
      /\ tree' = Extended(tree, {}, E) /\ UNCHANGED <<decisions, sources>>
  BY DEF ConnectSource, Doing, Now, Connect
<1>2. Now.uid \in Results BY <1>1, NowFacts, CallFacts
<1>3. returned \in DOMAIN tree /\ returned \in Results BY <1>1, NowFacts DEF Consumers, Takes
<1>4. MayLead(Now.uid, returned) BY <1>2, <1>3, ResultFacts, PlainLeads
<1>5. \A x \in E : MayLead(x[1], x[2]) /\ x[2] \in DOMAIN tree \cup {} BY <1>3, <1>4
<1>6. GrownBy({}, E) BY <1>1, ExtendedTree
<1>7. Adds({}, E) BY <1>1, <1>5, <1>6, NowFacts, DecisionsUnchanged DEF Adds
<1>8. PlannedTree' /\ BuildsOK' /\ RestOK BY <1>1, <1>7, NoCall, AddsFacts
<1>9. CallsOK' /\ todo' \in Seq(Calls) BY <1>1, <1>8, NowFacts, PoppedSilent
<1>10. SourcesOK' BY <1>1, NowFacts DEF SourcesOK
<1>11. QED BY <1>1, <1>8, <1>9, <1>10, AddingStep

LEMMA FinishDependencyStep == PlanInv /\ FinishDependency => PlanInv'
<1> SUFFICES ASSUME PlanInv, FinishDependency PROVE PlanInv' OBVIOUS
<1> DEFINE u == ResultOf(Now.args)
           d == DecisionBelow(returned)
           E == {<<u, returned>>}
           told == Now.dep.kind = "build" /\ returned.kind = "install" /\ DecisionIsFirst(returned)
<1>1. /\ pc = "adding" /\ Now.do = "join" /\ pc' = "adding" /\ ThenDo(<<>>)
      /\ tree' = Extended(tree, {}, E) /\ UNCHANGED sources
      /\ decisions' = IF told THEN [decisions EXCEPT ![d] = AddTrigger(@, u, LEFT)] ELSE decisions
  BY DEF FinishDependency, Doing, Now, Connect
<1>2. Now.args \in ArgType /\ Grown(DOMAIN tree, Now.args)
  BY <1>1, NowFacts, CallFacts DEF CallOK
<1>3. u \in DOMAIN tree /\ u \in Results BY <1>2, ResultType DEF Grown
<1>4. returned \in DOMAIN tree /\ returned \in Results BY <1>1, NowFacts DEF Consumers, Takes
<1>5. MayLead(u, returned) BY <1>3, <1>4, ResultFacts, PlainLeads
<1>6. \A x \in E : MayLead(x[1], x[2]) /\ x[2] \in DOMAIN tree \cup {} BY <1>4, <1>5
<1>7. GrownBy({}, E) BY <1>1, ExtendedTree
<1>8. PlannedTree BY <1>1, NowFacts
<1>9. \A c \in DOMAIN tree : IsDecision(c) => SameDecision(c)
  <2>1. CASE ~told BY <1>1, <1>8, <2>1, DecisionsUnchanged
  <2>2. CASE told
    <3>1. d \in tree[returned] BY <2>2 DEF DecisionIsFirst
    <3>2. d \in DOMAIN tree BY <3>1, <1>4, <1>8 DEF PlannedTree
    <3>3. d.kind = "build_or_download"
      <4>1. PICK s \in Spec : returned = Install(s)
        BY <1>4, <2>2, UidFacts DEF Results, Build, Install, Test, CreateSources, CreateSource
      <4>2. QED BY <4>1, BelowFacts, UidFacts
    <3>4. IsDecision(d) BY <3>3 DEF IsDecision
    <3>5. Dependents(tree, d) = {decisions[d].initiator}
      BY <3>2, <3>4, <1>8 DEF PlannedTree, DecisionOK
    <3>6. decisions[d].initiator = returned BY <3>1, <3>5, <1>4, DependentsMember
    <3>7. returned \in tree'[u] BY <1>3, <1>7 DEF GrownBy
    <3>8. IsPlain(u) BY <1>3, ResultFacts
    <3> HIDE DEF u, d, told
    <3>9. QED BY <1>1, <1>3, <1>8, <2>2, <3>2, <3>3, <3>6, <3>7, <3>8, DecisionTriggered
  <2>3. QED BY <2>1, <2>2
<1>10. Adds({}, E) BY <1>6, <1>7, <1>9 DEF Adds
<1>11. PlannedTree' /\ BuildsOK' /\ RestOK BY <1>1, <1>10, NoCall, AddsFacts
<1>12. CallsOK' /\ todo' \in Seq(Calls) BY <1>1, <1>11, NowFacts, PoppedSilent
<1>13. SourcesOK' BY <1>1, NowFacts DEF SourcesOK
<1>14. QED BY <1>1, <1>11, <1>12, <1>13, AddingStep

LEMMA ReturnResultStep == PlanInv /\ ReturnResult => PlanInv'
<1> SUFFICES ASSUME PlanInv, ReturnResult PROVE PlanInv' OBVIOUS
<1>1. /\ pc = "adding" /\ Now.do = "return" /\ pc' = "adding" /\ ThenDo(<<>>)
      /\ returned' = Now.uid /\ UNCHANGED <<tree, decisions, sources>>
  BY DEF ReturnResult, Doing, Now, scheduleVars
<1>2. Adds({}, {}) BY <1>1, NowFacts, AddsNothing
<1>3. PlannedTree' /\ BuildsOK' /\ RestOK BY <1>1, <1>2, NoCall, AddsFacts
<1>4. todo[2].do \in Consumers => Takes(todo[2], Now.uid) BY <1>1, NowFacts DEF Answers
<1>5. Now.uid \in DOMAIN tree' BY <1>1, NowFacts DEF CallOK
<1>6. CallsOK' /\ todo' \in Seq(Calls) BY <1>1, <1>3, <1>4, <1>5, NowFacts, CallReturned
<1>7. SourcesOK' BY <1>1, NowFacts DEF SourcesOK
<1>8. QED BY <1>1, <1>3, <1>6, <1>7, AddingStep

----------------------------------------------------------------------------
(* Entering add_spec.                                                      *)

LEMMA EnterFacts ==
  ASSUME PlanInv, NEW ups, EnterSpec(ups)
  PROVE  /\ pc = "adding" /\ pc' = "adding" /\ Now.do = "add_spec" /\ SourcesOK'
         /\ Now.args \in ArgType /\ ~Rejected(Now.args)
         /\ Now.args.source # NoItem => Now.args.prim = "source"
         /\ todo[2].do \in Consumers => Aims(Now.args, todo[2])
<1>1. /\ pc = "adding" /\ pc' = "adding" /\ Now.do = "add_spec" /\ ~Rejected(Now.args)
      /\ Load(Now.args.spec)
  BY DEF EnterSpec, Doing, Now
<1>2. Now.args \in ArgType BY <1>1, NowFacts, CallFacts
<1>3. Now.args.source # NoItem => Now.args.prim = "source" BY <1>1, NowFacts DEF CallOK
<1>4. todo[2].do \in Consumers => Aims(Now.args, todo[2]) BY <1>1, NowFacts DEF Answers
<1>5. Now.args.spec \in Spec BY <1>2, ArgFacts
<1>6. SourcesOK' BY <1>1, <1>5, NowFacts, LoadOK
<1>7. QED BY <1>1, <1>2, <1>3, <1>4, <1>6

\* What add_spec returns is what its caller expects.
LEMMA AimIsTaken ==
  ASSUME NEW a \in ArgType, a.source # NoItem => a.prim = "source", ~Rejected(a),
         ~BecomesBuild(a), NEW e, Aims(a, e)
  PROVE  Takes(e, ResultOf(a))
<1>1. ResultOf(a) \in Results BY ResultType
<1>2. e.do = "decide_install" => ResultOf(a) = Build(e.args.spec) BY ResultType DEF Aims
<1>3. e.do = "decide_source" => ResultOf(a).kind = "source"
  BY ResultType, UidFacts DEF Aims, CreateSource
<1>4. ASSUME e.do = "end_line", e.line.prim = "build"
      PROVE  /\ ResultOf(a) \in {Build(e.line.spec), Install(e.line.spec)}
             /\ HasPrimitive(e.line.spec, "build")
  BY <1>4, ResultType DEF Aims, Rejected
<1>5. QED BY <1>1, <1>2, <1>3, <1>4 DEF Takes

LEMMA HandOverStep == PlanInv /\ HandOver => PlanInv'
<1> SUFFICES ASSUME PlanInv, HandOver PROVE PlanInv' OBVIOUS
<1> DEFINE a == Now.args
           prim == IF a.prim = "build" THEN "install" ELSE "build"
           b == [a EXCEPT !.prim = prim, !.expand = FALSE, !.line = NoLine]
           batch == <<AddSpec(b)>>
<1>1. EnterSpec({}) BY DEF HandOver
<1>2. /\ pc = "adding" /\ pc' = "adding" /\ Now.do = "add_spec" /\ SourcesOK'
      /\ a \in ArgType /\ ~Rejected(a) /\ (a.source # NoItem => a.prim = "source")
      /\ todo[2].do \in Consumers => Aims(a, todo[2])
  BY <1>1, EnterFacts
<1>3. BecomesBuild(a) \/ BecomesInstall(a) BY DEF HandOver
<1>4. UNCHANGED <<tree, decisions>> BY DEF HandOver
<1>5. ThenDo(batch)
  <2>1. [a EXCEPT !.prim = IF @ = "build" THEN "install" ELSE "build", !.expand = FALSE,
                  !.line = NoLine] = b
    BY <1>2 DEF ArgType
  <2>2. QED BY <2>1 DEF HandOver
<1>6. /\ b \in ArgType /\ b.prim = prim /\ b.spec = a.spec /\ b.source = a.source /\ ~b.expand
  BY <1>2 DEF ArgType, Prim
<1>7. a.source = NoItem BY <1>2, <1>3 DEF BecomesBuild, BecomesInstall
<1>8. todo[2].do \in Consumers => Aims(b, todo[2])
  <2>1. a.prim = "build" => HasPrimitive(a.spec, "build")
    BY <1>2 DEF Rejected, BecomesBuild
  <2>2. a.prim = "install" => b.prim = "build" BY <1>6
  <2>3. a.prim = "build" => b.prim = "install" /\ a.expand BY <1>3, <1>6 DEF BecomesBuild, BecomesInstall
  <2>4. a.prim \in {"install", "build"} BY <1>3 DEF BecomesBuild, BecomesInstall
  <2>5. QED BY <1>2, <1>6, <2>1, <2>2, <2>3, <2>4 DEF Aims
<1> HIDE DEF a, b, prim
<1>9. /\ batch \in Seq(Calls) /\ Len(batch) = 1 /\ batch[1] = AddSpec(b) /\ batch # <<>>
      /\ \A i \in 1..Len(batch) : i = 1
  BY <1>6, CallTypes
<1>10. Adds({}, {}) BY <1>2, <1>4, NowFacts, AddsNothing
<1> HIDE DEF batch
<1>11. PlannedTree' /\ BuildsOK' /\ RestOK BY <1>2, <1>5, <1>9, <1>10, AddsFacts
<1>12. AddSpec(b).do = "add_spec" /\ AddSpec(b).args = b BY DEF AddSpec
<1>13. PushOK(batch)
  <2>1. CallOK(DOMAIN tree', AddSpec(b)) BY <1>6, <1>7, <1>12 DEF CallOK
  <2>2. \A c : Apart(AddSpec(b), c) BY <1>12 DEF Apart
  <2>3. todo[2].do \in Consumers => Answers(AddSpec(b), todo[2]) BY <1>8, <1>12 DEF Answers
  <2>4. AddSpec(b).do \notin Consumers /\ AddSpec(b).do # "end_line" BY <1>12 DEF Consumers
  <2>5. QED BY <1>9, <1>11, <2>1, <2>2, <2>3, <2>4 DEF PushOK, RestOK
<1>14. CallsOK' /\ todo' \in Seq(Calls) BY <1>2, <1>5, <1>13, NowFacts, StackGrows
<1>15. QED BY <1>2, <1>11, <1>14, AddingStep

LEMMA MeetAgainStep == PlanInv /\ MeetAgain => PlanInv'
<1> SUFFICES ASSUME PlanInv, MeetAgain PROVE PlanInv' OBVIOUS
<1> DEFINE a == Now.args
           u == ResultOf(a)
           d == DecisionBelow(u)
           decided == a.force /\ DecisionIsFirst(u)
<1>1. EnterSpec({}) BY DEF MeetAgain
<1>2. /\ pc = "adding" /\ pc' = "adding" /\ Now.do = "add_spec" /\ SourcesOK'
      /\ a \in ArgType /\ ~Rejected(a) /\ (a.source # NoItem => a.prim = "source")
      /\ todo[2].do \in Consumers => Aims(a, todo[2])
  BY <1>1, EnterFacts
<1>3. /\ HasAction(a) /\ ~BecomesBuild(a) /\ returned' = u /\ ThenDo(<<>>) /\ UNCHANGED tree
      /\ decisions' = IF decided THEN [decisions EXCEPT ![d] = SetDecision(@, RIGHT)]
                      ELSE decisions
  BY DEF MeetAgain
<1>4. PlannedTree BY <1>2, NowFacts
<1>5. \A c \in DOMAIN tree : IsDecision(c) => SameDecision(c)
  <2>1. CASE ~decided BY <1>3, <1>4, <2>1, DecisionsUnchanged
  <2>2. CASE decided
    <3>1. d \in tree[u] BY <2>2 DEF DecisionIsFirst
    <3>2. d \in DOMAIN tree BY <3>1, <1>3, <1>4 DEF PlannedTree, HasAction
    <3>3. IsDecision(d)
      <4>1. u \in Results BY <1>2, ResultType
      <4>2. QED BY <4>1, UidFacts
            DEF Results, Build, Install, Test, CreateSources, CreateSource, DecisionBelow, IsDecision, Uid
    <3> HIDE DEF d, u, decided
    <3>4. RIGHT \in {LEFT, RIGHT} OBVIOUS
    <3>5. QED BY <1>3, <1>4, <2>2, <3>2, <3>3, <3>4, DecisionSet
  <2>3. QED BY <2>1, <2>2
<1>6. Adds({}, {}) BY <1>3, <1>4, <1>5, SameTree DEF Adds
<1>7. PlannedTree' /\ BuildsOK' /\ RestOK BY <1>2, <1>3, <1>6, NoCall, AddsFacts
<1>8. u \in DOMAIN tree' BY <1>3 DEF HasAction
<1>9. todo[2].do \in Consumers => Takes(todo[2], u) BY <1>2, <1>3, AimIsTaken
<1>10. CallsOK' /\ todo' \in Seq(Calls) BY <1>2, <1>3, <1>7, <1>8, <1>9, NowFacts, CallReturned
<1>11. QED BY <1>2, <1>7, <1>10, AddingStep

----------------------------------------------------------------------------
(* A new action: what is to be done for it.                                *)

\* A list of calls of which only a second one, the decision of an install,
\* looks at what the one before it has returned.
LEMMA PushList ==
  ASSUME PlanInv, pc = "adding", Now.do = "add_spec", RestOK,
         NEW L \in Seq(Calls), L # <<>>,
         \A i \in 1..Len(L) :
           /\ CallOK(DOMAIN tree', L[i]) /\ L[i].do \notin {"end_line", "decide_source"}
           /\ L[i].do \in Consumers =>
                /\ i = 2 /\ Answers(L[1], L[2])
                /\ \A j \in 2..Len(todo) : Apart(L[i], todo[j]),
         todo[2].do \in Consumers => Answers(L[Len(L)], todo[2])
  PROVE  PushOK(L)
<1>1. ASSUME NEW i \in 1..Len(L)
      PROVE  /\ i = 1 => L[i].do \notin Consumers
             /\ \A j \in 2..Len(todo) : Apart(L[i], todo[j])
             /\ \A j \in 1..Len(L) : i # j => Apart(L[i], L[j])
  BY DEF Apart, Consumers
<1>2. ASSUME NEW i \in 1..Len(L) - 1, L[i + 1].do \in Consumers
      PROVE  Answers(L[i], L[i + 1])
  <2>1. i + 1 \in 1..Len(L) /\ i \in Int OBVIOUS
  <2>2. i + 1 = 2 /\ Answers(L[1], L[2]) BY <1>2, <2>1
  <2>3. i = 1 BY <2>1, <2>2
  <2>4. QED BY <2>2, <2>3
<1>3. QED BY <1>1, <1>2 DEF PushOK, RestOK

LEMMA AddSourcesStep == PlanInv /\ AddSources => PlanInv'
<1> SUFFICES ASSUME PlanInv, AddSources PROVE PlanInv' OBVIOUS
<1> DEFINE a == Now.args
           u == CreateSources(a.spec)
           provided == Def[a.spec].provides
           builds == [i \in DOMAIN provided |-> SourceBuild(a, provided[i])]
           L == builds \o <<ReturnOf(u)>>
<1>1. EnterSpec({}) BY DEF AddSources
<1>2. /\ pc = "adding" /\ pc' = "adding" /\ Now.do = "add_spec" /\ SourcesOK'
      /\ a \in ArgType /\ ~Rejected(a) /\ (a.source # NoItem => a.prim = "source")
      /\ todo[2].do \in Consumers => Aims(a, todo[2])
  BY <1>1, EnterFacts
<1>3. /\ ResultOf(a) = u /\ tree' = Extended(tree, {u}, {}) /\ ThenDo(L)
      /\ UNCHANGED decisions
  BY DEF AddSources
<1>4. provided \in Seq(Source) /\ u \in Results
  BY <1>2, ArgFacts DEF Definition, Results
<1>5. a.prim = "source" /\ ~BecomesBuild(a) BY <1>2, <1>3, ResultType DEF BecomesBuild
<1>6. /\ SourceBuild(a, provided[1]).do = "source_build"
      /\ \A x : SourceBuild(a, x).do = "source_build" /\ SourceBuild(a, x).args = a
  BY DEF SourceBuild
<1>7. ReturnOf(u) \in Calls /\ ReturnOf(u).do = "return" /\ ReturnOf(u).uid = u
  BY <1>4, CallTypes DEF ReturnOf
<1> HIDE DEF a, u
<1>8. /\ builds \in Seq(Calls) /\ Len(builds) \in Nat
      /\ \A i \in 1..Len(builds) : builds[i] = SourceBuild(a, provided[i])
  <2>1. \A i \in DOMAIN provided : SourceBuild(a, provided[i]) \in Calls
    BY <1>2, <1>4, CallTypes
  <2>2. DOMAIN provided = 1..Len(provided) /\ Len(provided) \in Nat BY <1>4
  <2>3. builds \in [1..Len(provided) -> Calls] BY <2>1, <2>2
  <2>4. builds \in Seq(Calls) BY <2>2, <2>3
  <2>5. DOMAIN builds = 1..Len(builds) BY <2>4
  <2>6. QED BY <2>4, <2>5
<1> HIDE DEF provided, builds
<1>9. /\ L \in Seq(Calls) /\ L # <<>> /\ L[Len(L)] = ReturnOf(u)
      /\ \A i \in 1..Len(L) : L[i] = ReturnOf(u) \/ \E x : L[i] = SourceBuild(a, x)
  <2>1. <<ReturnOf(u)>> \in Seq(Calls) /\ Len(<<ReturnOf(u)>>) = 1 /\ <<ReturnOf(u)>>[1] = ReturnOf(u)
    BY <1>7
  <2>2. /\ L \in Seq(Calls) /\ Len(L) = Len(builds) + 1
        /\ \A i \in 1..Len(builds) : L[i] = builds[i]
        /\ \A i \in Len(builds) + 1..Len(builds) + 1 : L[i] = <<ReturnOf(u)>>[i - Len(builds)]
    BY <1>8, <2>1, ConcatFacts
  <2>3. \A i \in 1..Len(builds) + 1 : i \in 1..Len(builds) \/ i = Len(builds) + 1 BY <1>8
  <2>4. L[Len(builds) + 1] = ReturnOf(u)
    <3>1. Len(builds) + 1 \in Len(builds) + 1..Len(builds) + 1 /\ Len(builds) + 1 - Len(builds) = 1
      BY <1>8
    <3>2. QED BY <2>1, <2>2, <3>1
  <2>5. Len(L) # 0 BY <1>8, <2>2
  <2>6. QED BY <1>8, <2>2, <2>3, <2>4, <2>5
<1>10. Adds({u}, {})
  <2>1. u.kind = "sources" /\ ~IsDecision(u) BY UidFacts DEF u, CreateSources, IsDecision
  <2>2. GrownBy({u}, {}) BY <1>3, ExtendedTree
  <2>3. QED BY <1>2, <1>3, <2>1, <2>2, NowFacts, DecisionsUnchanged DEF Adds
<1> HIDE DEF L
<1>11. PlannedTree' /\ BuildsOK' /\ RestOK BY <1>2, <1>3, <1>9, <1>10, AddsFacts
<1>12. u \in DOMAIN tree' BY <1>10 DEF Adds, GrownBy
<1>13. ASSUME NEW i \in 1..Len(L)
       PROVE  /\ CallOK(DOMAIN tree', L[i]) /\ L[i].do \notin {"end_line", "decide_source"}
              /\ L[i].do \notin Consumers
  <2>1. CASE L[i] = ReturnOf(u) BY <1>7, <1>12, <2>1 DEF CallOK, Consumers
  <2>2. CASE \E x : L[i] = SourceBuild(a, x)
    BY <1>5, <1>6, <1>12, <2>2 DEF CallOK, Consumers, u
  <2>3. QED BY <1>9, <2>1, <2>2
<1>14. todo[2].do \in Consumers => Answers(L[Len(L)], todo[2])
  BY <1>2, <1>3, <1>5, <1>7, <1>9, AimIsTaken DEF Answers
<1>15. PushOK(L) BY <1>2, <1>9, <1>11, <1>13, <1>14, PushList
<1>16. CallsOK' /\ todo' \in Seq(Calls) BY <1>2, <1>3, <1>15, NowFacts, StackGrows
<1>17. QED BY <1>2, <1>11, <1>16, AddingStep

\* The lists of Expand.
ListOf(a, batch, deps, needs, last) ==
  batch \o [i \in DOMAIN deps |-> Dependency(a, deps[i])]
        \o [i \in DOMAIN needs |-> SourceNeed(a, needs[i])] \o <<last>>

ListOK(L, a, batch, last) ==
  /\ L \in Seq(Calls) /\ L # <<>> /\ L[Len(L)] = last
  /\ Len(batch) < Len(L)
  /\ \A i \in 1..Len(batch) : L[i] = batch[i]
  /\ \A i \in 1..Len(L) :
       \/ i \in 1..Len(batch) /\ L[i] = batch[i]
       \/ L[i].do \in {"dependency", "source_need"} /\ L[i].args = a
       \/ L[i] = last

LEMMA ListFacts ==
  ASSUME NEW a \in ArgType, NEW deps \in Seq(DepType), NEW needs \in Seq(Source),
         NEW batch \in Seq(Calls), NEW last \in Calls
  PROVE  ListOK(ListOf(a, batch, deps, needs, last), a, batch, last)
<1>0. PICK L : L = ListOf(a, batch, deps, needs, last) OBVIOUS
<1> DEFINE D == [i \in DOMAIN deps |-> Dependency(a, deps[i])]
           N == [i \in DOMAIN needs |-> SourceNeed(a, needs[i])]
<1>1. /\ D \in Seq(Calls) /\ Len(D) \in Nat
      /\ \A i \in 1..Len(D) : D[i].do = "dependency" /\ D[i].args = a
  <2>1. DOMAIN deps = 1..Len(deps) /\ Len(deps) \in Nat OBVIOUS
  <2>2. \A i \in DOMAIN deps : Dependency(a, deps[i]) \in Calls BY CallTypes
  <2>3. D \in [1..Len(deps) -> Calls] BY <2>1, <2>2
  <2>4. D \in Seq(Calls) BY <2>1, <2>3
  <2>5. DOMAIN D = 1..Len(D) BY <2>4
  <2>6. \A i \in DOMAIN D : D[i] = Dependency(a, deps[i]) OBVIOUS
  <2> HIDE DEF D
  <2>7. QED BY <2>4, <2>5, <2>6 DEF Dependency
<1>2. /\ N \in Seq(Calls) /\ Len(N) \in Nat
      /\ \A i \in 1..Len(N) : N[i].do = "source_need" /\ N[i].args = a
  <2>1. DOMAIN needs = 1..Len(needs) /\ Len(needs) \in Nat OBVIOUS
  <2>2. \A i \in DOMAIN needs : SourceNeed(a, needs[i]) \in Calls BY CallTypes
  <2>3. N \in [1..Len(needs) -> Calls] BY <2>1, <2>2
  <2>4. N \in Seq(Calls) BY <2>1, <2>3
  <2>5. DOMAIN N = 1..Len(N) BY <2>4
  <2>6. \A i \in DOMAIN N : N[i] = SourceNeed(a, needs[i]) OBVIOUS
  <2> HIDE DEF N
  <2>7. \A x : SourceNeed(a, x).do = "source_need" /\ SourceNeed(a, x).args = a BY DEF SourceNeed
  <2>8. QED BY <2>4, <2>5, <2>6, <2>7
<1> HIDE DEF D, N
<1>3. PICK A : A = batch \o D OBVIOUS
<1>4. /\ A \in Seq(Calls) /\ Len(A) = Len(batch) + Len(D)
      /\ \A i \in 1..Len(batch) : A[i] = batch[i]
      /\ \A i \in Len(batch) + 1..Len(batch) + Len(D) : A[i] = D[i - Len(batch)]
  BY <1>1, <1>3, ConcatFacts
<1>5. PICK B : B = A \o N OBVIOUS
<1>6. /\ B \in Seq(Calls) /\ Len(B) = Len(A) + Len(N)
      /\ \A i \in 1..Len(A) : B[i] = A[i]
      /\ \A i \in Len(A) + 1..Len(A) + Len(N) : B[i] = N[i - Len(A)]
  <2>1. /\ A \o N \in Seq(Calls) /\ Len(A \o N) = Len(A) + Len(N)
        /\ \A i \in 1..Len(A) : (A \o N)[i] = A[i]
        /\ \A i \in Len(A) + 1..Len(A) + Len(N) : (A \o N)[i] = N[i - Len(A)]
    <3>1. A \in Seq(Calls) BY <1>4
    <3>2. N \in Seq(Calls) BY <1>2
    <3>3. QED BY <3>1, <3>2, ConcatFacts
  <2>2. QED BY <1>5, <2>1
<1>7. <<last>> \in Seq(Calls) /\ Len(<<last>>) = 1 /\ <<last>>[1] = last OBVIOUS
<1>8. L = B \o <<last>> BY <1>0, <1>3, <1>5 DEF D, N, ListOf
<1>9. /\ L \in Seq(Calls) /\ Len(L) = Len(B) + 1
      /\ \A i \in 1..Len(B) : L[i] = B[i]
      /\ \A i \in Len(B) + 1..Len(B) + 1 : L[i] = <<last>>[i - Len(B)]
  <2>1. PICK R \in Seq(Calls) : R = <<last>> /\ Len(R) = 1 BY <1>7
  <2>2. /\ B \o R \in Seq(Calls) /\ Len(B \o R) = Len(B) + Len(R)
        /\ \A i \in 1..Len(B) : (B \o R)[i] = B[i]
        /\ \A i \in Len(B) + 1..Len(B) + Len(R) : (B \o R)[i] = R[i - Len(B)]
    <3>1. B \in Seq(Calls) BY <1>6
    <3>2. QED BY <3>1, ConcatFacts
  <2>3. QED BY <1>8, <2>1, <2>2
<1>10. PICK c, d, n \in Nat : c = Len(batch) /\ d = Len(D) /\ n = Len(N) BY <1>1, <1>2
<1>11. Len(A) = c + d /\ Len(B) = c + d + n /\ Len(L) = c + d + n + 1
  BY <1>4, <1>6, <1>9, <1>10
<1>12. L[Len(L)] = last
  <2>1. Len(B) + 1 \in Len(B) + 1..Len(B) + 1 /\ Len(B) + 1 - Len(B) = 1 BY <1>10, <1>11
  <2>2. QED BY <2>1, <1>7, <1>9
<1>13. ASSUME NEW i \in 1..Len(L)
       PROVE  \/ i \in 1..Len(batch) /\ L[i] = batch[i]
              \/ L[i].do \in {"dependency", "source_need"} /\ L[i].args = a
              \/ L[i] = last
  <2>1. CASE i \in 1..c
    <3>1. i \in 1..Len(A) /\ i \in 1..Len(B) /\ i \in 1..Len(batch) BY <2>1, <1>10, <1>11
    <3>2. QED BY <3>1, <1>4, <1>6, <1>9
  <2>2. CASE i \in c + 1..c + d
    <3>1. i \in 1..Len(A) /\ i \in 1..Len(B) /\ i - c \in 1..d BY <2>2, <1>10, <1>11
    <3>2. L[i] = D[i - c] BY <3>1, <2>2, <1>4, <1>6, <1>9, <1>10
    <3>3. QED BY <3>1, <3>2, <1>1, <1>10
  <2>3. CASE i \in c + d + 1..c + d + n
    <3>1. i \in 1..Len(B) /\ i - (c + d) \in 1..n BY <2>3, <1>10, <1>11
    <3>2. L[i] = N[i - (c + d)] BY <3>1, <2>3, <1>6, <1>9, <1>10, <1>11
    <3>3. QED BY <3>1, <3>2, <1>2, <1>10
  <2>4. CASE i = Len(L) BY <2>4, <1>12
  <2>5. i \in 1..c \/ i \in c + 1..c + d \/ i \in c + d + 1..c + d + n \/ i = c + d + n + 1
    <3>1. i \in Int /\ 1 <= i /\ i <= c + d + n + 1 BY <1>11
    <3>2. c \in Nat /\ d \in Nat /\ n \in Nat OBVIOUS
    <3>3. QED BY <3>1, <3>2
  <2>6. QED BY <2>1, <2>2, <2>3, <2>4, <2>5, <1>11
<1>14. L # <<>> /\ Len(batch) < Len(L) BY <1>9, <1>10, <1>11
<1>15. \A i \in 1..Len(batch) : L[i] = batch[i]
  <2>1. \A i \in 1..c : i \in 1..Len(A) /\ i \in 1..Len(B) BY <1>10, <1>11
  <2>2. QED BY <2>1, <1>4, <1>6, <1>9, <1>10
<1>16. ListOK(L, a, batch, last) BY <1>9, <1>12, <1>13, <1>14, <1>15 DEF ListOK
<1>17. QED BY <1>0, <1>16

\* A decision is below what it is about.
LEMMA DecisionsBelow ==
  ASSUME PlannedTree
  PROVE  /\ \A s : DecisionBelow(Install(s)) \in DOMAIN tree => Install(s) \in DOMAIN tree
         /\ \A x : DecisionBelow(GetSource(x)) \in DOMAIN tree => GetSource(x) \in DOMAIN tree
<1>1. \A d \in DOMAIN tree : IsDecision(d) => decisions[d].initiator \in DOMAIN tree
  BY DEF PlannedTree, DecisionOK, DecisionType
<1>2. ASSUME NEW s, DecisionBelow(Install(s)) \in DOMAIN tree PROVE Install(s) \in DOMAIN tree
  <2>1. PICK d \in DOMAIN tree : d = DecisionBelow(Install(s)) BY <1>2
  <2>2. d.kind = "build_or_download" /\ d.spec = s /\ IsDecision(d) BY <2>1, BelowFacts, UidFacts
  <2>3. decisions[d].initiator = Install(s) BY <2>2 DEF PlannedTree, DecisionOK
  <2>4. QED BY <1>1, <2>2, <2>3
<1>3. ASSUME NEW x, DecisionBelow(GetSource(x)) \in DOMAIN tree PROVE GetSource(x) \in DOMAIN tree
  <2>1. PICK d \in DOMAIN tree : d = DecisionBelow(GetSource(x)) BY <1>3
  <2>2. d.kind = "create_or_download" /\ d.item = x /\ IsDecision(d) BY <2>1, BelowFacts, UidFacts
  <2>3. decisions[d].initiator = GetSource(x) BY <2>2 DEF PlannedTree, DecisionOK
  <2>4. QED BY <1>1, <2>2, <2>3
<1>4. QED BY <1>2, <1>3

\* What comes before the dependencies: a call and the decision of an install.
Before(a, V, batch) ==
  \/ batch = <<>>
  \/ \E b \in ArgType :
       /\ a.prim = "install" /\ b.source = NoItem /\ Aims(b, DecideInstall(a))
       /\ DownloadBinary(a.spec) \in V
       /\ batch = <<AddSpec(b), DecideInstall(a)>>

LEMMA ExpandStep ==
  ASSUME PlanInv, NEW V, NEW E, NEW batch, Expand(Now.args, V, E, batch),
         Now.args.prim = "source" => Now.args.source # NoItem,
         \A v \in V : v.kind # "install" /\ ~IsDecision(v),
         \A e \in E : /\ MayLead(e[1], e[2])
                     /\ e[2] \in DOMAIN tree \cup (V \cup {ResultOf(Now.args)}),
         Before(Now.args, V, batch),
         Now.args.prim = "install" /\ HasPrimitive(Now.args.spec, "build") => batch # <<>>
  PROVE  PlanInv'
<1> DEFINE a == Now.args
           u == ResultOf(a)
           W == V \cup {u}
           deps == Def[a.spec].deps[a.prim]
           needs == Def[a.spec].needs[a.prim]
           L == ListOf(a, batch, deps, needs, ReturnOf(u))
<1>1. PICK ups : EnterSpec(ups) BY DEF Expand
<1>2. /\ pc = "adding" /\ pc' = "adding" /\ Now.do = "add_spec" /\ SourcesOK'
      /\ a \in ArgType /\ ~Rejected(a) /\ (a.source # NoItem => a.prim = "source")
      /\ todo[2].do \in Consumers => Aims(a, todo[2])
  BY <1>1, EnterFacts
<1>3. /\ u \notin DOMAIN tree /\ ~BecomesBuild(a) /\ tree' = Extended(tree, W, E)
      /\ UNCHANGED decisions /\ ThenDo(L)
  BY DEF Expand, HasAction, ListOf
<1>4. u \in Results /\ IsPlain(u) /\ ~IsDecision(u) BY <1>2, ResultType, ResultFacts, KindsApart
<1>5. ReturnOf(u) \in Calls /\ ReturnOf(u).do = "return" /\ ReturnOf(u).uid = u
  BY <1>4, CallTypes DEF ReturnOf
<1>6. deps \in Seq(DepType) /\ needs \in Seq(Source)
  <2>1. a.prim \in Prim /\ Def[a.spec] \in Definition BY <1>2, ArgFacts
  <2>2. QED BY <2>1 DEF Definition, Prim, DepType
<1>7. PlannedTree /\ CallsOK BY <1>2, NowFacts
<1>8. GrownBy(W, E) BY <1>3, ExtendedTree
<1>9. PlannedTree'
  <2>1. \A d \in DOMAIN tree : IsDecision(d) => SameDecision(d) BY <1>3, <1>7, DecisionsUnchanged
  <2>2. \A v \in W : ~IsDecision(v) BY <1>4
  <2>3. \A e \in E : MayLead(e[1], e[2]) /\ e[2] \in DOMAIN tree \cup W OBVIOUS
  <2> HIDE DEF W
  <2>4. QED BY <1>7, <1>8, <2>1, <2>2, <2>3, TreeGrows
<1>10. DOMAIN tree' = DOMAIN tree \cup W BY <1>8 DEF GrownBy
<1>11. RestOK
  <2>1. \A d \in DOMAIN tree' : IsDecision(d) => d \in DOMAIN tree BY <1>4, <1>10
  <2>2. QED BY <1>7, <1>10, <2>1, RestKept
<1>12. batch \in Seq(Calls)
  <2>1. DecideInstall(a) \in Calls BY <1>2, CallTypes
  <2>2. ASSUME NEW b \in ArgType PROVE <<AddSpec(b), DecideInstall(a)>> \in Seq(Calls)
    BY <2>1, CallTypes
  <2>3. QED BY <2>2, NoCall DEF Before
<1> HIDE DEF a, u, deps, needs
<1>13. /\ L \in Seq(Calls) /\ L # <<>> /\ L[Len(L)] = ReturnOf(u) /\ Len(batch) < Len(L)
       /\ \A i \in 1..Len(batch) : L[i] = batch[i]
       /\ \A i \in 1..Len(L) :
            \/ i \in 1..Len(batch) /\ L[i] = batch[i]
            \/ L[i].do \in {"dependency", "source_need"} /\ L[i].args = a
            \/ L[i] = ReturnOf(u)
  <2>1. a \in ArgType BY <1>2
  <2>2. ReturnOf(u) \in Calls BY <1>5
  <2>3. deps \in Seq(DepType) BY <1>6
  <2>4. needs \in Seq(Source) BY <1>6
  <2> HIDE DEF L
  <2>5. L = ListOf(a, batch, deps, needs, ReturnOf(u)) BY DEF L
  <2>6. ListOK(L, a, batch, ReturnOf(u)) BY <1>12, <2>1, <2>2, <2>3, <2>4, <2>5, ListFacts
  <2>7. QED BY <2>6 DEF ListOK
<1> HIDE DEF L
<1>14. u \in DOMAIN tree' BY <1>10
<1>15. ASSUME NEW b \in ArgType, b.source = NoItem, Aims(b, DecideInstall(a)), a.prim = "install",
              DownloadBinary(a.spec) \in V, batch = <<AddSpec(b), DecideInstall(a)>>
       PROVE  /\ Len(batch) = 2 /\ L[1] = AddSpec(b) /\ L[2] = DecideInstall(a) /\ 2 \in 1..Len(L)
              /\ CallOK(DOMAIN tree', AddSpec(b)) /\ CallOK(DOMAIN tree', DecideInstall(a))
              /\ Answers(AddSpec(b), DecideInstall(a))
              /\ \A j \in 2..Len(todo) : Apart(DecideInstall(a), todo[j])
  <2>1. Len(batch) = 2 /\ batch[1] = AddSpec(b) /\ batch[2] = DecideInstall(a) BY <1>15
  <2>2. Len(L) \in Nat /\ Len(L) > 2 /\ 1 \in 1..Len(L) /\ 2 \in 1..Len(L) BY <1>13, <2>1
  <2>3. 1 \in 1..Len(batch) /\ 2 \in 1..Len(batch) BY <2>1
  <2>4. AddSpec(b).do = "add_spec" /\ AddSpec(b).args = b BY DEF AddSpec
  <2>5. DecideInstall(a).do = "decide_install" /\ DecideInstall(a).args = a BY DEF DecideInstall
  <2>6. L[1] = AddSpec(b) /\ L[2] = DecideInstall(a)
    <3>1. L[1] = batch[1] /\ L[2] = batch[2] BY <1>13, <2>3
    <3>2. QED BY <2>1, <3>1
  <2>7. CallOK(DOMAIN tree', AddSpec(b)) BY <1>15, <2>4 DEF CallOK
  <2>8. u = Install(a.spec) BY <1>2, <1>15, ResultType DEF u
  <2>9. DecisionBelow(Install(a.spec)) \notin DOMAIN tree'
    BY <1>3, <1>4, <1>7, <1>10, <2>8, BelowFacts, DecisionsBelow
  <2>10. CallOK(DOMAIN tree', DecideInstall(a)) BY <1>10, <1>15, <2>5, <2>8, <2>9 DEF CallOK
  <2>11. Answers(AddSpec(b), DecideInstall(a)) BY <1>15, <2>4 DEF Answers
  <2>12. ASSUME NEW j \in 2..Len(todo) PROVE Apart(DecideInstall(a), todo[j])
    <3>1. j \in 1..Len(todo) OBVIOUS
    <3>2. CallOK(DOMAIN tree, todo[j]) BY <1>7, <3>1 DEF CallsOK
    <3>3. todo[j].do = "decide_install" => todo[j].args.spec # a.spec
      BY <1>3, <2>8, <3>2 DEF CallOK
    <3>4. QED BY <2>5, <3>3 DEF Apart
  <2>13. QED BY <2>1, <2>2, <2>6, <2>7, <2>10, <2>11, <2>12
<1>16. ASSUME NEW i \in 1..Len(L)
       PROVE  /\ CallOK(DOMAIN tree', L[i]) /\ L[i].do \notin {"end_line", "decide_source"}
              /\ L[i].do \in Consumers =>
                   /\ i = 2 /\ Answers(L[1], L[2])
                   /\ \A j \in 2..Len(todo) : Apart(L[i], todo[j])
  <2>1. CASE i \in 1..Len(batch) /\ L[i] = batch[i]
    <3>1. PICK b \in ArgType : /\ b.source = NoItem /\ Aims(b, DecideInstall(a))
                               /\ a.prim = "install" /\ DownloadBinary(a.spec) \in V
                               /\ batch = <<AddSpec(b), DecideInstall(a)>>
      BY <2>1 DEF Before, a
    <3>2. i = 1 \/ i = 2 BY <2>1, <3>1
    <3>3. AddSpec(b).do = "add_spec" /\ DecideInstall(a).do = "decide_install"
      BY DEF AddSpec, DecideInstall
    <3>4. QED BY <1>15, <3>1, <3>2, <3>3 DEF Consumers
  <2>2. CASE L[i].do \in {"dependency", "source_need"} /\ L[i].args = a
    <3>1. Grown(DOMAIN tree', a) BY <1>2, <1>14 DEF Grown, u, a
    <3>2. QED BY <2>2, <3>1 DEF CallOK, Consumers
  <2>3. CASE L[i] = ReturnOf(u) BY <1>5, <1>14, <2>3 DEF CallOK, Consumers
  <2>4. QED BY <1>13, <2>1, <2>2, <2>3
<1>17. todo[2].do \in Consumers => Answers(L[Len(L)], todo[2])
  <2>1. ASSUME todo[2].do \in Consumers PROVE Takes(todo[2], u)
    BY <1>2, <1>3, <2>1, AimIsTaken DEF u
  <2>2. QED BY <1>5, <1>13, <2>1 DEF Answers
<1>18. PushOK(L) BY <1>2, <1>11, <1>13, <1>16, <1>17, PushList
<1>19. CallsOK' /\ todo' \in Seq(Calls) BY <1>2, <1>3, <1>18, NowFacts, StackGrows
<1>20. BuildsOK'
  <2> SUFFICES ASSUME NEW s \in Spec, Install(s) \in DOMAIN tree', HasPrimitive(s, "build")
               PROVE  Build(s) \in DOMAIN tree' \/ DecisionPending(s)'
    BY DEF BuildsOK
  <2>1. CASE Install(s) \in DOMAIN tree BY <1>2, <1>3, <1>10, <1>13, <2>1, OldBuilds
  <2>2. CASE Install(s) \notin DOMAIN tree
    <3>1. Install(s) = u BY <1>10, <2>2, UidFacts DEF Install
    <3>2. a.prim = "install" /\ a.spec = s
      BY <1>2, <3>1, ResultType, ArgFacts, UidFacts
         DEF u, Prim, Build, Install, Test, CreateSource, CreateSources
    <3>3. PICK b \in ArgType : /\ b.source = NoItem /\ Aims(b, DecideInstall(a))
                               /\ DownloadBinary(a.spec) \in V
                               /\ batch = <<AddSpec(b), DecideInstall(a)>>
      BY <3>2 DEF Before, a
    <3>4. L[2] = DecideInstall(a) /\ 2 \in 1..Len(L) BY <1>15, <3>2, <3>3
    <3>5. todo' = L \o Tail(todo) /\ Tail(todo) \in Seq(Calls)
      BY <1>2, <1>3, NowFacts, TailFacts DEF ThenDo
    <3>6. todo'[2] = L[2] /\ Len(todo') = Len(L) + Len(Tail(todo)) BY <1>13, <3>4, <3>5, ConcatFacts
    <3>7. 2 \in 1..Len(todo') BY <1>13, <3>4, <3>5, <3>6
    <3>8. todo'[2].do = "decide_install" /\ todo'[2].args.spec = s
      BY <3>2, <3>4, <3>6 DEF DecideInstall
    <3>9. QED BY <3>7, <3>8 DEF DecisionPending
  <2>3. QED BY <2>1, <2>2
<1>21. QED BY <1>2, <1>9, <1>19, <1>20, AddingStep

LEMMA AddBuildOrTestStep == PlanInv /\ AddBuildOrTest => PlanInv'
<1> SUFFICES ASSUME PlanInv, AddBuildOrTest PROVE PlanInv' OBVIOUS
<1>1. Now.args.prim \in {"build", "test"} /\ Expand(Now.args, {}, {}, <<>>)
  BY DEF AddBuildOrTest
<1>2. Before(Now.args, {}, <<>>) BY DEF Before
<1>3. QED BY <1>1, <1>2, ExpandStep

LEMMA AddInstallStep == PlanInv /\ AddInstall => PlanInv'
<1> SUFFICES ASSUME PlanInv, AddInstall PROVE PlanInv' OBVIOUS
<1> DEFINE a == Now.args
           get == DownloadBinary(a.spec)
           b == [Inner(a, a.spec, "build") EXCEPT !.expand = FALSE]
           batch == <<AddSpec(b), DecideInstall(a)>>
           edges == {<<Install(a.spec), get>>}
<1>1. pc = "adding" /\ Now.do = "add_spec" /\ a.prim = "install"
  BY DEF AddInstall, Doing, Now
<1>2. IF HasPrimitive(a.spec, "build") THEN Expand(a, {get}, {}, batch)
                                       ELSE Expand(a, {get}, edges, <<>>)
  BY DEF AddInstall
<1>3. a \in ArgType BY <1>1, NowFacts, CallFacts
<1>4. \A v \in {get} : v.kind # "install" /\ ~IsDecision(v)
  BY UidFacts DEF DownloadBinary, IsDecision
<1>5. CASE HasPrimitive(a.spec, "build")
  <2>1. Inner(a, a.spec, "build") \in ArgType /\ Inner(a, a.spec, "build").spec = a.spec
        /\ Inner(a, a.spec, "build").prim = "build" /\ Inner(a, a.spec, "build").source = NoItem
    <3>1. a.spec \in Spec /\ "build" \in Prim BY <1>3, ArgFacts DEF Prim
    <3>2. QED BY <1>3, <3>1, InnerFacts
  <2>2. b \in ArgType /\ b.spec = a.spec /\ b.prim = "build" /\ b.source = NoItem /\ ~b.expand
    BY <2>1 DEF ArgType
  <2> HIDE DEF b
  <2>3. Aims(b, DecideInstall(a)) BY <2>2 DEF Aims, DecideInstall
  <2>4. Before(a, {get}, batch) BY <1>1, <2>2, <2>3 DEF Before
  <2>5. batch # <<>> OBVIOUS
  <2> HIDE DEF get, batch
  <2>6. QED BY <1>1, <1>2, <1>4, <1>5, <2>4, <2>5, ExpandStep
<1>6. CASE ~HasPrimitive(a.spec, "build")
  <2>1. IsPlain(Install(a.spec)) /\ IsPlain(get)
    BY UidFacts DEF Install, DownloadBinary, IsPlain, IsDecision, Late, IsUpload, Root
  <2>2. \A e \in edges : MayLead(e[1], e[2]) /\ e[2] \in DOMAIN tree \cup ({get} \cup {ResultOf(a)})
    BY <2>1, PlainLeads
  <2>3. Before(a, {get}, <<>>) BY DEF Before
  <2> HIDE DEF get, edges
  <2>4. QED BY <1>1, <1>2, <1>4, <1>6, <2>2, <2>3, ExpandStep
<1>7. QED BY <1>5, <1>6

LEMMA CheckoutFacts ==
  ASSUME NEW x, NEW v \in CheckoutsOf(x)
  PROVE  v.kind = "checkout" /\ IsPlain(v) /\ ~IsDecision(v)
BY UidFacts DEF CheckoutsOf, Checkout, IsPlain, IsDecision, Late, IsUpload, Root

LEMMA AddSourceStep == PlanInv /\ AddSource => PlanInv'
<1> SUFFICES ASSUME PlanInv, AddSource PROVE PlanInv' OBVIOUS
<1> DEFINE a == Now.args
           u == CreateSource(a.spec, a.source)
           up == IF a.upload THEN {UploadSource(a.spec, a.source)} ELSE {}
           V == CheckoutsOf(a.source) \cup up
           E == ({u} \X CheckoutsOf(a.source)) \cup ({Root} \X up) \cup (up \X {u})
<1>1. /\ pc = "adding" /\ Now.do = "add_spec" /\ a.source # NoItem
      /\ Expand(a, V, E, <<>>)
  BY DEF AddSource, Doing, Now
<1>2. a \in ArgType /\ a.prim = "source" BY <1>1, NowFacts, CallFacts DEF CallOK
<1>3. ResultOf(a) = u BY <1>1, <1>2, ResultType
<1>4. IsPlain(u) /\ ~Late(u) /\ ~IsDecision(u) /\ u # Root
  BY UidFacts DEF CreateSource, IsPlain, IsDecision, Late, IsUpload, Root
<1>5. \A v \in up : v.kind = "upload_src" /\ ~IsDecision(v) /\ v # Root
  BY UidFacts DEF UploadSource, IsDecision, Root
<1>6. \A v \in V : v.kind # "install" /\ ~IsDecision(v) BY <1>5, CheckoutFacts
<1>7. \A e \in E : MayLead(e[1], e[2]) /\ e[2] \in DOMAIN tree \cup (V \cup {ResultOf(a)})
  <2>1. ASSUME NEW e \in {u} \X CheckoutsOf(a.source)
        PROVE  MayLead(e[1], e[2]) /\ e[2] \in CheckoutsOf(a.source)
    BY <1>4, CheckoutFacts, PlainLeads
  <2>2. ASSUME NEW e \in {Root} \X up PROVE MayLead(e[1], e[2]) /\ e[2] \in up
    <3>1. e[1] = Root /\ e[2] \in up OBVIOUS
    <3>2. ~IsDecision(Root) /\ Root.kind # "check_virus" BY RootFacts
    <3> HIDE DEF up
    <3>3. QED BY <1>5, <3>1, <3>2 DEF MayLead
  <2>3. ASSUME NEW e \in up \X {u} PROVE MayLead(e[1], e[2]) /\ e[2] = u
    <3>1. e[1] \in up /\ e[2] = u OBVIOUS
    <3> HIDE DEF up, u
    <3>2. QED BY <1>4, <1>5, <3>1 DEF MayLead
  <2> HIDE DEF up, u
  <2>4. QED BY <1>3, <2>1, <2>2, <2>3
<1>8. Before(a, V, <<>>) BY DEF Before
<1> HIDE DEF V, E
<1>9. QED BY <1>1, <1>2, <1>6, <1>7, <1>8, ExpandStep

----------------------------------------------------------------------------
(* The decisions.                                                          *)

FirstDecision ==
  [initiator : DOMAIN tree, left : DOMAIN tree, right : DOMAIN tree,
   choice : {Unset, RIGHT}, expected : {Unset}, triggers : {{}}]

LEMMA DecisionAdded ==
  ASSUME PlannedTree, NEW V, NEW E, NEW dec \in FirstDecision, NEW d, d = DecisionBelow(dec.initiator),
         IsDecision(d), d \notin DOMAIN tree,
         IsPlain(dec.initiator), IsPlain(dec.left), IsPlain(dec.right),
         d.kind = "build_or_download" =>
           /\ dec.initiator = Install(d.spec)
           /\ dec.left.kind = "build" /\ dec.right.kind = "download_bin",
         d.kind = "create_or_download" =>
           /\ dec.initiator = GetSource(d.item)
           /\ dec.left.kind = "source" /\ dec.right.kind = "download",
         \A v \in V : ~IsDecision(v),
         \A e \in E : IsPlain(e[1]) /\ IsPlain(e[2]) /\ e[2] \in DOMAIN tree \cup V,
         GrownBy(V \cup {d}, E \cup {<<dec.initiator, d>>, <<d, dec.left>>, <<d, dec.right>>}),
         decisions' = Override(decisions, {d}, dec)
  PROVE  PlannedTree'
<1>1. PICK i, l, r \in DOMAIN tree : i = dec.initiator /\ l = dec.left /\ r = dec.right
  BY DEF FirstDecision
<1>2. /\ dec.choice \in {Unset, LEFT, RIGHT, BOTH} /\ dec.expected = Unset /\ dec.triggers = {}
      /\ dec \in [initiator : DOMAIN tree, left : DOMAIN tree, right : DOMAIN tree,
                  choice : {Unset, LEFT, RIGHT, BOTH}, expected : {Unset, LEFT, RIGHT, BOTH},
                  triggers : SUBSET ((DOMAIN tree) \X {LEFT, RIGHT})]
  BY DEF FirstDecision
<1>3. IsPlain(i) /\ IsPlain(l) /\ IsPlain(r) BY <1>1
<1>4. ~IsPlain(d) /\ d # Root /\ ~Late(d) /\ d.kind # "check_virus" BY KindsApart DEF Late
<1>5. \A u, p : IsPlain(u) /\ IsPlain(p) => MayLead(u, p) BY PlainLeads
<1>6. MayLead(i, d) /\ MayLead(d, l) /\ MayLead(d, r)
  <2>1. \A p : IsPlain(p) => ~IsDecision(p) /\ ~Late(p) /\ p # Root /\ p.kind # "check_virus"
    BY KindsApart DEF Late
  <2>2. QED BY <1>3, <1>4, <2>1 DEF MayLead
<1> DEFINE F == E \cup {<<i, d>>, <<d, l>>, <<d, r>>}
           W == V \cup {d}
<1>7. GrownBy(W, F) BY <1>1
<1>8. \A e \in F : MayLead(e[1], e[2]) /\ e[2] \in DOMAIN tree \cup W BY <1>5, <1>6
<1>9. /\ DOMAIN tree' = DOMAIN tree \cup W
      /\ \A u \in DOMAIN tree' : \A p :
           p \in tree'[u] <=> (u \in DOMAIN tree /\ p \in tree[u]) \/ \E e \in F : e[1] = u /\ e[2] = p
  BY <1>7 DEF GrownBy
<1>10. /\ DOMAIN decisions' = DOMAIN decisions \cup {d} /\ decisions'[d] = dec
       /\ \A c \in DOMAIN decisions : c # d => decisions'[c] = decisions[c]
  BY DEF Override
<1>11. \A c \in DOMAIN tree : IsDecision(c) => SameDecision(c)
  <2> SUFFICES ASSUME NEW c \in DOMAIN tree, IsDecision(c) PROVE SameDecision(c) OBVIOUS
  <2>1. PICK D : D = decisions[c] OBVIOUS
  <2>2. c \in DOMAIN decisions /\ D \in DecisionType BY <2>1 DEF PlannedTree, DecisionOK
  <2>3. decisions'[c] = D /\ c \in DOMAIN decisions' BY <1>10, <2>1, <2>2
  <2>4. D.choice \in {Unset, LEFT, RIGHT, BOTH}
        /\ D = [D EXCEPT !.choice = D.choice, !.triggers = D.triggers]
    BY <2>2 DEF DecisionType
  <2>5. QED BY <2>1, <2>3, <2>4 DEF SameDecision
<1>12. Dependents(tree', d) = {i}
  <2>1. \A v : v \in Dependents(tree', d) <=> v \in DOMAIN tree' /\ d \in tree'[v]
    BY DEF Dependents
  <2>2. \A v \in DOMAIN tree : d \notin tree[v] BY DEF PlannedTree
  <2>3. \A e \in F : e[2] = d <=> e = <<i, d>> BY <1>3, <1>4
  <2>4. <<i, d>> \in F /\ i \in DOMAIN tree' BY <1>9
  <2> HIDE DEF F
  <2>5. \A v : v \in Dependents(tree', d) <=> v = i
    BY <1>9, <2>1, <2>2, <2>3, <2>4
  <2>6. QED BY <2>5
<1>13. tree'[d] = {l, r}
  <2>1. \A e \in F : e[1] = d <=> e = <<d, l>> \/ e = <<d, r>> BY <1>3, <1>4
  <2>2. <<d, l>> \in F /\ <<d, r>> \in F /\ d \in DOMAIN tree' BY <1>9
  <2> HIDE DEF F
  <2>3. \A p : p \in tree'[d] <=> p \in {l, r} BY <1>9, <2>1, <2>2
  <2>4. QED BY <2>3
<1>14. DecisionOK(d)'
  <2>1. d \in DOMAIN decisions' BY <1>10
  <2>2. dec \in [initiator : DOMAIN tree', left : DOMAIN tree', right : DOMAIN tree',
                 choice : {Unset, LEFT, RIGHT, BOTH}, expected : {Unset, LEFT, RIGHT, BOTH},
                 triggers : SUBSET ((DOMAIN tree') \X {LEFT, RIGHT})]
    BY <1>2, <1>9
  <2>3. \A t \in dec.triggers : FALSE BY <1>2
  <2>4. QED BY <1>1, <1>2, <1>3, <1>10, <1>12, <1>13, <2>1, <2>2, <2>3 DEF DecisionOK, DecisionType
<1>15. \A v \in W : IsDecision(v) /\ v \notin DOMAIN tree => DecisionOK(v)' BY <1>14
<1> HIDE DEF W, F
<1>16. QED BY <1>7, <1>8, <1>11, <1>15, TreeGrows

LEMMA DecisionRest ==
  ASSUME CallsOK, NEW V, NEW d, DOMAIN tree' = DOMAIN tree \cup (V \cup {d}),
         \A v \in V : ~IsDecision(v),
         todo[1].do \in {"decide_install", "decide_source"},
         todo[1].do = "decide_install" => d = DecisionBelow(Install(todo[1].args.spec)),
         todo[1].do = "decide_source" => d = DecisionBelow(GetSource(todo[1].source))
  PROVE  RestOK
<1> SUFFICES ASSUME NEW j \in 2..Len(todo) PROVE CallOK(DOMAIN tree', todo[j]) BY DEF RestOK
<1>1. j \in 1..Len(todo) /\ 1 \in 1..Len(todo) /\ 1 # j OBVIOUS
<1>2. CallOK(DOMAIN tree, todo[j]) /\ Apart(todo[1], todo[j]) BY <1>1 DEF CallsOK
<1>3. ASSUME todo[j].do = "decide_install"
      PROVE  DecisionBelow(Install(todo[j].args.spec)) \notin DOMAIN tree'
  <2>1. PICK e : e = DecisionBelow(Install(todo[j].args.spec)) OBVIOUS
  <2>2. /\ e \notin DOMAIN tree /\ IsDecision(e)
        /\ e.kind = "build_or_download" /\ e.spec = todo[j].args.spec
    BY <1>2, <1>3, <2>1, BelowFacts, UidFacts DEF CallOK
  <2>3. e # d
    <3>1. CASE todo[1].do = "decide_install"
      <4>1. d.spec = todo[1].args.spec BY <3>1, BelowFacts, UidFacts
      <4>2. QED BY <1>2, <1>3, <2>2, <3>1, <4>1 DEF Apart
    <3>2. CASE todo[1].do = "decide_source" BY <2>2, <3>2, BelowFacts, UidFacts
    <3>3. QED BY <3>1, <3>2
  <2>4. QED BY <2>1, <2>2, <2>3
<1>4. ASSUME todo[j].do = "decide_source"
      PROVE  DecisionBelow(GetSource(todo[j].source)) \notin DOMAIN tree'
  <2>1. PICK e : e = DecisionBelow(GetSource(todo[j].source)) OBVIOUS
  <2>2. /\ e \notin DOMAIN tree /\ IsDecision(e)
        /\ e.kind = "create_or_download" /\ e.item = todo[j].source
    BY <1>2, <1>4, <2>1, BelowFacts, UidFacts DEF CallOK
  <2>3. e # d
    <3>1. CASE todo[1].do = "decide_source"
      <4>1. d.item = todo[1].source BY <3>1, BelowFacts, UidFacts
      <4>2. QED BY <1>2, <1>4, <2>2, <3>1, <4>1 DEF Apart
    <3>2. CASE todo[1].do = "decide_install" BY <2>2, <3>2, BelowFacts, UidFacts
    <3>3. QED BY <3>1, <3>2
  <2>4. QED BY <2>1, <2>2, <2>3
<1>5. QED BY <1>2, <1>3, <1>4, CallGrows

LEMMA AddInstallDecisionStep == PlanInv /\ AddInstallDecision => PlanInv'
<1> SUFFICES ASSUME PlanInv, AddInstallDecision PROVE PlanInv' OBVIOUS
<1> DEFINE a == Now.args
           i == Install(a.spec)
           r == DownloadBinary(a.spec)
           d == DecisionBelow(i)
           first == NewDecision(i, returned, r)
           dec == IF a.force THEN SetDecision(first, RIGHT) ELSE first
           E == {<<dec.initiator, d>>, <<d, dec.left>>, <<d, dec.right>>}
<1>1. /\ pc = "adding" /\ Now.do = "decide_install" /\ pc' = "adding" /\ ThenDo(<<>>)
      /\ AddDecision(tree, dec) /\ UNCHANGED sources
  BY DEF AddInstallDecision, Doing, Now
<1>2. PlannedTree /\ CallsOK /\ todo[1] = Now BY <1>1, NowFacts
<1>3. a \in ArgType BY <1>1, NowFacts, CallFacts
<1>4. i \in DOMAIN tree /\ r \in DOMAIN tree /\ d \notin DOMAIN tree BY <1>1, NowFacts DEF CallOK
<1>5. returned \in DOMAIN tree /\ returned = Build(a.spec) BY <1>1, NowFacts DEF Consumers, Takes
<1>6. /\ dec.initiator = i /\ dec.left = returned /\ dec.right = r /\ dec \in FirstDecision
  <2>1. first \in [initiator : DOMAIN tree, left : DOMAIN tree, right : DOMAIN tree,
                   choice : {Unset}, expected : {Unset}, triggers : {{}}]
        /\ first.initiator = i /\ first.left = returned /\ first.right = r
    BY <1>4, <1>5 DEF NewDecision
  <2>2. Agree(Unset, RIGHT) = RIGHT BY DEF Agree, Unset, RIGHT
  <2> HIDE DEF first, i, r
  <2>3. SetDecision(first, RIGHT) = [first EXCEPT !.choice = RIGHT]
    BY <2>1, <2>2 DEF SetDecision
  <2>4. QED BY <2>1, <2>3 DEF FirstDecision
<1>7. /\ d.kind = "build_or_download" /\ d.spec = a.spec /\ IsDecision(d)
  BY BelowFacts, UidFacts
<1>8. IsPlain(i) /\ IsPlain(returned) /\ IsPlain(r) /\ returned.kind = "build" /\ r.kind = "download_bin"
  BY <1>5, UidFacts DEF Install, Build, DownloadBinary, IsPlain, IsDecision, Late, IsUpload, Root
<1>9. tree' = Extended(tree, {d}, E) /\ decisions' = Override(decisions, {d}, dec)
  BY <1>1, <1>6 DEF AddDecision
<1>10. GrownBy({d}, E) BY <1>9, ExtendedTree
<1>11. GrownBy({} \cup {d}, {} \cup E)
  <2>1. {} \cup {d} = {d} /\ {} \cup E = E OBVIOUS
  <2>2. QED BY <1>10, <2>1
<1>12. PlannedTree'
  <2>1. d = DecisionBelow(dec.initiator) /\ i = Install(d.spec) BY <1>6, <1>7
  <2>2. PICK V, F : V = {} /\ F = {} OBVIOUS
  <2>3. \A v \in V : ~IsDecision(v) BY <2>2
  <2>4. \A e \in F : IsPlain(e[1]) /\ IsPlain(e[2]) /\ e[2] \in DOMAIN tree \cup V BY <2>2
  <2>5. GrownBy(V \cup {d}, F \cup {<<dec.initiator, d>>, <<d, dec.left>>, <<d, dec.right>>})
    BY <1>11, <2>2
  <2>6. /\ d.kind # "create_or_download" /\ IsPlain(dec.initiator) /\ IsPlain(dec.left)
        /\ IsPlain(dec.right) /\ dec.initiator = Install(d.spec)
        /\ dec.left.kind = "build" /\ dec.right.kind = "download_bin"
    BY <1>6, <1>7, <1>8
  <2>7. dec \in FirstDecision BY <1>6
  <2>8. decisions' = Override(decisions, {d}, dec) BY <1>9
  <2> HIDE DEF d, dec, i, r, a, E
  <2>9. QED BY <1>2, <1>4, <1>7, <2>1, <2>3, <2>4, <2>5, <2>6, <2>7, <2>8, DecisionAdded
<1>13. DOMAIN tree' = DOMAIN tree \cup ({} \cup {d}) BY <1>10 DEF GrownBy
<1>14. RestOK
  <2>1. d = DecisionBelow(Install(todo[1].args.spec)) BY <1>2
  <2>2. PICK V : V = {} OBVIOUS
  <2>3. \A v \in V : ~IsDecision(v) BY <2>2
  <2>4. DOMAIN tree' = DOMAIN tree \cup (V \cup {d}) BY <1>13, <2>2
  <2>5. todo[1].do = "decide_install" BY <1>1, <1>2
  <2> HIDE DEF d
  <2>6. QED BY <1>2, <2>1, <2>3, <2>4, <2>5, DecisionRest
<1>15. BuildsOK'
  <2> SUFFICES ASSUME NEW s \in Spec, Install(s) \in DOMAIN tree', HasPrimitive(s, "build")
               PROVE  Build(s) \in DOMAIN tree' \/ DecisionPending(s)'
    BY DEF BuildsOK
  <2>1. Install(s) \in DOMAIN tree BY <1>7, <1>13, UidFacts DEF Install
  <2>2. CASE s = a.spec BY <1>5, <1>13, <2>2
  <2>3. CASE s # a.spec
    <3>1. DOMAIN tree \subseteq DOMAIN tree' BY <1>13
    <3>2. QED BY <1>1, <2>1, <2>3, <3>1, NoCall, OldBuilds
  <2>4. QED BY <2>2, <2>3
<1>16. CallsOK' /\ todo' \in Seq(Calls) BY <1>1, <1>2, <1>14, NowFacts, PoppedSilent
<1>17. SourcesOK' BY <1>1, NowFacts DEF SourcesOK
<1>18. QED BY <1>1, <1>12, <1>15, <1>16, <1>17, AddingStep

LEMMA ExtendedTwice ==
  ASSUME NEW V, NEW E, NEW W, NEW F, tree' = Extended(Extended(tree, V, E), W, F),
         \A e \in E : e[1] \in DOMAIN tree \cup V
  PROVE  GrownBy(V \cup W, E \cup F)
<1>1. PICK g : g = Extended(tree, V, E) OBVIOUS
<1>2. \A X, u, p : p \in Targets(X, u) <=> \E e \in X : e[1] = u /\ e[2] = p BY DEF Targets
<1>3. /\ DOMAIN g = DOMAIN tree \cup V
      /\ \A u \in DOMAIN g : g[u] = (IF u \in DOMAIN tree THEN tree[u] ELSE {}) \cup Targets(E, u)
  BY <1>1 DEF Extended
<1>4. /\ DOMAIN tree' = DOMAIN g \cup W
      /\ \A u \in DOMAIN tree' : tree'[u] = (IF u \in DOMAIN g THEN g[u] ELSE {}) \cup Targets(F, u)
  BY <1>1 DEF Extended
<1>5. ASSUME NEW u \in DOMAIN tree', NEW p
      PROVE  p \in tree'[u] <=> \/ u \in DOMAIN tree /\ p \in tree[u]
                               \/ \E e \in E \cup F : e[1] = u /\ e[2] = p
  <2>1. (\E e \in E \cup F : e[1] = u /\ e[2] = p)
          <=> (\E e \in E : e[1] = u /\ e[2] = p) \/ (\E e \in F : e[1] = u /\ e[2] = p)
    OBVIOUS
  <2>2. CASE u \in DOMAIN g
    <3>1. tree'[u] = g[u] \cup Targets(F, u) BY <1>4, <2>2
    <3>2. p \in g[u] <=> (u \in DOMAIN tree /\ p \in tree[u]) \/ p \in Targets(E, u) BY <1>3, <2>2
    <3>3. QED BY <1>2, <2>1, <3>1, <3>2
  <2>3. CASE u \notin DOMAIN g
    <3>1. tree'[u] = {} \cup Targets(F, u) BY <1>4, <2>3
    <3>2. u \notin DOMAIN tree /\ ~\E e \in E : e[1] = u /\ e[2] = p BY <1>3, <2>3
    <3>3. QED BY <1>2, <2>1, <3>1, <3>2
  <2>4. QED BY <2>2, <2>3
<1>6. DOMAIN tree' = DOMAIN tree \cup (V \cup W) BY <1>3, <1>4
<1>7. QED BY <1>5, <1>6 DEF GrownBy

LEMMA AddSourceDecisionStep == PlanInv /\ AddSourceDecision => PlanInv'
<1> SUFFICES ASSUME PlanInv, AddSourceDecision PROVE PlanInv' OBVIOUS
<1> DEFINE x == Now.source
           i == GetSource(x)
           r == DownloadSource(x)
           d == DecisionBelow(i)
           dec == NewDecision(i, returned, r)
           V == CheckoutsOf(x)
           E == {returned} \X V
           F == {<<dec.initiator, d>>, <<d, dec.left>>, <<d, dec.right>>}
<1>1. /\ pc = "adding" /\ Now.do = "decide_source" /\ pc' = "adding" /\ ThenDo(<<>>)
      /\ AddDecision(Extended(tree, V, E), dec) /\ UNCHANGED sources
  BY DEF AddSourceDecision, Doing, Now
<1>2. PlannedTree /\ CallsOK /\ todo[1] = Now BY <1>1, NowFacts
<1>3. i \in DOMAIN tree /\ r \in DOMAIN tree /\ d \notin DOMAIN tree BY <1>1, NowFacts DEF CallOK
<1>4. returned \in DOMAIN tree /\ returned \in Results /\ returned.kind = "source"
  BY <1>1, NowFacts DEF Consumers, Takes
<1>5. dec.initiator = i /\ dec.left = returned /\ dec.right = r /\ dec \in FirstDecision
  BY <1>3, <1>4 DEF NewDecision, FirstDecision
<1>6. d.kind = "create_or_download" /\ d.item = x /\ IsDecision(d) BY BelowFacts, UidFacts
<1>7. IsPlain(i) /\ IsPlain(returned) /\ IsPlain(r) /\ r.kind = "download"
  BY <1>4, ResultFacts, UidFacts
     DEF GetSource, DownloadSource, IsPlain, IsDecision, Late, IsUpload, Root
<1>8. /\ tree' = Extended(Extended(tree, V, E), {d}, F)
      /\ decisions' = Override(decisions, {d}, dec)
  BY <1>1, <1>5 DEF AddDecision
<1>9. \A v \in V : ~IsDecision(v) /\ IsPlain(v) /\ v.kind = "checkout" BY CheckoutFacts
<1>10. \A e \in E : e[1] = returned /\ e[2] \in V OBVIOUS
<1>11. GrownBy(V \cup {d}, E \cup F)
  <2>1. \A e \in E : e[1] \in DOMAIN tree \cup V BY <1>4, <1>10
  <2> HIDE DEF V, E, F, d, i, r
  <2>2. QED BY <1>8, <2>1, ExtendedTwice
<1>12. PlannedTree'
  <2>1. d = DecisionBelow(dec.initiator) BY <1>5
  <2>2. /\ d.kind # "build_or_download" /\ IsPlain(dec.initiator) /\ IsPlain(dec.left)
        /\ IsPlain(dec.right) /\ dec.initiator = GetSource(d.item)
        /\ dec.left.kind = "source" /\ dec.right.kind = "download"
    BY <1>4, <1>5, <1>6, <1>7
  <2>3. \A e \in E : IsPlain(e[1]) /\ IsPlain(e[2]) /\ e[2] \in DOMAIN tree \cup V
    BY <1>7, <1>9, <1>10
  <2>4. GrownBy(V \cup {d}, E \cup {<<dec.initiator, d>>, <<d, dec.left>>, <<d, dec.right>>})
    BY <1>11
  <2>5. dec \in FirstDecision BY <1>5
  <2>6. decisions' = Override(decisions, {d}, dec) BY <1>8
  <2>7. \A v \in V : ~IsDecision(v) BY <1>9
  <2> HIDE DEF d, dec, i, r, V, E, F, x
  <2>8. QED BY <1>2, <1>3, <1>6, <2>1, <2>2, <2>3, <2>4, <2>5, <2>6, <2>7, DecisionAdded
<1>13. DOMAIN tree' = DOMAIN tree \cup (V \cup {d}) BY <1>11 DEF GrownBy
<1>14. RestOK
  <2>1. d = DecisionBelow(GetSource(todo[1].source)) BY <1>2
  <2>2. \A v \in V : ~IsDecision(v) BY <1>9
  <2> HIDE DEF d, V
  <2>3. QED BY <1>1, <1>2, <1>13, <2>1, <2>2, DecisionRest
<1>15. BuildsOK'
  <2>1. \A s \in Spec : Install(s) \in DOMAIN tree' => Install(s) \in DOMAIN tree
    <3>1. \A s : Install(s).kind = "install" BY UidFacts DEF Install
    <3>2. d.kind # "install" BY <1>6
    <3>3. QED BY <1>9, <1>13, <3>1, <3>2
  <2>2. DOMAIN tree \subseteq DOMAIN tree' BY <1>13
  <2>3. QED BY <1>1, <2>1, <2>2, NoCall, BuildsKept
<1>16. CallsOK' /\ todo' \in Seq(Calls) BY <1>1, <1>2, <1>14, NowFacts, PoppedSilent
<1>17. SourcesOK' BY <1>1, NowFacts DEF SourcesOK
<1>18. QED BY <1>1, <1>12, <1>15, <1>16, <1>17, AddingStep

\* A source that is needed.
LEMMA SourceEdgesFacts ==
  ASSUME NEW a \in ArgType, NEW x, NEW e \in SourceEdges(a, x),
         a.source # NoItem => a.prim = "source"
  PROVE  MayLead(e[1], e[2]) /\ e[2] \in {InstallSource(a.spec, x), GetSource(x)}
<1>1. IsPlain(ResultOf(a)) BY ResultType, ResultFacts
<1>2. IsPlain(InstallSource(a.spec, x)) /\ IsPlain(GetSource(x))
  BY UidFacts DEF InstallSource, GetSource, IsPlain, IsDecision, Late, IsUpload, Root
<1>3. QED BY <1>1, <1>2, PlainLeads DEF SourceEdges

LEMMA AddSourceInstallStep == PlanInv /\ AddSourceInstall => PlanInv'
<1> SUFFICES ASSUME PlanInv, AddSourceInstall PROVE PlanInv' OBVIOUS
<1> DEFINE a == Now.args
           x == Now.source
           install == InstallSource(a.spec, x)
           get == GetSource(x)
           down == DownloadSource(x)
           edges == SourceEdges(a, x)
           call == Inner(a, sources[x], "source")
           b == [call EXCEPT !.source = x]
           e == DecideSource(x)
<1>1. /\ pc = "adding" /\ Now.do = "source_need" /\ pc' = "adding"
      /\ UNCHANGED <<decisions, sources>> /\ x \in DOMAIN sources
  BY DEF AddSourceInstall, Doing, Now
<1>2. \/ /\ get \in DOMAIN tree /\ tree' = Extended(tree, {install}, edges) /\ ThenDo(<<>>)
      \/ /\ tree' = Extended(tree, {install, get, down}, edges \cup {<<get, down>>})
         /\ ThenDo(<<>>)
      \/ /\ get \notin DOMAIN tree /\ tree' = Extended(tree, {install, get, down}, edges)
         /\ ThenDo(<<AddSpec(b), e>>)
  BY DEF AddSourceInstall
<1>3. a \in ArgType /\ x \in Source /\ Grown(DOMAIN tree, a) BY <1>1, NowFacts, CallFacts DEF CallOK
<1>4. PlannedTree /\ SourcesOK /\ CallsOK BY <1>1, NowFacts
<1>5. \A v \in {install, get, down} : IsPlain(v) /\ v.kind # "install" /\ ~IsDecision(v)
  BY UidFacts DEF InstallSource, GetSource, DownloadSource, IsPlain, IsDecision, Late, IsUpload, Root
<1>6. \A f \in edges : MayLead(f[1], f[2]) /\ f[2] \in {install, get}
  BY <1>3, SourceEdgesFacts DEF Grown
<1>7. \A c \in DOMAIN tree : IsDecision(c) => SameDecision(c) BY <1>1, <1>4, DecisionsUnchanged
<1>8. SourcesOK' BY <1>1, NowFacts DEF SourcesOK
<1> HIDE DEF install, get, down, edges
<1>9. CASE get \in DOMAIN tree /\ tree' = Extended(tree, {install}, edges) /\ ThenDo(<<>>)
  <2>1. GrownBy({install}, edges) BY <1>9, ExtendedTree
  <2>2. Adds({install}, edges) BY <1>5, <1>6, <1>7, <1>9, <2>1 DEF Adds
  <2>3. PlannedTree' /\ BuildsOK' /\ RestOK BY <1>1, <1>9, <2>2, NoCall, AddsFacts
  <2>4. CallsOK' /\ todo' \in Seq(Calls) BY <1>1, <1>9, <2>3, NowFacts, PoppedSilent
  <2>5. QED BY <1>1, <1>8, <2>3, <2>4, AddingStep
<1>10. CASE /\ tree' = Extended(tree, {install, get, down}, edges \cup {<<get, down>>})
            /\ ThenDo(<<>>)
  <2>1. GrownBy({install, get, down}, edges \cup {<<get, down>>}) BY <1>10, ExtendedTree
  <2>2. MayLead(get, down) BY <1>5, PlainLeads
  <2>3. Adds({install, get, down}, edges \cup {<<get, down>>})
    BY <1>5, <1>6, <1>7, <2>1, <2>2 DEF Adds
  <2>4. PlannedTree' /\ BuildsOK' /\ RestOK BY <1>1, <1>10, <2>3, NoCall, AddsFacts
  <2>5. CallsOK' /\ todo' \in Seq(Calls) BY <1>1, <1>10, <2>4, NowFacts, PoppedSilent
  <2>6. QED BY <1>1, <1>8, <2>4, <2>5, AddingStep
<1>11. CASE /\ get \notin DOMAIN tree /\ tree' = Extended(tree, {install, get, down}, edges)
            /\ ThenDo(<<AddSpec(b), e>>)
  <2>1. GrownBy({install, get, down}, edges) BY <1>11, ExtendedTree
  <2>2. Adds({install, get, down}, edges) BY <1>5, <1>6, <1>7, <2>1 DEF Adds
  <2>3. sources[x] \in Spec BY <1>1, <1>4 DEF SourcesOK
  <2>4. b \in ArgType /\ b.prim = "source" /\ b.source = x
    <3>1. "source" \in Prim BY DEF Prim
    <3>2. call \in ArgType /\ call.prim = "source" BY <1>3, <2>3, <3>1, InnerFacts
    <3> HIDE DEF call
    <3>3. QED BY <1>3, <3>2, WithSource
  <2>5. e \in Calls /\ e.do = "decide_source" /\ e.source = x BY <1>3, CallTypes DEF DecideSource
  <2> HIDE DEF b, e, call
  <2>6. <<AddSpec(b), e>> \in Seq(Calls) BY <2>4, <2>5, CallTypes
  <2>7. PlannedTree' /\ BuildsOK' /\ RestOK BY <1>1, <1>11, <2>2, <2>6, AddsFacts
  <2>8. DOMAIN tree' = DOMAIN tree \cup {install, get, down} BY <2>1 DEF GrownBy
  <2>9. CallOK(DOMAIN tree', AddSpec(b)) BY <2>4 DEF CallOK, AddSpec
  <2>10. DecisionBelow(GetSource(x)) \notin DOMAIN tree'
    BY <1>4, <1>5, <1>11, <2>8, BelowFacts, DecisionsBelow DEF get
  <2>11. CallOK(DOMAIN tree', e) BY <2>5, <2>8, <2>10 DEF CallOK, get, down
  <2>12. NoItem \notin Source BY ContextAssumption
  <2>13. Aims(b, e) BY <1>3, <2>4, <2>5, <2>12 DEF Aims
  <2>14. ASSUME NEW j \in 2..Len(todo) PROVE Apart(e, todo[j])
    <3>1. j \in 1..Len(todo) OBVIOUS
    <3>2. CallOK(DOMAIN tree, todo[j]) BY <1>4, <3>1 DEF CallsOK
    <3>3. todo[j].do = "decide_source" => todo[j].source # x BY <1>11, <3>2 DEF CallOK, get
    <3>4. QED BY <2>5, <3>3 DEF Apart
  <2>15. CallsOK' /\ todo' \in Seq(Calls)
    BY <1>1, <1>11, <2>4, <2>5, <2>7, <2>9, <2>11, <2>13, <2>14, NowFacts, CallThen
  <2>16. QED BY <1>1, <1>8, <2>7, <2>15, AddingStep
<1>12. QED BY <1>2, <1>9, <1>10, <1>11

----------------------------------------------------------------------------
(* The lines of the plan.                                                  *)

LEMMA ExceptionStep == PlanInv /\ Raise => PlanInv' /\ pc' = "failed"
<1> SUFFICES ASSUME PlanInv, Raise PROVE PlanInv' /\ pc' = "failed" OBVIOUS
<1>1. pc' = "failed" /\ UNCHANGED <<tree, decisions, sources, todo>>
  BY DEF Raise, contextVars
<1>2. PlannedTree'
  BY <1>1 DEF PlanInv, PlannedTree, DecisionOK, DecisionType, Dependents
<1>3. QED BY <1>1, <1>2 DEF PlanInv, SourcesOK

LEMMA AddLineStep ==
  ASSUME PlanInv, NEW l \in Lines, AddLine(l)
  PROVE  PlanInv' /\ pc' = "adding"
<1> DEFINE a == Arguments(l.spec, l.prim, l)
           e == EndLine(l)
<1>1. /\ pc \in {"plan", "scheduled", "error"} /\ pc' = "adding" /\ todo' = <<AddSpec(a), e>>
      /\ UNCHANGED <<tree, decisions, sources>>
  BY DEF AddLine
<1>2. /\ l.spec \in Spec /\ l.prim \in Prim /\ l.upload \in BOOLEAN
  BY ContextAssumption DEF Line, Prim
<1>3. /\ a \in ArgType /\ a.prim = l.prim /\ a.spec = l.spec /\ a.source = NoItem
  BY <1>2 DEF Arguments, ArgType
<1>4. e \in Calls /\ e.do = "end_line" /\ e.line = l BY CallTypes DEF EndLine
<1>5. AddSpec(a) \in Calls /\ AddSpec(a).do = "add_spec" /\ AddSpec(a).args = a
  BY <1>3, CallTypes DEF AddSpec
<1> HIDE DEF a, e
<1>6. todo' \in Seq(Calls) BY <1>1, <1>4, <1>5
<1>7. /\ todo' # <<>> /\ Len(todo') = 2 /\ todo'[1] = AddSpec(a) /\ todo'[2] = e
      /\ \A i \in 1..Len(todo') : i = 1 \/ i = 2
      /\ \A i \in 1..(Len(todo') - 1) : i = 1
  BY <1>1
<1>8. PlannedTree' /\ SourcesOK'
  BY <1>1 DEF PlanInv, SourcesOK, PlannedTree, DecisionOK, DecisionType, Dependents
<1>9. BuildsOK'
  <2>1. todo = <<>> /\ BuildsOK BY <1>1 DEF PlanInv
  <2>2. \A s \in Spec : ~DecisionPending(s) BY <2>1 DEF DecisionPending
  <2>3. QED BY <1>1, <2>1, <2>2 DEF BuildsOK
<1>10. CallsOK'
  <2>1. CallOK(DOMAIN tree', AddSpec(a)) BY <1>3, <1>5 DEF CallOK
  <2>2. CallOK(DOMAIN tree', e) BY <1>4 DEF CallOK
  <2>3. Answers(AddSpec(a), e) BY <1>3, <1>4, <1>5 DEF Answers, Aims
  <2>4. AddSpec(a).do \notin Consumers BY <1>5 DEF Consumers
  <2>5. Apart(AddSpec(a), e) /\ Apart(e, AddSpec(a)) BY <1>4, <1>5 DEF Apart
  <2>6. \A i, j \in 1..Len(todo') : i # j => Apart(todo'[i], todo'[j]) BY <1>7, <2>5
  <2>7. \A i \in 1..Len(todo') :
          CallOK(DOMAIN tree', todo'[i]) /\ (todo'[i].do = "end_line" <=> i = Len(todo'))
    BY <1>4, <1>5, <1>7, <2>1, <2>2
  <2>8. \A i \in 1..(Len(todo') - 1) :
          todo'[i + 1].do \in Consumers => Answers(todo'[i], todo'[i + 1])
    <3>1. 1 + 1 = 2 OBVIOUS
    <3>2. QED BY <1>7, <2>3, <3>1
  <2>9. todo'[1].do \notin Consumers BY <1>7, <2>4
  <2>10. QED BY <1>7, <2>6, <2>7, <2>8, <2>9 DEF CallsOK
<1>11. QED BY <1>1, <1>6, <1>8, <1>9, <1>10 DEF PlanInv

\* The uploads of a build that is in the tree.
LEMMA UploadFacts ==
  ASSUME NEW l, NEW e \in UploadsOf(l), NEW N, N = {f[1] : f \in UploadsOf(l)} \ {Root}
  PROVE  /\ l.prim = "build" /\ MayLead(e[1], e[2])
         /\ e[2] \in N \cup {Build(l.spec)}
         /\ \A v \in N : v.kind \in {"check_virus", "upload_bin"}
<1> DEFINE s == l.spec
           up == UploadComponent(s)
           check == CheckVirus(s)
<1>1. /\ UploadsOf(l) = (IF Def[s].package THEN {<<Root, check>>, <<check, up>>} ELSE {<<Root, up>>})
                          \cup {<<up, Build(s)>>}
      /\ l.prim = "build"
  BY DEF UploadsOf
<1>2. up.kind = "upload_bin" /\ check.kind = "check_virus" /\ Root.kind = "root"
  BY UidFacts DEF UploadComponent, CheckVirus, Root
<1>3. /\ ~IsDecision(up) /\ ~IsDecision(check) /\ ~IsDecision(Root) /\ Late(up) /\ Late(check)
      /\ up # Root /\ check # Root
  BY <1>2 DEF IsDecision, Late, IsUpload
<1>4. ~IsDecision(Build(s)) /\ ~Late(Build(s)) /\ Build(s) # Root
  BY UidFacts DEF Build, IsDecision, Late, IsUpload, Root
<1>5. MayLead(Root, check) /\ MayLead(check, up) /\ MayLead(Root, up) /\ MayLead(up, Build(s))
  BY <1>2, <1>3, <1>4 DEF MayLead
<1>6. /\ e = <<Root, check>> \/ e = <<check, up>> \/ e = <<Root, up>> \/ e = <<up, Build(s)>>
      /\ \A f \in UploadsOf(l) : f[1] \in {Root, check, up}
      /\ e = <<Root, check>> => <<check, up>> \in UploadsOf(l)
      /\ <<up, Build(s)>> \in UploadsOf(l)
  <2>1. PICK x, y, z, w : x = <<Root, check>> /\ y = <<check, up>> /\ z = <<Root, up>> /\ w = <<up, Build(s)>>
    OBVIOUS
  <2>2. x[1] = Root /\ y[1] = check /\ z[1] = Root /\ w[1] = up BY <2>1
  <2>3. UploadsOf(l) = {x, y, w} \/ UploadsOf(l) = {z, w} BY <1>1, <2>1
  <2>4. x # z /\ x # w
    <3>1. x[2] = check /\ z[2] = up /\ w[2] = Build(s) /\ Build(s).kind = "build"
      BY <2>1, UidFacts DEF Build
    <3>2. QED BY <1>2, <3>1
  <2> HIDE DEF up, check, s
  <2>5. /\ e = x \/ e = y \/ e = z \/ e = w
        /\ \A f \in UploadsOf(l) : f[1] \in {Root, check, up}
        /\ e = x => y \in UploadsOf(l)
        /\ w \in UploadsOf(l)
    BY <2>2, <2>3, <2>4
  <2>6. QED BY <2>1, <2>5
<1> HIDE DEF up, check, s
<1>7. \A v \in N : v \in {check, up} BY <1>6
<1>8. up \in N
  <2>1. <<up, Build(s)>>[1] = up OBVIOUS
  <2>2. QED BY <1>3, <1>6, <2>1
<1>9. e = <<Root, check>> => check \in N
  <2>1. <<check, up>>[1] = check OBVIOUS
  <2>2. QED BY <1>3, <1>6, <2>1
<1>10. QED BY <1>1, <1>2, <1>5, <1>6, <1>7, <1>8, <1>9 DEF s

LEMMA FinishLineStep == PlanInv /\ FinishLine => PlanInv' /\ pc' = "plan"
<1> SUFFICES ASSUME PlanInv, FinishLine PROVE PlanInv' /\ pc' = "plan" OBVIOUS
<1> DEFINE l == Now.line
           N == {e[1] : e \in UploadsOf(l)} \ {Root}
           d == DecisionBelow(returned)
           which == IF l.prim = "build" THEN LEFT ELSE RIGHT
           chosen == l.prim \in {"build", "install"} /\ d \in tree[returned]
           E == UploadsOf(l) \cup {<<Root, returned>>}
<1>1. /\ pc = "adding" /\ Now.do = "end_line" /\ pc' = "plan" /\ todo' = <<>>
      /\ tree' = Extended(tree, N, E) /\ UNCHANGED sources
      /\ decisions' = IF chosen THEN [decisions EXCEPT ![d] = SetDecision(@, which)] ELSE decisions
  BY DEF FinishLine, Doing, Now
<1>2. PlannedTree /\ BuildsOK /\ Len(todo) = 1 /\ todo[1] = Now BY <1>1, NowFacts
<1>3. returned \in DOMAIN tree /\ Takes(Now, returned) BY <1>1, NowFacts DEF Consumers
<1>4. returned \in Results /\ IsPlain(returned) BY <1>3, ResultFacts DEF Takes
<1>5. \A s \in Spec : Install(s) \in DOMAIN tree /\ HasPrimitive(s, "build") => Build(s) \in DOMAIN tree
  <2>1. \A s : ~DecisionPending(s)
    <3>1. \A i \in 1..Len(todo) : i = 1 BY <1>2
    <3>2. QED BY <1>1, <1>2, <3>1 DEF DecisionPending
  <2>2. QED BY <1>2, <2>1 DEF BuildsOK
<1>6. l.prim = "build" => Build(l.spec) \in DOMAIN tree
  <2>1. l \in Lines BY <1>1, NowFacts, CallFacts
  <2>2. l.spec \in Spec BY <2>1, ContextAssumption DEF Line
  <2>3. QED BY <1>1, <1>3, <1>5, <2>2 DEF Takes
<1>7. \A c \in DOMAIN tree : IsDecision(c) => SameDecision(c)
  <2>1. CASE ~chosen BY <1>1, <1>2, <2>1, DecisionsUnchanged
  <2>2. CASE chosen
    <3>1. d \in DOMAIN tree BY <2>2, <1>2, <1>3 DEF PlannedTree
    <3>2. IsDecision(d)
      BY <1>4, UidFacts
      DEF Results, Build, Install, Test, CreateSources, CreateSource, DecisionBelow, IsDecision, Uid
    <3>3. which \in {LEFT, RIGHT} OBVIOUS
    <3> HIDE DEF d, which, chosen
    <3>4. QED BY <1>1, <1>2, <2>2, <3>1, <3>2, <3>3, DecisionSet
  <2>3. QED BY <2>1, <2>2
<1>8. GrownBy(N, E)
  <2> HIDE DEF N, E
  <2>1. QED BY <1>1, ExtendedTree
<1>9. MayLead(Root, returned)
  <2>1. ~Late(returned) /\ returned # Root /\ ~IsDecision(returned) BY <1>4, KindsApart
  <2>2. ~IsDecision(Root) /\ Root.kind # "check_virus" BY RootFacts
  <2>3. QED BY <2>1, <2>2 DEF MayLead
<1>10. /\ \A e \in UploadsOf(l) : MayLead(e[1], e[2]) /\ e[2] \in DOMAIN tree \cup N
       /\ \A v \in N : v.kind \in {"check_virus", "upload_bin"}
  <2>1. ASSUME NEW e \in UploadsOf(l)
        PROVE  /\ MayLead(e[1], e[2]) /\ e[2] \in DOMAIN tree \cup N
               /\ \A v \in N : v.kind \in {"check_virus", "upload_bin"}
    <3>1. PICK M : M = {f[1] : f \in UploadsOf(l)} \ {Root} OBVIOUS
    <3>2. /\ l.prim = "build" /\ MayLead(e[1], e[2]) /\ e[2] \in M \cup {Build(l.spec)}
          /\ \A v \in M : v.kind \in {"check_virus", "upload_bin"}
      BY <3>1, UploadFacts
    <3>3. M = N BY <3>1
    <3> HIDE DEF N
    <3>4. QED BY <1>6, <3>2, <3>3
  <2>2. \A v \in N : \E e \in UploadsOf(l) : TRUE OBVIOUS
  <2> HIDE DEF N
  <2>3. QED BY <2>1, <2>2
<1>11. \A e \in E : MayLead(e[1], e[2]) /\ e[2] \in DOMAIN tree \cup N BY <1>3, <1>9, <1>10
<1>12. \A v \in N : ~IsDecision(v) /\ v.kind # "install" BY <1>10 DEF IsDecision
<1> HIDE DEF N, E
<1>13. PlannedTree' BY <1>2, <1>7, <1>8, <1>11, <1>12, TreeGrows
<1>14. DOMAIN tree' = DOMAIN tree \cup N BY <1>8 DEF GrownBy
<1>15. BuildsOK'
  <2> SUFFICES ASSUME NEW s \in Spec, Install(s) \in DOMAIN tree', HasPrimitive(s, "build")
               PROVE  Build(s) \in DOMAIN tree'
    BY DEF BuildsOK
  <2>1. Install(s) \in DOMAIN tree BY <1>12, <1>14, UidFacts DEF Install
  <2>2. QED BY <1>5, <1>14, <2>1
<1>16. SourcesOK' BY <1>1, NowFacts DEF SourcesOK
<1>17. todo' \in Seq(Calls) BY <1>1
<1>18. QED BY <1>1, <1>13, <1>15, <1>16, <1>17 DEF PlanInv

LEMMA AddSpecStep == PlanInv /\ AddSpecNext => PlanInv' /\ pc' \in {"adding", "failed"}
<1> SUFFICES ASSUME PlanInv, AddSpecNext PROVE PlanInv' /\ pc' \in {"adding", "failed"} OBVIOUS
<1>1. CASE RejectSpec BY <1>1, ExceptionStep DEF RejectSpec
<1>2. CASE HandOver BY <1>2, HandOverStep, EnterFacts DEF HandOver
<1>3. CASE AddSources BY <1>3, AddSourcesStep, EnterFacts DEF AddSources
<1>4. CASE BuildSource BY <1>4, BuildSourceStep DEF BuildSource, Doing, scheduleVars
<1>5. CASE MeetAgain BY <1>5, MeetAgainStep, EnterFacts DEF MeetAgain
<1>6. \A a, V, E, batch : Expand(a, V, E, batch) => pc' = "adding"
  <2>1. \A ups : EnterSpec(ups) => pc' = "adding" BY EnterFacts
  <2>2. QED BY <2>1 DEF Expand
<1>7. CASE AddBuildOrTest BY <1>6, <1>7, AddBuildOrTestStep DEF AddBuildOrTest
<1>8. CASE AddInstall
  <2>1. pc' = "adding" BY <1>6, <1>8 DEF AddInstall
  <2>2. QED BY <1>8, <2>1, AddInstallStep
<1>9. CASE AddInstallDecision BY <1>9, AddInstallDecisionStep DEF AddInstallDecision, Doing
<1>10. CASE AddSource
  <2>1. pc' = "adding" BY <1>6, <1>10 DEF AddSource
  <2>2. QED BY <1>10, <2>1, AddSourceStep
<1>11. CASE LoadSourceDependency
  BY <1>11, LoadSourceDependencyStep DEF LoadSourceDependency, Doing, scheduleVars
<1>12. CASE CallDependency BY <1>12, CallDependencyStep DEF CallDependency, Doing, scheduleVars
<1>13. CASE FinishDependency BY <1>13, FinishDependencyStep DEF FinishDependency, Doing
<1>14. CASE RejectSource BY <1>14, ExceptionStep DEF RejectSource
<1>15. CASE AddSourceInstall BY <1>15, AddSourceInstallStep DEF AddSourceInstall, Doing
<1>16. CASE AddSourceDecision BY <1>16, AddSourceDecisionStep DEF AddSourceDecision, Doing
<1>17. CASE ConnectSource BY <1>17, ConnectSourceStep DEF ConnectSource, Doing
<1>18. CASE ReturnResult BY <1>18, ReturnResultStep DEF ReturnResult, Doing, scheduleVars
<1>19. QED BY <1>1, <1>2, <1>3, <1>4, <1>5, <1>7, <1>8, <1>9, <1>10, <1>11, <1>12, <1>13, <1>14,
              <1>15, <1>16, <1>17, <1>18 DEF AddSpecNext

----------------------------------------------------------------------------
(* The planning as a whole.                                                *)

LEMMA PlanInitially == ContextInit => PlanInv /\ ScheduleInv
<1> SUFFICES ASSUME ContextInit PROVE PlanInv /\ ScheduleInv OBVIOUS
<1>1. /\ DOMAIN tree = {Root} /\ tree[Root] = {} /\ pc = "plan" /\ sources = <<>> /\ todo = <<>>
  BY DEF ContextInit, ScheduleInit
<1>2. PlannedTree BY <1>1, RootFacts DEF PlannedTree
<1>3. SourcesOK BY <1>1 DEF SourcesOK
<1>4. todo \in Seq(Calls) BY <1>1, NoCall
<1>5. BuildsOK
  <2>1. \A s : Install(s) # Root BY UidFacts, RootFacts DEF Install
  <2>2. QED BY <1>1, <2>1 DEF BuildsOK
<1>6. QED BY <1>1, <1>2, <1>3, <1>4, <1>5 DEF PlanInv, ScheduleInv

LEMMA ScheduleKeepsPlan ==
  ASSUME PlanInv, ScheduleInv, ScheduleNext, UNCHANGED contextVars
  PROVE  PlanInv' /\ ScheduleInv'
<1>1. ScheduleInv' /\ PlannedTree' BY ScheduleStep DEF ScheduleInv
<1>2. /\ pc \in {"plan", "iterate", "uploads"} /\ pc' \in {"error", "iterate", "uploads", "scheduled"}
      /\ UNCHANGED tree
  <2>1. ASSUME NEW u, Visit(u)
        PROVE  pc = "iterate" /\ pc' \in {"iterate", "error"} /\ UNCHANGED tree
    BY <2>1
    DEF Visit, VisitDecision, VisitUpload, VisitChoice, RaiseUndecided, VisitAction, NextVertex
  <2>2. QED BY <2>1 DEF ScheduleNext, StartSchedule, VisitRoot, NextVertex, EndIteration, AddUpload, Return
<1>3. UNCHANGED <<sources, todo>> BY DEF contextVars
<1>4. todo = <<>> /\ BuildsOK /\ SourcesOK BY <1>2 DEF PlanInv
<1>5. BuildsOK' BY <1>2, <1>3, <1>4 DEF BuildsOK, DecisionPending
<1>6. SourcesOK' BY <1>3, <1>4 DEF SourcesOK
<1>7. QED BY <1>1, <1>2, <1>3, <1>4, <1>5, <1>6, NoCall DEF PlanInv

LEMMA PlanStep == PlanInv /\ ScheduleInv /\ [Next]_vars => PlanInv' /\ ScheduleInv'
<1> SUFFICES ASSUME PlanInv, ScheduleInv, [Next]_vars PROVE PlanInv' /\ ScheduleInv' OBVIOUS
<1>1. ASSUME PlanInv', pc' \in {"adding", "failed", "plan"} PROVE ScheduleInv'
  BY <1>1 DEF PlanInv, ScheduleInv
<1>2. ASSUME NEW l \in Lines, AddLine(l) PROVE PlanInv' /\ ScheduleInv'
  BY <1>1, <1>2, AddLineStep
<1>3. CASE AddSpecNext BY <1>1, <1>3, AddSpecStep
<1>4. CASE FinishLine BY <1>1, <1>4, FinishLineStep
<1>5. CASE ScheduleNext /\ UNCHANGED contextVars BY <1>5, ScheduleKeepsPlan
<1>6. CASE UNCHANGED vars
  <2>1. /\ UNCHANGED <<tree, decisions, resolver, localVars>> /\ pc' = pc
        /\ UNCHANGED <<sources, todo>>
    BY <1>6 DEF vars, scheduleVars, contextVars
  <2>2. ScheduleInv' BY <2>1, StillStep
  <2>3. UNCHANGED <<tree, returned>> BY <1>6 DEF vars, scheduleVars, contextVars
  <2>4. PlannedTree' BY <2>2 DEF ScheduleInv
  <2>5. QED BY <2>1, <2>2, <2>3, <2>4 DEF PlanInv, SourcesOK, BuildsOK, DecisionPending, CallsOK
<1>7. QED BY <1>2, <1>3, <1>4, <1>5, <1>6 DEF Next, Done

LEMMA PlanInvHolds == PlanSpec => [](PlanInv /\ ScheduleInv)
<1>1. ContextInit => PlanInv /\ ScheduleInv BY PlanInitially
<1>2. (PlanInv /\ ScheduleInv) /\ [Next]_vars => (PlanInv /\ ScheduleInv)' BY PlanStep
<1>3. QED BY <1>1, <1>2, PTL DEF PlanSpec

\* What schedule returns depends on neither the order of its iteration nor what
\* an earlier schedule has left: the vertices and the edges of its result are
\* those that the tree and the decisions of the plan call for, whatever lines
\* add_anod_action was given before and however often it was scheduled.
THEOREM ScheduleIsExactHolds == PlanSpec => []ScheduleIsExact
<1>1. PlanInv /\ ScheduleInv => ScheduleIsExact BY ExactOnceScheduled
<1>2. QED BY <1>1, PlanInvHolds, PTL

\* Whatever an action of the result needs is in the result, before it: all that
\* the tree has below it, and one side of a decision that alone leads to both.
THEOREM NeedsScheduledHolds == PlanSpec => []NeedsScheduled
<1>1. PlanInv /\ ScheduleInv => NeedsScheduled BY NeededOnceScheduled
<1>2. QED BY <1>1, PlanInvHolds, PTL

----------------------------------------------------------------------------
(* The errors of schedule.                                                 *)

LEMMA SmallestNat ==
  ASSUME NEW T \in SUBSET Nat, T # {}
  PROVE  \E n \in T : \A m \in T : n <= m
<1> DEFINE Intervals == {0..n : n \in T}
<1>1. Intervals \subseteq FiniteSubsetsOf(Nat) /\ Intervals # {}
  <2>1. \A n \in T : 0..n \in SUBSET Nat /\ IsFiniteSet(0..n) BY FS_Interval
  <2>2. QED BY <2>1 DEF FiniteSubsetsOf
<1>2. \E A \in Intervals : \A B \in Intervals : <<B, A>> \notin StrictSubsetOrdering(Nat)
  <2> HIDE DEF Intervals
  <2>1. IsWellFoundedOn(StrictSubsetOrdering(Nat), FiniteSubsetsOf(Nat))
    BY FS_StrictSubsetOrderingWellFounded
  <2>2. QED BY <1>1, <2>1, WFMin
<1>3. PICK n \in T : \A m \in T : <<0..m, 0..n>> \notin StrictSubsetOrdering(Nat)
  BY <1>2
<1>4. ASSUME NEW m \in T, m < n PROVE FALSE
  <2>1. 0..m \subseteq 0..n /\ n \in 0..n /\ n \notin 0..m BY <1>4
  <2>2. <<0..m, 0..n>> \in StrictSubsetOrdering(Nat) BY <2>1 DEF StrictSubsetOrdering
  <2>3. QED BY <1>3, <2>2
<1>5. \A m \in T : n <= m BY <1>4
<1>6. QED BY <1>5

\* f[n] has the vertices from which n edges or fewer lead to u.
IsAbove(f, g, u, n) ==
  f = [m \in 0..n |-> IF m = 0 THEN {u} ELSE WithDependents(g, f[m - 1])]

\* The recursive definition of Above has a solution.
LEMMA AboveDef ==
  ASSUME NEW g, NEW u, Cardinality(DOMAIN g) \in Nat
  PROVE  \E f : /\ IsAbove(f, g, u, Cardinality(DOMAIN g))
                /\ Above(g, u) = f[Cardinality(DOMAIN g)] \ {u}
<1> DEFINE Bad == {n \in Nat : ~ \E f : IsAbove(f, g, u, n)}
<1>1. Bad = {}
  <2> SUFFICES ASSUME Bad # {} PROVE FALSE OBVIOUS
  <2>1. PICK n \in Bad : \A m \in Bad : n <= m BY SmallestNat
  <2>2. CASE n = 0
    <3> DEFINE f == [m \in 0..0 |-> {u}]
    <3>1. IsAbove(f, g, u, 0) BY DEF IsAbove
    <3>2. QED BY <2>1, <2>2, <3>1
  <2>3. CASE n # 0
    <3>1. n - 1 \in Nat /\ n - 1 \notin Bad
      <4> HIDE DEF Bad
      <4>1. n \in Nat BY <2>1 DEF Bad
      <4>2. QED BY <4>1, <2>1, <2>3
    <3>2. PICK f : IsAbove(f, g, u, n - 1) BY <3>1
    <3> DEFINE h == [m \in 0..n |-> IF m = n THEN WithDependents(g, f[n - 1]) ELSE f[m]]
    <3>3. ASSUME NEW m \in 0..n
          PROVE  h[m] = IF m = 0 THEN {u} ELSE WithDependents(g, h[m - 1])
      <4>1. CASE m = n BY <2>3, <3>1, <4>1
      <4>2. CASE m # n
        <5>1. m \in 0..(n - 1) /\ h[m] = f[m] BY <4>2
        <5>2. f[m] = IF m = 0 THEN {u} ELSE WithDependents(g, f[m - 1])
          BY <3>2, <5>1 DEF IsAbove
        <5>3. m # 0 => m - 1 \in 0..n /\ m - 1 # n /\ h[m - 1] = f[m - 1] BY <5>1
        <5>4. QED BY <5>1, <5>2, <5>3
      <4>3. QED BY <4>1, <4>2
    <3>4. IsAbove(h, g, u, n) BY <3>3 DEF IsAbove
    <3>5. QED BY <2>1, <3>4
  <2>4. QED BY <2>2, <2>3
<1>2. PICK n \in Nat : n = Cardinality(DOMAIN g) OBVIOUS
<1>3. \E f : IsAbove(f, g, u, n) BY <1>1
<1>4. PICK f : f = CHOOSE h : IsAbove(h, g, u, n) OBVIOUS
<1>5. IsAbove(f, g, u, n) BY <1>3, <1>4
<1>6. Above(g, u) = f[n] \ {u} BY <1>2, <1>4, Zenon DEF Above, IsAbove
<1>7. QED BY <1>2, <1>5, <1>6

LEMMA AboveSteps ==
  ASSUME NEW g, NEW u \in DOMAIN g, NEW N \in Nat, NEW f, IsAbove(f, g, u, N)
  PROVE  /\ f[0] = {u}
         /\ \A n \in 1..N : f[n] = WithDependents(g, f[n - 1])
         /\ \A n \in 0..N : u \in f[n] /\ f[n] \subseteq DOMAIN g
<1>1. \A n \in 0..N : f[n] = IF n = 0 THEN {u} ELSE WithDependents(g, f[n - 1])
  BY Zenon DEF IsAbove
<1>2. f[0] = {u}
  <2>1. 0 \in 0..N OBVIOUS
  <2>2. QED BY <1>1, <2>1, Zenon
<1>3. ASSUME NEW n \in 1..N PROVE f[n] = WithDependents(g, f[n - 1])
  <2>1. n \in 0..N /\ n # 0 OBVIOUS
  <2>2. QED BY <1>1, <2>1, Zenon
<1>4. {n \in 0..N : ~(u \in f[n] /\ f[n] \subseteq DOMAIN g)} = {}
  <2> DEFINE Bad == {n \in 0..N : ~(u \in f[n] /\ f[n] \subseteq DOMAIN g)}
  <2> SUFFICES ASSUME Bad # {} PROVE FALSE OBVIOUS
  <2>1. PICK n \in Bad : \A m \in Bad : n <= m
    <3>1. Bad \in SUBSET Nat OBVIOUS
    <3> HIDE DEF Bad
    <3>2. QED BY <3>1, SmallestNat
  <2>2. n \in 0..N BY <2>1
  <2>3. n # 0 BY <1>2, <2>1
  <2>4. n - 1 \in 0..N /\ n \in 1..N /\ ~(n <= n - 1) BY <2>2, <2>3
  <2>5. u \in f[n - 1] /\ f[n - 1] \subseteq DOMAIN g BY <2>1, <2>4
  <2>6. QED BY <1>3, <2>1, <2>4, <2>5 DEF WithDependents
<1>5. QED BY <1>2, <1>3, <1>4

\* After as many rounds as there are vertices nothing is added.
LEMMA AboveFix ==
  ASSUME NEW g, NEW u \in DOMAIN g, IsFiniteSet(DOMAIN g), NEW N, N = Cardinality(DOMAIN g),
         NEW f, IsAbove(f, g, u, N)
  PROVE  WithDependents(g, f[N]) \subseteq f[N]
<1> DEFINE More(n) == ~(WithDependents(g, f[n]) \subseteq f[n])
           Bad == {n \in 0..N : More(n) /\ ~(Cardinality(f[n]) > n)}
<1>1. N \in Nat BY FS_CardinalityType
<1>2. /\ f[0] = {u}
      /\ \A n \in 1..N : f[n] = WithDependents(g, f[n - 1])
      /\ \A n \in 0..N : f[n] \subseteq DOMAIN g
  BY <1>1, AboveSteps
<1>3. \A n \in 0..N : IsFiniteSet(f[n]) /\ Cardinality(f[n]) \in Nat
  BY <1>2, FS_Subset, FS_CardinalityType
<1>4. Bad = {}
  <2> SUFFICES ASSUME Bad # {} PROVE FALSE OBVIOUS
  <2>1. PICK n \in Bad : \A m \in Bad : n <= m
    <3>1. Bad \in SUBSET Nat BY <1>1
    <3> HIDE DEF Bad
    <3>2. QED BY <3>1, SmallestNat
  <2>2. n \in 0..N BY <2>1
  <2>3. n # 0
    <3>1. Cardinality(f[0]) = 1 BY <1>2, FS_Singleton
    <3>2. QED BY <2>1, <3>1
  <2>4. n - 1 \in 0..N /\ n \in 1..N /\ ~(n <= n - 1) BY <1>1, <2>2, <2>3
  <2>5. f[n] = WithDependents(g, f[n - 1]) BY <1>2, <2>4
  <2>6. CASE ~More(n - 1)
    <3>1. f[n] = f[n - 1] BY <2>5, <2>6 DEF WithDependents
    <3>2. ~More(n) BY <2>6, <3>1
    <3>3. QED BY <2>1, <3>2
  <2>7. CASE More(n - 1)
    <3>1. Cardinality(f[n - 1]) > n - 1 BY <2>1, <2>4, <2>7
    <3>2. f[n - 1] \subseteq f[n] /\ f[n - 1] # f[n] BY <2>5, <2>7 DEF WithDependents
    <3>3. IsFiniteSet(f[n]) /\ Cardinality(f[n]) \in Nat /\ Cardinality(f[n - 1]) \in Nat
      BY <1>3, <2>2, <2>4
    <3>4. Cardinality(f[n - 1]) <= Cardinality(f[n]) /\ Cardinality(f[n - 1]) # Cardinality(f[n])
      BY <3>2, <3>3, FS_Subset
    <3>5. Cardinality(f[n]) > n BY <2>2, <3>1, <3>3, <3>4
    <3>6. QED BY <2>1, <3>5
  <2>8. QED BY <2>6, <2>7
<1>5. N \in 0..N BY <1>1
<1>6. ~(Cardinality(f[N]) > N)
  <2>1. Cardinality(f[N]) <= N BY <1>2, <1>5, FS_Subset
  <2>2. QED BY <1>1, <1>3, <1>5, <2>1
<1>7. QED BY <1>4, <1>5, <1>6

\* What depends on u, with u, is the least set that has u and whoever depends
\* on one of its members.
LEMMA AboveLeast ==
  ASSUME NEW g, NEW u \in DOMAIN g, IsFiniteSet(DOMAIN g)
  PROVE  \E T \in SUBSET DOMAIN g :
           /\ Above(g, u) = T \ {u} /\ u \in T /\ WithDependents(g, T) \subseteq T
           /\ \A S : u \in S /\ WithDependents(g, S) \subseteq S => T \subseteq S
<1>1. PICK N \in Nat : N = Cardinality(DOMAIN g) BY FS_CardinalityType
<1>2. PICK f : IsAbove(f, g, u, N) /\ Above(g, u) = f[N] \ {u} BY <1>1, AboveDef
<1>3. /\ f[0] = {u}
      /\ \A n \in 1..N : f[n] = WithDependents(g, f[n - 1])
      /\ \A n \in 0..N : u \in f[n] /\ f[n] \subseteq DOMAIN g
  BY <1>2, AboveSteps
<1>4. WithDependents(g, f[N]) \subseteq f[N] BY <1>1, <1>2, AboveFix
<1>5. ASSUME NEW S, u \in S, WithDependents(g, S) \subseteq S PROVE f[N] \subseteq S
  <2> DEFINE Bad == {n \in 0..N : ~(f[n] \subseteq S)}
  <2>1. Bad = {}
    <3> SUFFICES ASSUME Bad # {} PROVE FALSE OBVIOUS
    <3>1. PICK n \in Bad : \A m \in Bad : n <= m
      <4>1. Bad \in SUBSET Nat OBVIOUS
      <4> HIDE DEF Bad
      <4>2. QED BY <4>1, SmallestNat
    <3>2. n \in 0..N BY <3>1
    <3>3. n # 0 BY <1>3, <1>5, <3>1
    <3>4. n - 1 \in 0..N /\ n \in 1..N /\ ~(n <= n - 1) BY <3>2, <3>3
    <3>5. f[n - 1] \subseteq S BY <3>1, <3>4
    <3>6. f[n] = WithDependents(g, f[n - 1]) BY <1>3, <3>4
    <3>7. f[n] \subseteq WithDependents(g, S) BY <3>5, <3>6 DEF WithDependents
    <3>8. QED BY <1>5, <3>1, <3>7
  <2>2. N \in 0..N OBVIOUS
  <2>3. QED BY <2>1, <2>2
<1>6. N \in 0..N OBVIOUS
<1>7. QED BY <1>2, <1>3, <1>4, <1>5, <1>6

\* Whoever is in the result is there for the root.
DagRooted ==
  \A S \in SUBSET DOMAIN dag :
    S # {} /\ (\A w \in S : Dependents(dag, w) \subseteq S) => Root \in S

LEMMA RootedGrows ==
  ASSUME DagRooted, NEW u, NEW S \in SUBSET DOMAIN dag, u \notin DOMAIN dag,
         \A v \in DOMAIN dag : dag[v] \subseteq DOMAIN dag,
         PutBelow(dag', dag, u, S), u = Root \/ S # {}
  PROVE  DagRooted'
<1> SUFFICES ASSUME NEW T \in SUBSET DOMAIN dag', T # {},
                    \A w \in T : Dependents(dag', w) \subseteq T
             PROVE  Root \in T
  BY DEF DagRooted, Dependents
<1>1. /\ DOMAIN dag' = DOMAIN dag \cup {u}
      /\ \A v \in DOMAIN dag : dag'[v] = dag[v] \cup (IF v \in S THEN {u} ELSE {})
      /\ dag'[u] = {}
  BY DEF PutBelow
<1>2. \A w \in T \ {u} : Dependents(dag, w) \subseteq T \ {u} BY <1>1 DEF Dependents
<1>3. CASE T \ {u} # {}
  <2>1. T \ {u} \in SUBSET DOMAIN dag BY <1>1
  <2>2. QED BY <1>2, <1>3, <2>1 DEF DagRooted
<1>4. CASE T \ {u} = {}
  <2>1. T = {u} BY <1>4
  <2>2. S \subseteq Dependents(dag', u) BY <1>1 DEF Dependents
  <2>3. S = {} BY <2>1, <2>2
  <2>4. QED BY <2>1, <2>3
<1>5. QED BY <1>3, <1>4

\* The place that a vertex takes in the result.
LEMMA DagFacts ==
  ASSUME ScheduleInv, NEW u, NextVertex(u)
  PROVE  /\ PlannedTree /\ DagOK /\ u \in DOMAIN tree /\ u \notin DOMAIN dag
         /\ DOMAIN dag \subseteq DOMAIN tree /\ \A v \in DOMAIN dag : dag[v] \subseteq DOMAIN dag
<1>1. Iterating(u) /\ u \notin Handled /\ u \in DOMAIN tree BY IteratingFacts
<1>2. PlannedTree /\ DagOK BY <1>1 DEF Iterating
<1>3. QED BY <1>1, <1>2 DEF DagOK, Handled, Seen

LEMMA RootedStep ==
  ASSUME ScheduleInv, ScheduleNext, pc = "iterate" => DagRooted, pc' = "iterate"
  PROVE  DagRooted'
<1>1. ASSUME dag' = dag, DagRooted PROVE DagRooted' BY <1>1 DEF DagRooted, Dependents
<1>2. ASSUME NEW r \in Resolvers, StartSchedule(r) PROVE DagRooted'
  <2>1. DOMAIN dag' = {} BY <1>2 DEF StartSchedule
  <2>2. QED BY <2>1 DEF DagRooted
<1>3. CASE VisitRoot
  <2>1. NextVertex(Root) /\ dag' = Extended(dag, {Root}, {}) BY <1>3 DEF VisitRoot
  <2>2. DagRooted BY <2>1 DEF NextVertex
  <2>3. /\ Root \notin DOMAIN dag /\ \A v \in DOMAIN dag : dag[v] \subseteq DOMAIN dag
    BY <2>1, DagFacts
  <2>4. PICK S : S = {} OBVIOUS
  <2>5. \A v : Targets(S, v) = IF v \in S THEN {Root} ELSE {} BY <2>4 DEF Targets
  <2>6. S \subseteq DOMAIN dag /\ dag' = Extended(dag, {Root}, S) BY <2>1, <2>4
  <2>7. PutBelow(dag', dag, Root, S) BY <2>3, <2>5, <2>6, ExtendedFacts
  <2>8. QED BY <2>2, <2>3, <2>6, <2>7, RootedGrows
<1>4. ASSUME NEW u, NEW S \in SUBSET DOMAIN dag, NextVertex(u), S # {},
             dag' = ExtendedBelow(dag, u, S)
      PROVE  DagRooted'
  <2>1. DagRooted BY <1>4 DEF NextVertex
  <2>2. u \notin DOMAIN dag /\ \A v \in DOMAIN dag : dag[v] \subseteq DOMAIN dag
    BY <1>4, DagFacts
  <2>3. PutBelow(dag', dag, u, S) BY <1>4, <2>2, ExtendedBelowFacts
  <2>4. QED BY <1>4, <2>1, <2>2, <2>3, RootedGrows
<1>5. ASSUME NEW u \in remaining, Visit(u) PROVE DagRooted'
  <2>1. CASE VisitDecision(u) BY <1>1, <2>1 DEF VisitDecision, NextVertex
  <2>2. CASE VisitUpload(u) BY <1>1, <2>2 DEF VisitUpload, NextVertex
  <2>3. CASE VisitChoice(u)
    <3>1. NextVertex(u) /\ DagRooted BY <2>3 DEF VisitChoice, NextVertex
    <3>2. CASE DecisionOf(u).initiator \in DOMAIN dag /\ Chosen(u)
      <4>1. PICK S : S = {DecisionOf(u).initiator} OBVIOUS
      <4>2. S # {} /\ S \in SUBSET DOMAIN dag /\ dag' = ExtendedBelow(dag, u, S)
        BY <2>3, <3>2, <4>1 DEF VisitChoice
      <4>3. QED BY <1>4, <3>1, <4>2
    <3>3. CASE ~(DecisionOf(u).initiator \in DOMAIN dag /\ Chosen(u))
      BY <1>1, <2>3, <3>1, <3>3 DEF VisitChoice
    <3>4. QED BY <3>2, <3>3
  <2>4. CASE RaiseUndecided(u) BY <2>4 DEF RaiseUndecided
  <2>5. CASE VisitAction(u)
    <3>1. NextVertex(u) /\ DagRooted BY <2>5 DEF VisitAction, NextVertex
    <3>2. PICK S : S = Parents(u) \cap DOMAIN dag OBVIOUS
    <3>3. S # {} => dag' = ExtendedBelow(dag, u, S) BY <2>5, <3>2 DEF VisitAction
    <3>4. S = {} => dag' = dag BY <2>5, <3>2 DEF VisitAction
    <3>5. S \in SUBSET DOMAIN dag BY <3>2
    <3>6. QED BY <1>1, <1>4, <3>1, <3>3, <3>4, <3>5
  <2>6. QED BY <1>5, <2>1, <2>2, <2>3, <2>4, <2>5 DEF Visit
<1>6. CASE EndIteration BY <1>6 DEF EndIteration
<1>7. CASE AddUpload BY <1>7 DEF AddUpload
<1>8. CASE Return BY <1>8 DEF Return
<1>9. QED BY <1>2, <1>3, <1>5, <1>6, <1>7, <1>8 DEF ScheduleNext

\* The search upwards from the vertex that cannot be decided comes to the root.
LEMMA RaiseExplained ==
  ASSUME ScheduleInv, DagRooted, IsFiniteSet(DOMAIN tree), NEW u, RaiseUndecided(u)
  PROVE  initiators' # {} /\ initiators' \subseteq tree[Root]
<1>1. NextVertex(u) /\ IsPlain(u) /\ DecisionDriven(u) /\ Undecided(u) BY DEF RaiseUndecided
<1>2. /\ PlannedTree /\ DagOK /\ u \in DOMAIN tree /\ u \notin DOMAIN dag
      /\ DOMAIN dag \subseteq DOMAIN tree /\ \A v \in DOMAIN dag : dag[v] \subseteq DOMAIN dag
  BY <1>1, DagFacts
<1>3. PICK i \in DOMAIN dag : i = DecisionOf(u).initiator BY <1>1 DEF Undecided
<1>4. PICK g : g = ExtendedBelow(dag, u, {i}) OBVIOUS
<1>5. initiators' = {v \in Above(g, u) : Root \in Dependents(g, v)}
  BY <1>3, <1>4 DEF RaiseUndecided
<1>6. /\ DOMAIN g = DOMAIN dag \cup {u} /\ g[u] = {}
      /\ \A v \in DOMAIN dag : g[v] = dag[v] \cup (IF v \in {i} THEN {u} ELSE {})
  <2>1. PICK S : S = {i} OBVIOUS
  <2>2. S \subseteq DOMAIN dag BY <2>1
  <2>3. PutBelow(g, dag, u, S) BY <1>2, <1>4, <2>1, <2>2, ExtendedBelowFacts
  <2>4. QED BY <2>1, <2>3 DEF PutBelow
<1>7. i # Root /\ u # Root
  <2>1. PICK d \in DOMAIN tree : DecisionOf(u) = decisions[d] /\ DecisionOK(d)
    BY <1>1, <1>2, DrivenFacts
  <2>2. IsPlain(i) BY <1>3, <2>1 DEF DecisionOK
  <2>3. QED BY <1>1, <2>2, KindsApart
<1>8. IsFiniteSet(DOMAIN g)
  <2>1. DOMAIN g \subseteq DOMAIN tree BY <1>2, <1>6
  <2>2. QED BY <2>1, FS_Subset
<1>9. PICK T \in SUBSET DOMAIN g :
        /\ Above(g, u) = T \ {u} /\ u \in T /\ WithDependents(g, T) \subseteq T
        /\ \A S : u \in S /\ WithDependents(g, S) \subseteq S => T \subseteq S
  <2>1. u \in DOMAIN g BY <1>6
  <2>2. QED BY <1>8, <2>1, AboveLeast
<1>10. Root \in T
  <2>1. i \in T \ {u} BY <1>2, <1>3, <1>6, <1>9 DEF WithDependents
  <2>2. T \ {u} \in SUBSET DOMAIN dag BY <1>6
  <2>3. \A w \in T \ {u} : Dependents(dag, w) \subseteq T \ {u}
    BY <1>2, <1>6, <1>9 DEF Dependents, WithDependents
  <2>4. QED BY <2>1, <2>2, <2>3 DEF DagRooted
<1>11. \E v \in T : v \in g[Root]
  <2> SUFFICES ASSUME \A v \in T : v \notin g[Root] PROVE FALSE OBVIOUS
  <2>1. u \in T \ {Root} BY <1>7, <1>9
  <2>2. WithDependents(g, T \ {Root}) \subseteq T \ {Root} BY <1>9 DEF WithDependents
  <2>3. T \subseteq T \ {Root} BY <1>9, <2>1, <2>2
  <2>4. QED BY <1>10, <2>3
<1>12. Root \in DOMAIN dag /\ g[Root] = dag[Root] BY <1>6, <1>7, <1>10
<1>13. initiators' # {}
  <2>1. PICK v \in T : v \in g[Root] BY <1>11
  <2>2. v # u BY <1>2, <1>12, <2>1
  <2>3. Root \in Dependents(g, v) BY <1>6, <1>12, <2>1 DEF Dependents
  <2>4. QED BY <1>5, <1>9, <2>1, <2>2, <2>3
<1>14. dag[Root] \subseteq tree[Root]
  <2> SUFFICES ASSUME NEW p \in dag[Root], p \notin tree[Root] PROVE FALSE OBVIOUS
  <2>1. Leads(Root, p) BY <1>2, <1>12 DEF DagOK
  <2>2. DecisionDriven(p) /\ DecisionOf(p).initiator = Root BY <2>1 DEF Leads
  <2>3. PICK d \in DOMAIN tree : DecisionOf(p) = decisions[d] /\ DecisionOK(d)
    BY <1>2, <2>2, DrivenFacts
  <2>4. IsPlain(Root) BY <2>2, <2>3 DEF DecisionOK
  <2>5. QED BY <2>4, RootFacts
<1>15. initiators' \subseteq tree[Root] BY <1>5, <1>12, <1>14 DEF Dependents
<1>16. QED BY <1>13, <1>15

LEMMA ErrorStep ==
  ASSUME ScheduleInv, ScheduleNext, pc = "iterate" => DagRooted, IsFiniteSet(DOMAIN tree)
  PROVE  ErrorIsExplained'
<1> SUFFICES ASSUME pc' = "error", ~Cyclic(tree)'
             PROVE  initiators' # {} /\ initiators' \subseteq tree[Root]'
  BY DEF ErrorIsExplained
<1>1. ASSUME NEW r \in Resolvers, StartSchedule(r) PROVE FALSE
  BY <1>1 DEF StartSchedule, Cyclic, Awaited, Dependents
<1>2. CASE VisitRoot BY <1>2 DEF VisitRoot, NextVertex
<1>3. ASSUME NEW u \in remaining, Visit(u), ~RaiseUndecided(u) PROVE FALSE
  BY <1>3 DEF Visit, VisitDecision, VisitUpload, VisitChoice, VisitAction, NextVertex
<1>4. ASSUME NEW u \in remaining, RaiseUndecided(u)
      PROVE  initiators' # {} /\ initiators' \subseteq tree[Root]'
  <2>1. UNCHANGED tree /\ DagRooted BY <1>4 DEF RaiseUndecided, NextVertex
  <2>2. QED BY <1>4, <2>1, RaiseExplained
<1>5. ~EndIteration /\ ~AddUpload /\ ~Return BY DEF EndIteration, AddUpload, Return
<1>6. QED BY <1>1, <1>2, <1>3, <1>4, <1>5 DEF ScheduleNext

TreeFinite == IsFiniteSet(DOMAIN tree)

LEMMA FiniteRange ==
  ASSUME NEW S, IsFiniteSet(S), NEW f, f = [x \in S |-> f[x]]
  PROVE  IsFiniteSet({f[x] : x \in S})
<1>1. PICK T : T = {f[x] : x \in S} OBVIOUS
<1>2. f \in Surjection(S, T) BY <1>1 DEF Surjection
<1>3. QED BY <1>1, <1>2, FS_Surjection

LEMMA FiniteToSet ==
  ASSUME NEW S, NEW s \in Seq(S)
  PROVE  IsFiniteSet(ToSet(s))
<1>1. PICK n \in Nat : n = Len(s) OBVIOUS
<1>2. IsFiniteSet(1..n) BY FS_Interval
<1>3. s = [i \in 1..n |-> s[i]] /\ ToSet(s) = {s[i] : i \in 1..n} BY <1>1 DEF ToSet
<1>4. QED BY <1>2, <1>3, FiniteRange

LEMMA FiniteCheckouts ==
  ASSUME NEW x \in Source
  PROVE  IsFiniteSet(CheckoutsOf(x))
<1>1. PICK R : R = ToSet(Checkouts[x]) OBVIOUS
<1>2. IsFiniteSet(R) BY <1>1, ContextAssumption, FiniteToSet
<1>3. PICK f : f = [r \in R |-> Checkout(r)] OBVIOUS
<1>4. f = [r \in R |-> f[r]] BY <1>3
<1>5. IsFiniteSet({f[r] : r \in R}) BY <1>2, <1>4, FiniteRange
<1>6. {f[r] : r \in R} = CheckoutsOf(x) BY <1>1, <1>3 DEF CheckoutsOf
<1>7. QED BY <1>5, <1>6

\* Finitely many more vertices.
LEMMA FiniteGrown ==
  ASSUME NEW g, NEW V, NEW E, IsFiniteSet(DOMAIN g), IsFiniteSet(V)
  PROVE  IsFiniteSet(DOMAIN Extended(g, V, E))
<1>1. DOMAIN Extended(g, V, E) = DOMAIN g \cup V BY DEF Extended
<1>2. QED BY <1>1, FS_Union

LEMMA FewFinite == /\ \A x : IsFiniteSet({x})
                   /\ \A x, y, z : IsFiniteSet({x, y, z})
<1>1. \A x : IsFiniteSet({x}) BY FS_Singleton
<1>2. ASSUME NEW x, NEW y, NEW z PROVE IsFiniteSet({x, y, z})
  <2>1. PICK A, B : A = {x} \cup {y} /\ B = {z} OBVIOUS
  <2>2. IsFiniteSet(A) /\ IsFiniteSet(B) BY <1>1, <2>1, FS_Union
  <2>3. IsFiniteSet(A \cup B) BY <2>2, FS_Union
  <2>4. {x, y, z} = A \cup B BY <2>1
  <2>5. QED BY <2>3, <2>4
<1>3. QED BY <1>1, <1>2

LEMMA FiniteExpand ==
  ASSUME TreeFinite, NEW a, NEW V, NEW E, NEW batch, Expand(a, V, E, batch), IsFiniteSet(V)
  PROVE  TreeFinite'
<1>1. tree' = Extended(tree, V \cup {ResultOf(a)}, E) BY DEF Expand
<1>2. IsFiniteSet(V \cup {ResultOf(a)}) BY FewFinite, FS_Union
<1>3. QED BY <1>1, <1>2, FiniteGrown DEF TreeFinite

LEMMA FiniteDecision ==
  ASSUME NEW g, IsFiniteSet(DOMAIN g), NEW dec, AddDecision(g, dec)
  PROVE  TreeFinite'
<1>1. PICK V, E : IsFiniteSet(V) /\ tree' = Extended(g, V, E)
  <2>1. IsFiniteSet({DecisionBelow(dec.initiator)}) BY FewFinite
  <2>2. QED BY <2>1 DEF AddDecision
<1>2. QED BY <1>1, FiniteGrown DEF TreeFinite

LEMMA FiniteStep ==
  ASSUME PlanInv, TreeFinite, [Next]_vars
  PROVE  TreeFinite'
<1>0. IsFiniteSet({}) BY FS_EmptySet
<1>1. ASSUME NEW V, NEW E, IsFiniteSet(V), tree' = Extended(tree, V, E) PROVE TreeFinite'
  BY <1>1, FiniteGrown DEF TreeFinite
<1>2. ASSUME UNCHANGED tree PROVE TreeFinite' BY <1>2 DEF TreeFinite
<1>3. CASE AddSpecNext
  <2>1. CASE RejectSpec BY <1>2, <2>1 DEF RejectSpec, Raise
  <2>2. CASE HandOver BY <1>2, <2>2 DEF HandOver
  <2>3. CASE AddSources
    <3>1. PICK u : tree' = Extended(tree, {u}, {}) BY <2>3 DEF AddSources
    <3>2. QED BY <1>1, <3>1, FewFinite
  <2>4. CASE BuildSource BY <1>2, <2>4 DEF BuildSource, scheduleVars
  <2>5. CASE MeetAgain BY <1>2, <2>5 DEF MeetAgain
  <2>6. CASE AddBuildOrTest
    <3>1. PICK V : V = {} OBVIOUS
    <3>2. Expand(Now.args, V, V, <<>>) BY <2>6, <3>1 DEF AddBuildOrTest
    <3>3. QED BY <1>0, <3>1, <3>2, FiniteExpand
  <2>7. CASE AddInstall
    <3>1. PICK get, E, batch : Expand(Now.args, {get}, E, batch) BY <2>7 DEF AddInstall
    <3>2. QED BY <3>1, FewFinite, FiniteExpand
  <2>8. CASE AddInstallDecision
    <3>1. PICK dec : AddDecision(tree, dec) BY <2>8 DEF AddInstallDecision
    <3>2. QED BY <3>1, FiniteDecision DEF TreeFinite
  <2>9. CASE AddSource
    <3>1. /\ pc = "adding" /\ Now.do = "add_spec" /\ Now.args.source # NoItem
      BY <2>9 DEF AddSource, Doing, Now
    <3>2. Now.args.source \in Source BY <3>1, NowFacts, CallFacts DEF ArgType
    <3>3. PICK V : /\ V = IF Now.args.upload THEN {UploadSource(Now.args.spec, Now.args.source)}
                          ELSE {}
      OBVIOUS
    <3>4. PICK W : W = CheckoutsOf(Now.args.source) \cup V OBVIOUS
    <3>5. \E E : Expand(Now.args, W, E, <<>>) BY <2>9, <3>3, <3>4 DEF AddSource
    <3>6. IsFiniteSet(V) BY <1>0, <3>3, FewFinite
    <3>7. IsFiniteSet(W) BY <3>2, <3>4, <3>6, FiniteCheckouts, FS_Union
    <3>8. QED BY <3>5, <3>7, FiniteExpand
  <2>10. CASE LoadSourceDependency BY <1>2, <2>10 DEF LoadSourceDependency, scheduleVars
  <2>11. CASE CallDependency BY <1>2, <2>11 DEF CallDependency, scheduleVars
  <2>12. CASE FinishDependency
    <3>1. PICK E : tree' = Extended(tree, {}, E) BY <2>12 DEF FinishDependency, Connect
    <3>2. PICK V : V = {} OBVIOUS
    <3>3. QED BY <1>0, <1>1, <3>1, <3>2
  <2>13. CASE RejectSource BY <1>2, <2>13 DEF RejectSource, Raise
  <2>14. CASE AddSourceInstall
    <3>1. PICK x, y, z, E : \/ tree' = Extended(tree, {x}, E)
                            \/ tree' = Extended(tree, {x, y, z}, E)
      BY <2>14 DEF AddSourceInstall
    <3>2. QED BY <1>1, <3>1, FewFinite
  <2>15. CASE AddSourceDecision
    <3>1. pc = "adding" /\ Now.do = "decide_source" BY <2>15 DEF AddSourceDecision, Doing, Now
    <3>2. Now.source \in Source BY <3>1, NowFacts, CallFacts
    <3>3. PICK V : V = CheckoutsOf(Now.source) OBVIOUS
    <3>4. PICK E, dec : AddDecision(Extended(tree, V, E), dec)
      BY <2>15, <3>3 DEF AddSourceDecision
    <3>5. IsFiniteSet(V) BY <3>2, <3>3, FiniteCheckouts
    <3>6. IsFiniteSet(DOMAIN Extended(tree, V, E)) BY <3>5, FiniteGrown DEF TreeFinite
    <3>7. QED BY <3>4, <3>6, FiniteDecision
  <2>16. CASE ConnectSource
    <3>1. PICK E : tree' = Extended(tree, {}, E) BY <2>16 DEF ConnectSource, Connect
    <3>2. PICK V : V = {} OBVIOUS
    <3>3. QED BY <1>0, <1>1, <3>1, <3>2
  <2>17. CASE ReturnResult BY <1>2, <2>17 DEF ReturnResult, scheduleVars
  <2>18. QED BY <1>3, <2>1, <2>2, <2>3, <2>4, <2>5, <2>6, <2>7, <2>8, <2>9, <2>10, <2>11, <2>12,
                <2>13, <2>14, <2>15, <2>16, <2>17 DEF AddSpecNext
<1>4. ASSUME NEW l \in Lines, AddLine(l) PROVE TreeFinite' BY <1>2, <1>4 DEF AddLine
<1>5. CASE FinishLine
  <2>1. PICK U : U = UploadsOf(Now.line) OBVIOUS
  <2>2. PICK V : V = {e[1] : e \in U} \ {Root} OBVIOUS
  <2>3. PICK E : tree' = Extended(tree, V, E) BY <1>5, <2>1, <2>2 DEF FinishLine
  <2>4. \E x, y, z : U \subseteq {x, y, z}
    <3>1. PICK up, build, check :
            U = (IF Now.line.prim = "build" /\ Now.line.upload /\ Def[Now.line.spec].component
                 THEN (IF Def[Now.line.spec].package THEN {<<Root, check>>, <<check, up>>}
                       ELSE {<<Root, up>>}) \cup {<<up, build>>}
                 ELSE {})
      BY <2>1 DEF UploadsOf
    <3>2. PICK x, y, z, w : /\ x = <<Root, check>> /\ y = <<check, up>> /\ z = <<Root, up>>
                            /\ w = <<up, build>>
      OBVIOUS
    <3>3. U \subseteq {x, y, w} \/ U \subseteq {z, z, w} BY <3>1, <3>2
    <3>4. QED BY <3>3
  <2>5. IsFiniteSet(U)
    <3>1. PICK x, y, z : U \subseteq {x, y, z} BY <2>4
    <3>2. IsFiniteSet({x, y, z}) BY FewFinite
    <3>3. QED BY <3>1, <3>2, FS_Subset
  <2>6. IsFiniteSet({e[1] : e \in U})
    <3>1. PICK f : f = [e \in U |-> e[1]] OBVIOUS
    <3>2. f = [e \in U |-> f[e]] BY <3>1
    <3>3. IsFiniteSet({f[e] : e \in U}) BY <2>5, <3>2, FiniteRange
    <3>4. {f[e] : e \in U} = {e[1] : e \in U} BY <3>1
    <3>5. QED BY <3>3, <3>4
  <2>7. IsFiniteSet(V) BY <2>2, <2>6, FS_Subset
  <2>8. QED BY <1>1, <2>3, <2>7
<1>6. CASE ScheduleNext /\ UNCHANGED contextVars
  <2>1. UNCHANGED tree
    BY <1>6
    DEF ScheduleNext, StartSchedule, VisitRoot, Visit, VisitDecision, VisitUpload, VisitChoice,
        RaiseUndecided, VisitAction, NextVertex, EndIteration, AddUpload, Return
  <2>2. QED BY <1>2, <2>1
<1>7. CASE UNCHANGED vars BY <1>2, <1>7 DEF vars, scheduleVars
<1>8. QED BY <1>3, <1>4, <1>5, <1>6, <1>7 DEF Next, Done

\* Why an error is explained, once schedule has begun.
ErrorInv ==
  /\ TreeFinite
  /\ pc = "iterate" => DagRooted
  /\ ErrorIsExplained

LEMMA ErrorInvStep ==
  ASSUME PlanInv, ScheduleInv, ErrorInv, [Next]_vars
  PROVE  ErrorInv'
<1>1. TreeFinite' BY FiniteStep DEF ErrorInv
<1>2. ASSUME pc' \notin {"iterate", "error"} PROVE ErrorInv'
  BY <1>1, <1>2 DEF ErrorInv, ErrorIsExplained
<1>3. ASSUME NEW l \in Lines, AddLine(l) PROVE ErrorInv' BY <1>2, <1>3 DEF AddLine
<1>4. CASE AddSpecNext BY <1>2, <1>4, AddSpecStep
<1>5. CASE FinishLine BY <1>2, <1>5 DEF FinishLine
<1>6. CASE ScheduleNext /\ UNCHANGED contextVars
  <2>1. pc' = "iterate" => DagRooted' BY <1>6, RootedStep DEF ErrorInv
  <2>2. ErrorIsExplained' BY <1>6, ErrorStep DEF ErrorInv, TreeFinite
  <2>3. QED BY <1>1, <2>1, <2>2 DEF ErrorInv
<1>7. CASE UNCHANGED vars
  <2>1. UNCHANGED <<tree, dag, pc, initiators>>
    BY <1>7 DEF vars, scheduleVars, localVars
  <2>2. pc' = "iterate" => DagRooted' BY <2>1 DEF ErrorInv, DagRooted, Dependents
  <2>3. Cyclic(tree)' <=> Cyclic(tree) BY <2>1 DEF Cyclic, Awaited, Dependents
  <2>4. ErrorIsExplained' BY <2>1, <2>3 DEF ErrorInv, ErrorIsExplained
  <2>5. QED BY <1>1, <2>2, <2>4 DEF ErrorInv
<1>8. QED BY <1>3, <1>4, <1>5, <1>6, <1>7 DEF Next, Done

\* A SchedulingError of a tree without a cycle has initiators, and they are
\* actions below the root: the search upwards from the vertex that cannot be
\* decided comes to the root, whatever the specifications and the lines.
THEOREM ErrorIsExplainedHolds == PlanSpec => []ErrorIsExplained
<1>1. ContextInit => ErrorInv
  <2> SUFFICES ASSUME ContextInit PROVE ErrorInv OBVIOUS
  <2>1. pc = "plan" /\ DOMAIN tree = {Root} BY DEF ContextInit, ScheduleInit
  <2>2. QED BY <2>1, FewFinite DEF ErrorInv, TreeFinite, ErrorIsExplained
<1>2. ErrorInv /\ (PlanInv /\ ScheduleInv) /\ [Next]_vars => ErrorInv' BY ErrorInvStep
<1>3. ErrorInv => ErrorIsExplained BY DEF ErrorInv
<1>4. QED BY <1>1, <1>2, <1>3, PlanInvHolds, PTL DEF PlanSpec

----------------------------------------------------------------------------
(* The dependencies.                                                       *)
(*                                                                         *)
(* What a call returns is known before it returns, so the stack knows the  *)
(* edges that are to come.  A dependency on an install whose decision is   *)
(* not there yet is one that leads back to this install: the calls above   *)
(* the one that is to decide are then a circle, and no plan that has one   *)
(* is scheduled.                                                           *)

HasBuild(s) == HasPrimitive(s, "build")

BuildDecision(s) == DecisionBelow(Install(s))

\* What add_spec returns.
WillReturn(a) ==
  IF BecomesBuild(a) THEN Build(a.spec)
  ELSE IF BecomesInstall(a) THEN Install(a.spec) ELSE ResultOf(a)

\* The action that a call works for.
Worker(c) ==
  CASE c.do = "add_spec" -> WillReturn(c.args)
    [] c.do = "decide_install" -> BuildDecision(c.args.spec)
    [] c.do = "decide_source" -> DecisionBelow(GetSource(c.source))
    [] c.do \in {"dependency", "join", "source_need"} -> ResultOf(c.args)
    [] c.do = "source_build" -> CreateSources(c.args.spec)
    [] c.do \in {"connect", "return"} -> c.uid
    [] OTHER -> Root

FrameOK(c) ==
  /\ c.do \in {"dependency", "join"} => c.dep \in ToSet(Def[c.args.spec].deps[c.args.prim])
  /\ c.do = "join" => c.dep.kind # "source"
  /\ c.do = "source_need" => c.source \in ToSet(Def[c.args.spec].needs[c.args.prim])
  /\ c.do = "connect" => c.uid.kind = "sources"
  /\ c.do = "decide_install" => HasBuild(c.args.spec)

\* What e has asked for is r.
Gets(e, r) ==
  /\ e.do = "join" => r = TargetOf(e.dep.name, e.dep.kind)
  /\ e.do = "connect" => r.kind = "source"
  /\ e.do = "end_line" => r = TargetOf(e.line.spec, e.line.prim)

\* Call c works for what e needs, or for what e works for.
Chained(g, c, e) ==
  IF c.do = "decide_source"
  THEN \E i \in DOMAIN g : /\ Worker(e) \in DOMAIN g /\ i \in g[Worker(e)]
                           /\ GetSource(c.source) \in g[i]
  ELSE (IF c.do = "decide_install" THEN Install(c.args.spec) ELSE Worker(c)) = Worker(e)

\* Call c is on top of e.
NextTo(g, c, e) ==
  IF e.do \in Consumers
  THEN /\ c.do \in {"add_spec", "return"} /\ Gets(e, Worker(c))
       /\ e.do = "join" /\ e.dep.kind = "build" =>
            \/ HasBuild(e.dep.name)
            \/ c.do = "add_spec" /\ c.args.prim = "build" /\ c.args.spec = e.dep.name
  ELSE e.do # "add_spec" /\ c.do \notin {"add_spec", "return"} /\ Chained(g, c, e)

LinesOK ==
  /\ \A i \in 1..Len(todo) : FrameOK(todo[i])
  /\ \A i \in 1..(Len(todo) - 1) : NextTo(tree, todo[i], todo[i + 1])
  /\ todo[1].do \in Consumers =>
       /\ Gets(todo[1], returned)
       /\ todo[1].do = "join" /\ todo[1].dep.kind = "build" => HasBuild(todo[1].dep.name)

\* What comes to the i-th call.
Comes(i) == IF i = 1 THEN returned ELSE Worker(todo[i - 1])

\* The edges that call c adds when r comes.
Promises(c, r) ==
  CASE c.do \in {"join", "connect"} -> {<<Worker(c), r>>}
    [] c.do = "decide_install" -> {<<Install(c.args.spec), Worker(c)>>, <<Worker(c), r>>}
    [] c.do = "decide_source" -> {<<GetSource(c.source), Worker(c)>>, <<Worker(c), r>>}
    [] OTHER -> {}

\* The edges of the tree, and those to come.
Leading(u, v) ==
  \/ u \in DOMAIN tree /\ v \in tree[u]
  \/ \E i \in 1..Len(todo) : <<u, v>> \in Promises(todo[i], Comes(i))

InCircle == \E C : C # {} /\ \A c \in C : \E p \in C : Leading(p, c)

\* The edges of the tree are needed; some are of no account here.
EdgeRight(u, v) ==
  \/ v \in Needs(u)
  \/ /\ u.kind \in {"sources", "source", "source_get", "create_or_download"}
     /\ v.kind \notin {"build", "download_bin"}

EdgesRight ==
  /\ \A u \in DOMAIN tree \ {Root} : \A v \in tree[u] : EdgeRight(u, v)
  /\ \A v \in tree[Root] : IsPlain(v) => \E s \in Spec, k \in Prim : v = TargetOf(s, k)

\* What an install gets its binary from.
GetsOK ==
  \A s \in Spec : Install(s) \in DOMAIN tree =>
    IF HasBuild(s) THEN BuildDecision(s) \in DOMAIN tree \/ DecisionPending(s)
                   ELSE DownloadBinary(s) \in tree[Install(s)]

\* The decision of s was told to download.
Told(s) ==
  BuildDecision(s) \in DOMAIN tree /\ decisions[BuildDecision(s)].choice \in {RIGHT, BOTH}

AskedFor(s) ==
  \/ HasBuild(s) => Told(s)
  \/ \E i \in 1..Len(todo) :
       todo[i].do = "decide_install" /\ todo[i].args.spec = s /\ todo[i].args.force
  \/ InCircle

\* Before a dependency on a download is connected, it is decided for.
AsksOK ==
  \A i \in 1..Len(todo) : todo[i].do = "join" /\ todo[i].dep.kind = "download" =>
    \/ AskedFor(todo[i].dep.name)
    \/ i = 2 /\ todo[1].do = "add_spec" /\ todo[1].args.prim = "install" /\ todo[1].args.force

Honoured(u, e) ==
  /\ e.kind # "source" => TargetOf(e.name, e.kind) \in tree[u]
  /\ e.kind = "build" /\ Def[e.name].package =>
       /\ BuildDecision(e.name) \in DOMAIN tree
       /\ <<u, LEFT>> \in decisions[BuildDecision(e.name)].triggers
  /\ e.kind = "download" /\ HasBuild(e.name) => Told(e.name)

DependencyPending(u, e) ==
  \E i \in 1..Len(todo) : /\ todo[i].do \in {"dependency", "join"} /\ todo[i].dep = e
                          /\ ResultOf(todo[i].args) = u

\* The kinds of the actions that have dependencies.
Dependent(u) == u.kind \in Prim

HonourOK ==
  \A u \in DOMAIN tree : Dependent(u) =>
    /\ u \in Results
    /\ \A e \in ToSet(Def[u.spec].deps[u.kind]) :
         Honoured(u, e) \/ DependencyPending(u, e) \/ InCircle

HonourInv ==
  pc # "failed" =>
    /\ pc = "adding" => LinesOK
    /\ EdgesRight /\ GetsOK /\ AsksOK /\ HonourOK
    /\ pc \in {"iterate", "uploads", "scheduled"} => ~InCircle
    /\ order \in Orders

----------------------------------------------------------------------------

LEMMA WorkerFacts ==
  ASSUME NEW c
  PROVE  /\ c.do = "add_spec" => Worker(c) = WillReturn(c.args)
         /\ c.do = "decide_install" => Worker(c) = BuildDecision(c.args.spec)
         /\ c.do = "decide_source" => Worker(c) = DecisionBelow(GetSource(c.source))
         /\ c.do \in {"dependency", "join", "source_need"} => Worker(c) = ResultOf(c.args)
         /\ c.do = "source_build" => Worker(c) = CreateSources(c.args.spec)
         /\ c.do \in {"connect", "return"} => Worker(c) = c.uid
BY DEF Worker

LEMMA PromisesFacts ==
  ASSUME NEW c, NEW r
  PROVE  /\ c.do \in {"join", "connect"} => Promises(c, r) = {<<Worker(c), r>>}
         /\ c.do = "decide_install" =>
              Promises(c, r) = {<<Install(c.args.spec), Worker(c)>>, <<Worker(c), r>>}
         /\ c.do = "decide_source" =>
              Promises(c, r) = {<<GetSource(c.source), Worker(c)>>, <<Worker(c), r>>}
         /\ c.do \notin {"join", "connect", "decide_install", "decide_source"} => Promises(c, r) = {}
BY DEF Promises

LEMMA WillReturnFacts ==
  ASSUME NEW a \in ArgType, a.source # NoItem => a.prim = "source"
  PROVE  /\ ~BecomesBuild(a) /\ ~BecomesInstall(a) => WillReturn(a) = ResultOf(a)
         /\ BecomesBuild(a) => WillReturn(a) = Build(a.spec)
         /\ BecomesInstall(a) => WillReturn(a) = Install(a.spec)
         /\ a.prim = "install" /\ a.force => WillReturn(a) = Install(a.spec)
         /\ a.prim = "build" /\ ~a.expand => WillReturn(a) = Build(a.spec)
         /\ a.prim = "source" /\ a.source # NoItem => WillReturn(a) = CreateSource(a.spec, a.source)
         /\ a.expand /\ ~a.force /\ a.source = NoItem => WillReturn(a) = TargetOf(a.spec, a.prim)
<1>1. /\ a.prim = "build" => ResultOf(a) = Build(a.spec)
      /\ a.prim = "install" => ResultOf(a) = Install(a.spec)
      /\ a.prim = "test" => ResultOf(a) = Test(a.spec)
      /\ a.prim = "source" /\ a.source # NoItem => ResultOf(a) = CreateSource(a.spec, a.source)
      /\ a.prim = "source" /\ a.source = NoItem => ResultOf(a) = CreateSources(a.spec)
  BY ResultType
<1>2. a.prim \in Prim BY ArgFacts
<1>3. BecomesBuild(a) => ~BecomesInstall(a) BY DEF BecomesBuild, BecomesInstall
<1>4. a.expand /\ ~a.force /\ a.source = NoItem => WillReturn(a) = TargetOf(a.spec, a.prim)
  BY <1>1, <1>2 DEF WillReturn, TargetOf, BecomesBuild, BecomesInstall, Prim
<1>5. QED BY <1>1, <1>3, <1>4 DEF WillReturn, BecomesBuild, BecomesInstall

\* Where the calls of the stack go when the first one is replaced.
LEMMA StackShape ==
  ASSUME todo \in Seq(Calls), todo # <<>>, NEW batch \in Seq(Calls), ThenDo(batch)
  PROVE  /\ todo' \in Seq(Calls) /\ Len(todo') = Len(batch) + Len(todo) - 1
         /\ \A i \in 1..Len(batch) : todo'[i] = batch[i]
         /\ \A i \in (Len(batch) + 1)..Len(todo') :
              i - Len(batch) + 1 \in 2..Len(todo) /\ todo'[i] = todo[i - Len(batch) + 1]
         /\ \A j \in 2..Len(todo) :
              j + Len(batch) - 1 \in (Len(batch) + 1)..Len(todo') /\ todo'[j + Len(batch) - 1] = todo[j]
<1>1. PICK rest \in Seq(Calls) : /\ rest = Tail(todo) /\ Len(rest) = Len(todo) - 1
                                 /\ \A i \in 1..Len(todo) - 1 : rest[i] = todo[i + 1]
  <2>1. /\ Tail(todo) \in Seq(Calls) /\ Len(Tail(todo)) = Len(todo) - 1
        /\ \A i \in 1..Len(todo) - 1 : Tail(todo)[i] = todo[i + 1]
    BY TailFacts
  <2>2. QED BY <2>1
<1>2. PICK n \in Nat : n = Len(todo) /\ n >= 1
  <2>1. Len(todo) \in Nat /\ Len(todo) >= 1 BY TailFacts
  <2>2. QED BY <2>1
<1>3. PICK m \in Nat : m = Len(batch) OBVIOUS
<1>4. /\ todo' = batch \o rest /\ batch \o rest \in Seq(Calls)
      /\ Len(batch \o rest) = Len(batch) + Len(rest)
      /\ \A i \in 1..Len(batch) : (batch \o rest)[i] = batch[i]
      /\ \A i \in Len(batch) + 1..Len(batch) + Len(rest) : (batch \o rest)[i] = rest[i - Len(batch)]
  BY <1>1, ConcatFacts DEF ThenDo
<1>5. /\ todo' \in Seq(Calls) /\ Len(todo') = m + n - 1 /\ \A i \in 1..m : todo'[i] = batch[i]
      /\ \A i \in m + 1..m + n - 1 : todo'[i] = rest[i - m]
  BY <1>1, <1>2, <1>3, <1>4
<1>6. ASSUME NEW i \in (m + 1)..(m + n - 1)
      PROVE  i - m + 1 \in 2..n /\ todo'[i] = todo[i - m + 1]
  <2>1. i - m \in 1..n - 1 OBVIOUS
  <2>2. QED BY <2>1, <1>1, <1>2, <1>5
<1>7. ASSUME NEW j \in 2..n
      PROVE  j + m - 1 \in (m + 1)..(m + n - 1) /\ todo'[j + m - 1] = todo[j]
  <2>1. PICK i : i = j + m - 1 OBVIOUS
  <2>2. i \in (m + 1)..(m + n - 1) /\ i - m + 1 = j BY <2>1
  <2>3. QED BY <2>1, <2>2, <1>6
<1>8. QED BY <1>2, <1>3, <1>5, <1>6, <1>7

----------------------------------------------------------------------------

\* The tree may only get more.
Wider ==
  /\ DOMAIN tree \subseteq DOMAIN tree'
  /\ \A u \in DOMAIN tree : tree[u] \subseteq tree'[u]

LEMMA GrownIsWider == \A V, E : GrownBy(V, E) => Wider
BY DEF GrownBy, Wider

LEMMA NextToStays ==
  ASSUME Wider, NEW c, NEW e, NextTo(tree, c, e)
  PROVE  NextTo(tree', c, e)
<1>1. Chained(tree, c, e) => Chained(tree', c, e) BY DEF Wider, Chained
<1>2. QED BY <1>1 DEF NextTo

\* The calls that may take the place of the first one.
BatchOK(batch) ==
  /\ \A i \in 1..Len(batch) : FrameOK(batch[i])
  /\ \A i \in 1..(Len(batch) - 1) : NextTo(tree', batch[i], batch[i + 1])
  /\ batch # <<>> =>
       /\ batch[1].do \notin Consumers
       /\ NextTo(tree', batch[Len(batch)], todo[2])
       /\ todo[2].do \in Consumers => Worker(batch[Len(batch)]) = Worker(todo[1])
  /\ batch = <<>> /\ todo[2].do \in Consumers =>
       /\ returned' = Worker(todo[1])
       /\ todo[2].do = "join" /\ todo[2].dep.kind = "build" => HasBuild(todo[2].dep.name)

LEMMA LinesStep ==
  ASSUME todo \in Seq(Calls), Len(todo) > 1, LinesOK, Wider,
         NEW batch \in Seq(Calls), ThenDo(batch), BatchOK(batch)
  PROVE  LinesOK'
<1>1. PICK n \in Nat : n = Len(todo) /\ n > 1 OBVIOUS
<1>2. PICK m \in Nat : m = Len(batch) OBVIOUS
<1>3. todo # <<>> BY <1>1
<1>4. /\ todo' \in Seq(Calls) /\ Len(todo') = m + n - 1
      /\ \A i \in 1..m : todo'[i] = batch[i]
      /\ \A i \in (m + 1)..(m + n - 1) : i - m + 1 \in 2..n /\ todo'[i] = todo[i - m + 1]
  BY <1>1, <1>2, <1>3, StackShape
<1>5. ASSUME NEW i \in 1..Len(todo') PROVE FrameOK(todo'[i])
  <2>1. CASE i \in 1..m BY <2>1, <1>2, <1>4 DEF BatchOK
  <2>2. CASE i \in (m + 1)..(m + n - 1)
    <3>1. PICK j \in 1..Len(todo) : todo'[i] = todo[j]
      <4>1. i - m + 1 \in 1..Len(todo) BY <2>2, <1>1
      <4>2. QED BY <4>1, <2>2, <1>4
    <3>2. QED BY <3>1 DEF LinesOK
  <2>3. QED BY <2>1, <2>2, <1>4
<1>6. ASSUME NEW i \in 1..(Len(todo') - 1) PROVE NextTo(tree', todo'[i], todo'[i + 1])
  <2>1. i \in 1..(m + n - 2) BY <1>4, <1>1
  <2>2. CASE i < m
    <3>1. i \in 1..(m - 1) /\ i \in 1..m /\ i + 1 \in 1..m BY <2>1, <2>2
    <3>2. QED BY <3>1, <1>2, <1>4 DEF BatchOK
  <2>3. CASE i = m
    <3>1. m \in 1..m /\ m + 1 \in (m + 1)..(m + n - 1) /\ m + 1 - m + 1 = 2 BY <2>1, <2>3, <1>1
    <3>2. todo'[m] = batch[m] /\ todo'[m + 1] = todo[2]
      <4>1. PICK k \in (m + 1)..(m + n - 1) : k = m + 1 BY <3>1
      <4>2. todo'[k] = todo[k - m + 1] BY <1>4
      <4>3. k - m + 1 = 2 BY <4>1
      <4>4. todo'[m] = batch[m] BY <3>1, <1>4
      <4>5. QED BY <4>1, <4>2, <4>3, <4>4
    <3>3. batch # <<>> BY <3>1, <1>2
    <3>4. QED BY <3>2, <3>3, <2>3, <1>2 DEF BatchOK
  <2>4. CASE i > m
    <3>1. i \in (m + 1)..(m + n - 1) /\ i + 1 \in (m + 1)..(m + n - 1) BY <2>1, <2>4
    <3>2. PICK j : j = i - m + 1 OBVIOUS
    <3>3. j \in 1..(Len(todo) - 1) /\ (i + 1) - m + 1 = j + 1 BY <3>2, <2>1, <2>4, <1>1
    <3>4. todo'[i] = todo[j] /\ todo'[i + 1] = todo[j + 1]
      <4>1. todo'[i + 1] = todo[(i + 1) - m + 1] BY <3>1, <1>4
      <4>2. QED BY <4>1, <3>1, <3>2, <3>3, <1>4
    <3>5. NextTo(tree, todo[j], todo[j + 1]) BY <3>3 DEF LinesOK
    <3>6. QED BY <3>4, <3>5, NextToStays
  <2>5. QED BY <2>1, <2>2, <2>3, <2>4
<1>7. todo'[1].do \in Consumers =>
        /\ Gets(todo'[1], returned')
        /\ todo'[1].do = "join" /\ todo'[1].dep.kind = "build" => HasBuild(todo'[1].dep.name)
  <2>1. CASE m = 0
    <3>1. batch = <<>> BY <2>1, <1>2
    <3>2. todo'[1] = todo[2]
      <4>1. 1 \in (m + 1)..(m + n - 1) /\ 1 - m + 1 = 2 BY <2>1, <1>1
      <4>2. todo'[1] = todo[1 - m + 1] BY <4>1, <1>4
      <4>3. QED BY <4>1, <4>2
    <3>3. todo[2].do \in Consumers => Gets(todo[2], Worker(todo[1]))
      <4>1. 1 \in 1..(Len(todo) - 1) BY <1>1
      <4>2. NextTo(tree, todo[1], todo[1 + 1]) BY <4>1 DEF LinesOK
      <4>3. QED BY <4>2 DEF NextTo
    <3>4. QED BY <3>1, <3>2, <3>3 DEF BatchOK
  <2>2. CASE m # 0
    <3>1. 1 \in 1..m BY <2>2
    <3>2. todo'[1] = batch[1] /\ batch # <<>> BY <3>1, <1>2, <1>4
    <3>3. QED BY <3>2 DEF BatchOK
  <2>3. QED BY <2>1, <2>2
<1>8. QED BY <1>5, <1>6, <1>7 DEF LinesOK

\* What leads to what, in the tree or on the stack, stays so.
LEMMA LeadingStays ==
  ASSUME todo \in Seq(Calls), Len(todo) > 1, Wider,
         NEW batch \in Seq(Calls), ThenDo(batch), BatchOK(batch),
         \A u, v : <<u, v>> \in Promises(todo[1], returned) => u \in DOMAIN tree' /\ v \in tree'[u],
         NEW u, NEW v, Leading(u, v)
  PROVE  Leading(u, v)'
<1>1. CASE u \in DOMAIN tree /\ v \in tree[u] BY <1>1 DEF Wider, Leading
<1>2. CASE \E i \in 1..Len(todo) : <<u, v>> \in Promises(todo[i], Comes(i))
  <2>1. PICK i \in 1..Len(todo) : <<u, v>> \in Promises(todo[i], Comes(i)) BY <1>2
  <2>2. CASE i = 1
    <3>1. <<u, v>> \in Promises(todo[1], returned) BY <2>1, <2>2 DEF Comes
    <3>2. QED BY <3>1 DEF Leading
  <2>3. CASE i # 1
    <3>1. PICK n \in Nat : n = Len(todo) /\ n > 1 OBVIOUS
    <3>2. PICK m \in Nat : m = Len(batch) OBVIOUS
    <3>3. todo # <<>> BY <3>1
    <3>4. /\ \A k \in 1..m : todo'[k] = batch[k]
          /\ Len(todo') = m + n - 1
          /\ \A j \in 2..n : j + m - 1 \in (m + 1)..(m + n - 1) /\ todo'[j + m - 1] = todo[j]
      BY <3>1, <3>2, <3>3, StackShape
    <3>5. i \in 2..n BY <2>3, <3>1
    <3>6. PICK k : k = i + m - 1 OBVIOUS
    <3>7. k \in 1..Len(todo') /\ k \in Nat /\ todo'[k] = todo[i]
      <4>1. i + m - 1 \in (m + 1)..(m + n - 1) /\ todo'[i + m - 1] = todo[i] BY <3>4, <3>5
      <4>2. k \in (m + 1)..(m + n - 1) /\ todo'[k] = todo[i] BY <3>6, <4>1
      <4>3. k \in Nat /\ 1 <= k /\ k <= m + n - 1 BY <3>1, <3>2, <4>2
      <4>4. QED BY <3>4, <4>2, <4>3
    <3>8. Comes(i) = Worker(todo[i - 1]) BY <2>3 DEF Comes
    <3>9. todo[i].do \in Consumers
      BY <2>1, PromisesFacts DEF Consumers
    <3>10. (IF k = 1 THEN returned' ELSE Worker(todo'[k - 1])) = Worker(todo[i - 1])
      <4>1. CASE i # 2
        <5>1. PICK j \in 2..n : j = i - 1 BY <3>5, <4>1
        <5>2. k - 1 = j + m - 1 /\ k # 1 BY <3>6, <5>1
        <5>3. todo'[j + m - 1] = todo[j] BY <3>4
        <5>4. QED BY <5>1, <5>2, <5>3
      <4>2. CASE i = 2 /\ m = 0
        <5>1. batch = <<>> /\ k = 1 BY <4>2, <3>2, <3>6
        <5>2. QED BY <5>1, <4>2, <3>9 DEF BatchOK
      <4>3. CASE i = 2 /\ m # 0
        <5>1. batch # <<>> /\ k - 1 = m /\ k # 1 /\ m \in 1..m BY <4>3, <3>2, <3>6
        <5>2. todo'[m] = batch[Len(batch)] BY <5>1, <3>2, <3>4
        <5>3. QED BY <5>1, <5>2, <4>3, <3>9 DEF BatchOK
      <4>4. QED BY <4>1, <4>2, <4>3
    <3>11. <<u, v>> \in Promises(todo'[k], IF k = 1 THEN returned' ELSE Worker(todo'[k - 1]))
      BY <2>1, <3>7, <3>8, <3>10
    <3>12. QED BY <3>7, <3>11 DEF Leading, Comes
  <2>4. QED BY <2>2, <2>3
<1>3. QED BY <1>1, <1>2 DEF Leading

LEMMA CirclesStay ==
  ASSUME InCircle, \A u, v : Leading(u, v) => Leading(u, v)'
  PROVE  InCircle'
BY DEF InCircle

\* The calls from the one at j down to the decision on s at k, when what comes to
\* the first is the install of s.
LEMMA CircleFound ==
  ASSUME CallsOK, LinesOK, Len(todo) \in Nat, NEW j \in 1..Len(todo), todo[j].do = "join",
         NEW s, Comes(j) = Install(s),
         NEW k \in 1..Len(todo), j < k, todo[k].do = "decide_install", todo[k].args.spec = s
  PROVE  InCircle
<1> DEFINE R == {Worker(todo[i]) : i \in j..k} \cup {Install(s)}
           R1 == {v \in DOMAIN tree : \E p \in R : Leading(p, v)}
           R2 == {v \in DOMAIN tree : \E p \in R1 : Leading(p, v)}
           C == R \cup R1 \cup R2
           Led(c) == \E p \in C : Leading(p, c)
<1>1. \A c \in R1 \cup R2 : Led(c) OBVIOUS
<1>2. \A u, v : \A i \in 1..Len(todo) : <<u, v>> \in Promises(todo[i], Comes(i)) => Leading(u, v)
  BY DEF Leading
<1>3. PICK n \in Nat : n = Len(todo) OBVIOUS
<1>4. Led(Worker(todo[k]))
  <2>1. Worker(todo[k]) = BuildDecision(s) BY WorkerFacts
  <2>2. <<Install(s), Worker(todo[k])>> \in Promises(todo[k], Comes(k)) BY PromisesFacts
  <2>3. Leading(Install(s), Worker(todo[k])) BY <1>2, <2>2
  <2>4. Install(s) \in C OBVIOUS
  <2> HIDE DEF C
  <2>5. QED BY <2>3, <2>4
<1>5. Led(Install(s))
  <2>1. <<Worker(todo[j]), Comes(j)>> \in Promises(todo[j], Comes(j)) BY PromisesFacts
  <2>2. Leading(Worker(todo[j]), Install(s)) BY <1>2, <2>1
  <2>3. Worker(todo[j]) \in C
    <3>1. j \in j..k BY <1>3
    <3>2. QED BY <3>1
  <2> HIDE DEF C
  <2>4. QED BY <2>2, <2>3
<1>6. ASSUME NEW i \in j..(k - 1), Led(Worker(todo[i + 1])) PROVE Led(Worker(todo[i]))
  <2>1. i \in 1..Len(todo) /\ i + 1 \in 1..Len(todo) /\ i \in 1..(Len(todo) - 1) /\ i + 1 # 1
        /\ i + 1 \in j..k /\ i + 1 - 1 = i
    BY <1>3
  <2>2. Worker(todo[i]) \in R /\ Worker(todo[i + 1]) \in R BY <2>1
  <2>3. NextTo(tree, todo[i], todo[i + 1]) BY <2>1 DEF LinesOK
  <2>4. Comes(i + 1) = Worker(todo[i]) BY <2>1 DEF Comes
  <2>5. todo[i + 1].do # "end_line"
    <3>1. i + 1 = k \/ i + 1 < Len(todo) BY <1>3
    <3>2. todo[i + 1].do = "end_line" => i + 1 = Len(todo) BY <2>1 DEF CallsOK
    <3>3. QED BY <1>3, <3>1, <3>2
  <2>6. CASE todo[i + 1].do \in Consumers
    <3>1. <<Worker(todo[i + 1]), Worker(todo[i])>> \in Promises(todo[i + 1], Comes(i + 1))
      BY <2>4, <2>5, <2>6, PromisesFacts DEF Consumers
    <3>2. Leading(Worker(todo[i + 1]), Worker(todo[i])) BY <1>2, <2>1, <3>1
    <3> HIDE DEF R
    <3>3. QED BY <2>2, <3>2
  <2>7. CASE todo[i + 1].do \notin Consumers
    <3>1. Chained(tree, todo[i], todo[i + 1]) BY <2>3, <2>7 DEF NextTo
    <3>2. CASE todo[i].do = "decide_install"
      <4>1. Install(todo[i].args.spec) = Worker(todo[i + 1]) BY <3>1, <3>2 DEF Chained
      <4>2. <<Worker(todo[i + 1]), Worker(todo[i])>> \in Promises(todo[i], Comes(i))
        BY <4>1, <3>2, PromisesFacts
      <4>3. Leading(Worker(todo[i + 1]), Worker(todo[i])) BY <1>2, <2>1, <4>2
      <4> HIDE DEF R
      <4>4. QED BY <2>2, <4>3
    <3>3. CASE todo[i].do = "decide_source"
      <4>1. PICK v \in DOMAIN tree : /\ Worker(todo[i + 1]) \in DOMAIN tree
                                     /\ v \in tree[Worker(todo[i + 1])]
                                     /\ GetSource(todo[i].source) \in tree[v]
        BY <3>1, <3>3 DEF Chained
      <4>2. Leading(Worker(todo[i + 1]), v) /\ Leading(v, GetSource(todo[i].source))
        BY <4>1 DEF Leading
      <4>3. <<GetSource(todo[i].source), Worker(todo[i])>> \in Promises(todo[i], Comes(i))
        BY <3>3, PromisesFacts
      <4>4. Leading(GetSource(todo[i].source), Worker(todo[i])) BY <1>2, <2>1, <4>3
      <4>5. v \in R1 BY <2>2, <4>1, <4>2
      <4>6. GetSource(todo[i].source) \in DOMAIN tree
        <5>1. CallOK(DOMAIN tree, todo[i]) BY <2>1 DEF CallsOK
        <5>2. QED BY <5>1, <3>3 DEF CallOK
      <4>7. GetSource(todo[i].source) \in R2 BY <4>2, <4>5, <4>6
      <4> HIDE DEF R, R1, R2
      <4>8. QED BY <4>4, <4>7
    <3>4. CASE todo[i].do \notin {"decide_install", "decide_source"}
      <4>1. Worker(todo[i]) = Worker(todo[i + 1]) BY <3>1, <3>4 DEF Chained
      <4> HIDE DEF Led
      <4>2. QED BY <1>6, <4>1
    <3>5. QED BY <3>2, <3>3, <3>4
  <2>8. QED BY <2>6, <2>7
<1>7. \A i \in j..k : Led(Worker(todo[i]))
  <2> DEFINE Bad == {d \in 0..(k - j) : ~Led(Worker(todo[k - d]))}
  <2> HIDE DEF Led
  <2>1. Bad = {}
    <3> SUFFICES ASSUME Bad # {} PROVE FALSE OBVIOUS
    <3>1. PICK d \in Bad : \A e \in Bad : d <= e
      <4>1. Bad \in SUBSET Nat BY <1>3
      <4> HIDE DEF Bad
      <4>2. QED BY <4>1, SmallestNat
    <3>2. d \in 0..(k - j) /\ ~Led(Worker(todo[k - d])) OBVIOUS
    <3>3. d # 0
      <4>1. k - 0 = k BY <1>3
      <4>2. QED BY <1>4, <3>2, <4>1
    <3>4. d - 1 \in 0..(k - j) /\ ~(d <= d - 1) BY <3>2, <3>3, <1>3
    <3>5. Led(Worker(todo[k - (d - 1)])) BY <3>1, <3>4
    <3>6. k - d \in j..(k - 1) /\ k - d + 1 = k - (d - 1) BY <3>2, <3>3, <1>3
    <3>7. QED BY <1>6, <3>2, <3>5, <3>6
  <2>2. ASSUME NEW i \in j..k PROVE Led(Worker(todo[i]))
    <3>1. k - i \in 0..(k - j) /\ k - (k - i) = i BY <1>3
    <3>2. k - i \notin Bad BY <2>1
    <3>3. QED BY <3>1, <3>2
  <2>3. QED BY <2>2
<1>8. \A c \in C : Led(c) BY <1>1, <1>5, <1>7
<1>9. C # {} OBVIOUS
<1> HIDE DEF C
<1>10. QED BY <1>8, <1>9 DEF InCircle

\* left[n] is what is left when n rounds have taken away what nothing leads to.
IsLeft(f, g, n) ==
  f = [m \in 0..n |-> IF m = 0 THEN DOMAIN g ELSE Awaited(g, f[m - 1])]

LEMMA LeftDef ==
  ASSUME NEW g, Cardinality(DOMAIN g) \in Nat
  PROVE  \E f : /\ IsLeft(f, g, Cardinality(DOMAIN g))
                /\ Cyclic(g) <=> f[Cardinality(DOMAIN g)] # {}
<1> DEFINE Bad == {n \in Nat : ~ \E f : IsLeft(f, g, n)}
<1>1. Bad = {}
  <2> SUFFICES ASSUME Bad # {} PROVE FALSE OBVIOUS
  <2>1. PICK n \in Bad : \A m \in Bad : n <= m BY SmallestNat
  <2>2. CASE n = 0
    <3> DEFINE f == [m \in 0..0 |-> DOMAIN g]
    <3>1. IsLeft(f, g, 0) BY DEF IsLeft
    <3>2. QED BY <2>1, <2>2, <3>1
  <2>3. CASE n # 0
    <3>1. n - 1 \in Nat /\ n - 1 \notin Bad
      <4> HIDE DEF Bad
      <4>1. n \in Nat BY <2>1 DEF Bad
      <4>2. QED BY <4>1, <2>1, <2>3
    <3>2. PICK f : IsLeft(f, g, n - 1) BY <3>1
    <3> DEFINE h == [m \in 0..n |-> IF m = n THEN Awaited(g, f[n - 1]) ELSE f[m]]
    <3>3. ASSUME NEW m \in 0..n
          PROVE  h[m] = IF m = 0 THEN DOMAIN g ELSE Awaited(g, h[m - 1])
      <4>1. CASE m = n BY <2>3, <3>1, <4>1
      <4>2. CASE m # n
        <5>1. m \in 0..(n - 1) /\ h[m] = f[m] BY <4>2
        <5>2. f[m] = IF m = 0 THEN DOMAIN g ELSE Awaited(g, f[m - 1]) BY <3>2, <5>1 DEF IsLeft
        <5>3. m # 0 => m - 1 \in 0..n /\ m - 1 # n /\ h[m - 1] = f[m - 1] BY <5>1
        <5>4. QED BY <5>1, <5>2, <5>3
      <4>3. QED BY <4>1, <4>2
    <3>4. IsLeft(h, g, n) BY <3>3 DEF IsLeft
    <3>5. QED BY <2>1, <3>4
  <2>4. QED BY <2>2, <2>3
<1>2. PICK n \in Nat : n = Cardinality(DOMAIN g) OBVIOUS
<1>3. \E f : IsLeft(f, g, n) BY <1>1
<1>4. PICK f : f = CHOOSE h : IsLeft(h, g, n) OBVIOUS
<1>5. IsLeft(f, g, n) BY <1>3, <1>4
<1>6. Cyclic(g) <=> f[n] # {} BY <1>2, <1>4, Zenon DEF Cyclic, IsLeft
<1>7. QED BY <1>2, <1>5, <1>6

\* No round takes a circle away.
LEMMA CircleCyclic ==
  ASSUME todo = <<>>, PlannedTree, IsFiniteSet(DOMAIN tree), InCircle
  PROVE  Cyclic(tree)
<1>1. PICK C : C # {} /\ \A c \in C : \E p \in C : Leading(p, c) BY DEF InCircle
<1>2. PICK N \in Nat : N = Cardinality(DOMAIN tree) BY FS_CardinalityType
<1>3. \A u, v : Leading(u, v) => u \in DOMAIN tree /\ v \in tree[u] /\ v \in DOMAIN tree
  BY DEF Leading, PlannedTree
<1>4. PICK f : IsLeft(f, tree, N) /\ (Cyclic(tree) <=> f[N] # {}) BY <1>2, LeftDef
<1>5. \A n \in 0..N : f[n] = IF n = 0 THEN DOMAIN tree ELSE Awaited(tree, f[n - 1])
  BY <1>4, Zenon DEF IsLeft
<1>6. {n \in 0..N : ~(C \subseteq f[n])} = {}
  <2> DEFINE Bad == {n \in 0..N : ~(C \subseteq f[n])}
  <2> SUFFICES ASSUME Bad # {} PROVE FALSE OBVIOUS
  <2>1. PICK n \in Bad : \A m \in Bad : n <= m
    <3>1. Bad \in SUBSET Nat OBVIOUS
    <3> HIDE DEF Bad
    <3>2. QED BY <3>1, SmallestNat
  <2>2. n \in 0..N /\ ~(C \subseteq f[n]) OBVIOUS
  <2>3. CASE n = 0
    <3>1. f[n] = DOMAIN tree BY <1>5, <2>2, <2>3, Zenon
    <3>2. QED BY <1>1, <1>3, <2>2, <3>1
  <2>4. CASE n # 0
    <3>1. n - 1 \in 0..N /\ ~(n <= n - 1) BY <2>2, <2>4
    <3>2. C \subseteq f[n - 1] BY <2>1, <3>1
    <3>3. f[n] = Awaited(tree, f[n - 1]) BY <1>5, <2>2, <2>4, Zenon
    <3>4. ASSUME NEW c \in C PROVE c \in Awaited(tree, f[n - 1])
      <4>1. PICK p \in C : Leading(p, c) BY <1>1
      <4>2. p \in Dependents(tree, c) BY <4>1, <1>3, DependentsMember
      <4>3. QED BY <3>2, <4>1, <4>2 DEF Awaited
    <3>5. QED BY <2>2, <3>3, <3>4
  <2>5. QED BY <2>3, <2>4
<1>7. N \in 0..N BY <1>2
<1>8. C \subseteq f[N] BY <1>6, <1>7
<1>9. QED BY <1>1, <1>4, <1>8

----------------------------------------------------------------------------
(* What a step of add_spec keeps.                                          *)

\* What a decision was told it was told.
Heeds(d) ==
  /\ decisions[d].triggers \subseteq decisions'[d].triggers
  /\ decisions[d].choice \in {RIGHT, BOTH} => decisions'[d].choice \in {RIGHT, BOTH}

AllHeed == \A d \in DOMAIN tree : IsDecision(d) => Heeds(d)

LEMMA HeedUnchanged == ASSUME UNCHANGED decisions PROVE AllHeed
BY DEF AllHeed, Heeds

LEMMA HeedSet ==
  ASSUME PlannedTree, NEW c, NEW which \in {LEFT, RIGHT},
         decisions' = [decisions EXCEPT ![c] = SetDecision(@, which)]
  PROVE  /\ AllHeed
         /\ c \in DOMAIN tree /\ IsDecision(c) /\ which = RIGHT =>
              decisions'[c].choice \in {RIGHT, BOTH}
<1>1. ASSUME NEW d \in DOMAIN tree, IsDecision(d)
      PROVE  Heeds(d) /\ (d = c /\ which = RIGHT => decisions'[d].choice \in {RIGHT, BOTH})
  <2>1. PICK D : D = decisions[d] OBVIOUS
  <2>2. d \in DOMAIN decisions /\ D \in DecisionType BY <1>1, <2>1 DEF PlannedTree, DecisionOK
  <2>3. CASE d # c
    <3>1. decisions'[d] = D BY <2>1, <2>3
    <3>2. QED BY <2>1, <2>3, <3>1 DEF Heeds
  <2>4. CASE d = c
    <3>1. decisions'[d] = SetDecision(D, which) BY <2>1, <2>2, <2>4
    <3>2. PICK N : N = SetDecision(D, which) OBVIOUS
    <3>3. D.choice \in {Unset, LEFT, RIGHT, BOTH} BY <2>2 DEF DecisionType
    <3>4. N.triggers = D.triggers /\ N.choice = Agree(D.choice, which)
      BY <2>2, <3>2 DEF SetDecision, DecisionType
    <3>5. D.choice \in {RIGHT, BOTH} \/ which = RIGHT => Agree(D.choice, which) \in {RIGHT, BOTH}
      BY <3>3 DEF Agree, Unset, LEFT, RIGHT, BOTH
    <3>6. QED BY <2>1, <3>1, <3>2, <3>4, <3>5 DEF Heeds
  <2>5. QED BY <2>3, <2>4
<1>2. QED BY <1>1 DEF AllHeed

LEMMA HeedTriggered ==
  ASSUME PlannedTree, NEW c, NEW u,
         decisions' = [decisions EXCEPT ![c] = AddTrigger(@, u, LEFT)]
  PROVE  /\ AllHeed
         /\ c \in DOMAIN tree /\ IsDecision(c) => <<u, LEFT>> \in decisions'[c].triggers
<1>1. ASSUME NEW d \in DOMAIN tree, IsDecision(d)
      PROVE  Heeds(d) /\ (d = c => <<u, LEFT>> \in decisions'[d].triggers)
  <2>1. PICK D : D = decisions[d] OBVIOUS
  <2>2. d \in DOMAIN decisions /\ D \in DecisionType BY <1>1, <2>1 DEF PlannedTree, DecisionOK
  <2>3. CASE d # c
    <3>1. decisions'[d] = D BY <2>1, <2>3
    <3>2. QED BY <2>1, <2>3, <3>1 DEF Heeds
  <2>4. CASE d = c
    <3>1. decisions'[d] = AddTrigger(D, u, LEFT) BY <2>1, <2>2, <2>4
    <3>2. PICK N : N = AddTrigger(D, u, LEFT) OBVIOUS
    <3>3. N.triggers = D.triggers \cup {<<u, LEFT>>} /\ N.choice = D.choice
      BY <2>2, <3>2 DEF AddTrigger, DecisionType
    <3>4. QED BY <2>1, <3>1, <3>2, <3>3 DEF Heeds
  <2>5. QED BY <2>3, <2>4
<1>2. QED BY <1>1 DEF AllHeed

LEMMA HeedAdded ==
  ASSUME PlannedTree, NEW c, c \notin DOMAIN tree, NEW dec,
         decisions' = Override(decisions, {c}, dec)
  PROVE  AllHeed /\ decisions'[c] = dec
<1>1. /\ decisions'[c] = dec
      /\ \A d \in DOMAIN decisions : d # c => decisions'[d] = decisions[d]
  BY DEF Override
<1>2. ASSUME NEW d \in DOMAIN tree, IsDecision(d) PROVE Heeds(d)
  <2>1. d \in DOMAIN decisions /\ d # c BY <1>2 DEF PlannedTree, DecisionOK
  <2>2. decisions'[d] = decisions[d] BY <1>1, <2>1
  <2>3. QED BY <2>2 DEF Heeds
<1>3. QED BY <1>1, <1>2 DEF AllHeed

LEMMA NowLines ==
  ASSUME PlanInv, HonourInv, pc = "adding"
  PROVE  /\ LinesOK /\ EdgesRight /\ GetsOK /\ AsksOK /\ HonourOK /\ FrameOK(Now)
         /\ Now.do \in Consumers =>
              /\ Gets(Now, returned)
              /\ Now.do = "join" /\ Now.dep.kind = "build" => HasBuild(Now.dep.name)
         /\ Now.do # "end_line" =>
              /\ Len(todo) > 1 /\ Len(todo) \in Nat /\ NextTo(tree, Now, todo[2])
              /\ todo[2] \in Calls /\ FrameOK(todo[2])
<1>1. LinesOK /\ EdgesRight /\ GetsOK /\ AsksOK /\ HonourOK BY DEF HonourInv
<1>2. CallsOK /\ todo \in Seq(Calls) /\ todo # <<>> /\ Now = todo[1] BY NowFacts
<1>3. PICK n \in Nat : n = Len(todo) /\ n >= 1 BY <1>2, TailFacts
<1>4. 1 \in 1..Len(todo) BY <1>3
<1>5. FrameOK(Now) BY <1>1, <1>2, <1>4 DEF LinesOK
<1>6. ASSUME Now.do # "end_line"
      PROVE  /\ Len(todo) > 1 /\ Len(todo) \in Nat /\ NextTo(tree, Now, todo[2])
             /\ todo[2] \in Calls /\ FrameOK(todo[2])
  <2>1. 1 # Len(todo) BY <1>2, <1>4, <1>6 DEF CallsOK
  <2>2. 1 \in 1..(Len(todo) - 1) /\ 2 \in 1..Len(todo) /\ 1 + 1 = 2 /\ n > 1 BY <1>3, <2>1
  <2>3. NextTo(tree, todo[1], todo[1 + 1]) BY <1>1, <2>2 DEF LinesOK
  <2>4. FrameOK(todo[2]) BY <1>1, <2>2 DEF LinesOK
  <2>5. todo[2] \in Calls BY <1>2, <2>2
  <2>6. QED BY <1>2, <1>3, <2>2, <2>3, <2>4, <2>5
<1>7. QED BY <1>1, <1>2, <1>5, <1>6 DEF LinesOK

\* V and E are new in the tree, the calls of batch are to be done.
StepOK(V, E, batch) ==
  /\ pc = "adding" /\ pc' = "adding" /\ Now.do # "end_line" /\ UNCHANGED order
  /\ GrownBy(V, E) /\ batch \in Seq(Calls) /\ ThenDo(batch) /\ BatchOK(batch) /\ AllHeed
  /\ \A e \in E : IF e[1] = Root THEN Late(e[2]) ELSE EdgeRight(e[1], e[2])
  /\ \A u, v : <<u, v>> \in Promises(Now, returned) => u \in DOMAIN tree' /\ v \in tree'[u]

\* What gives an install its binary comes with it.
GetsAdded(V, E, batch) ==
  \A s \in Spec : Install(s) \in V \ DOMAIN tree =>
    IF HasBuild(s)
    THEN \E i \in 1..Len(batch) : batch[i].do = "decide_install" /\ batch[i].args.spec = s
    ELSE \E e \in E : e[1] = Install(s) /\ e[2] = DownloadBinary(s)

AsksAdded(batch) ==
  /\ \A i \in 1..Len(batch) : batch[i].do = "join" /\ batch[i].dep.kind = "download" =>
       i = 2 /\ batch[1].do = "add_spec" /\ batch[1].args.prim = "install" /\ batch[1].args.force
  /\ \A s : Now.args.spec = s /\ Now.args.force =>
       /\ Now.do = "decide_install" => Told(s)'
       /\ Now.do = "add_spec" /\ Now.args.prim = "install" /\ todo[2].do = "join" => AskedFor(s)'

HonourAdded(V, batch) ==
  /\ \A v \in V \ DOMAIN tree : Dependent(v) =>
       /\ v \in Results
       /\ \A e \in ToSet(Def[v.spec].deps[v.kind]) :
            \E i \in 1..Len(batch) : /\ batch[i].do = "dependency" /\ batch[i].dep = e
                                     /\ ResultOf(batch[i].args) = v
  /\ Now.do = "dependency" =>
       \/ Now.dep.kind = "source"
       \/ \E i \in 1..Len(batch) : /\ batch[i].do = "join" /\ batch[i].dep = Now.dep
                                   /\ batch[i].args = Now.args
  /\ \A u, e : Now.do = "join" /\ ResultOf(Now.args) = u /\ Now.dep = e =>
       Honoured(u, e)' \/ InCircle

LEMMA StepCircles ==
  ASSUME PlanInv, HonourInv, NEW V, NEW E, NEW batch, StepOK(V, E, batch), InCircle
  PROVE  InCircle'
<1>1. /\ todo \in Seq(Calls) /\ Len(todo) > 1 /\ todo[1] = Now
  BY NowFacts, NowLines DEF StepOK
<1>2. Wider BY GrownIsWider DEF StepOK
<1>3. /\ batch \in Seq(Calls) /\ ThenDo(batch) /\ BatchOK(batch)
      /\ \A u, v : <<u, v>> \in Promises(todo[1], returned) => u \in DOMAIN tree' /\ v \in tree'[u]
  BY <1>1 DEF StepOK
<1>4. \A u, v : Leading(u, v) => Leading(u, v)' BY <1>1, <1>2, <1>3, LeadingStays
<1>5. QED BY <1>4, CirclesStay

\* Where the calls of the stack and of the batch are.
LEMMA StepCalls ==
  ASSUME PlanInv, NEW V, NEW E, NEW batch, StepOK(V, E, batch)
  PROVE  /\ \A i \in 1..Len(batch) : i \in 1..Len(todo') /\ todo'[i] = batch[i]
         /\ \A j \in 1..Len(todo) : j # 1 => \E k \in 1..Len(todo') : todo'[k] = todo[j]
         /\ \A k \in 1..Len(todo') :
              \/ k \in 1..Len(batch) /\ todo'[k] = batch[k]
              \/ \E j \in 2..Len(todo) : todo'[k] = todo[j]
<1>1. /\ todo \in Seq(Calls) /\ todo # <<>> BY NowFacts DEF StepOK
<1>2. batch \in Seq(Calls) /\ ThenDo(batch) BY DEF StepOK
<1>3. PICK m \in Nat : m = Len(batch) BY <1>2
<1>4. PICK n \in Nat : n = Len(todo) /\ n >= 1 BY <1>1, TailFacts
<1>5. /\ Len(todo') = m + n - 1 /\ \A i \in 1..m : todo'[i] = batch[i]
      /\ \A i \in (m + 1)..(m + n - 1) : i - m + 1 \in 2..n /\ todo'[i] = todo[i - m + 1]
      /\ \A j \in 2..n : j + m - 1 \in (m + 1)..(m + n - 1) /\ todo'[j + m - 1] = todo[j]
  BY <1>1, <1>2, <1>3, <1>4, StackShape
<1>6. \A i \in 1..m : i \in 1..(m + n - 1) BY <1>4
<1>7. ASSUME NEW j \in 1..Len(todo), j # 1 PROVE \E k \in 1..Len(todo') : todo'[k] = todo[j]
  <2>1. j \in 2..n BY <1>4, <1>7
  <2>2. j + m - 1 \in 1..(m + n - 1) BY <2>1
  <2>3. QED BY <1>5, <2>1, <2>2
<1>8. ASSUME NEW k \in 1..Len(todo')
      PROVE  \/ k \in 1..Len(batch) /\ todo'[k] = batch[k]
             \/ \E j \in 2..Len(todo) : todo'[k] = todo[j]
  <2>1. CASE k \in 1..m BY <1>3, <1>5, <2>1
  <2>2. CASE k \notin 1..m
    <3>1. k \in (m + 1)..(m + n - 1) BY <1>5, <2>2
    <3>2. k - m + 1 \in 2..Len(todo) /\ todo'[k] = todo[k - m + 1] BY <1>4, <1>5, <3>1
    <3>3. QED BY <3>2
  <2>3. QED BY <2>1, <2>2
<1>9. QED BY <1>3, <1>5, <1>6, <1>7, <1>8

LEMMA EdgesStep ==
  ASSUME PlanInv, HonourInv, NEW V, NEW E, NEW batch, StepOK(V, E, batch)
  PROVE  EdgesRight'
<1>1. /\ EdgesRight /\ DOMAIN tree' = DOMAIN tree \cup V
      /\ \A u \in DOMAIN tree' : \A p :
           p \in tree'[u] <=> \/ u \in DOMAIN tree /\ p \in tree[u]
                             \/ \E e \in E : e[1] = u /\ e[2] = p
      /\ \A e \in E : IF e[1] = Root THEN Late(e[2]) ELSE EdgeRight(e[1], e[2])
      /\ Root \in DOMAIN tree
  BY NowLines, NowFacts DEF StepOK, GrownBy, PlannedTree
<1>2. ASSUME NEW u \in DOMAIN tree' \ {Root}, NEW v \in tree'[u] PROVE EdgeRight(u, v)
  BY <1>1, <1>2 DEF EdgesRight
<1>3. ASSUME NEW v \in tree'[Root], IsPlain(v) PROVE \E s \in Spec, k \in Prim : v = TargetOf(s, k)
  <2>1. ~Late(v) BY <1>3, KindsApart
  <2>2. Root \in DOMAIN tree' BY <1>1
  <2>3. v \in tree[Root] BY <1>1, <1>3, <2>1, <2>2
  <2>4. QED BY <1>1, <1>3, <2>3 DEF EdgesRight
<1>4. QED BY <1>2, <1>3 DEF EdgesRight

LEMMA GetsStep ==
  ASSUME PlanInv, HonourInv, PlanInv', NEW V, NEW E, NEW batch, StepOK(V, E, batch),
         GetsAdded(V, E, batch)
  PROVE  GetsOK'
<1> SUFFICES ASSUME NEW s \in Spec, Install(s) \in DOMAIN tree'
             PROVE  IF HasBuild(s) THEN BuildDecision(s) \in DOMAIN tree' \/ DecisionPending(s)'
                                   ELSE DownloadBinary(s) \in tree'[Install(s)]
  BY DEF GetsOK
<1>1. /\ DOMAIN tree' = DOMAIN tree \cup V
      /\ \A u \in DOMAIN tree' : \A p :
           p \in tree'[u] <=> \/ u \in DOMAIN tree /\ p \in tree[u]
                             \/ \E e \in E : e[1] = u /\ e[2] = p
      /\ \A u, v : <<u, v>> \in Promises(Now, returned) => u \in DOMAIN tree' /\ v \in tree'[u]
      /\ pc = "adding"
  BY DEF StepOK, GrownBy
<1>2. GetsOK BY <1>1, NowLines
<1>3. CASE Install(s) \in DOMAIN tree /\ HasBuild(s)
  <2>1. CASE BuildDecision(s) \in DOMAIN tree BY <1>1, <1>3, <2>1
  <2>2. CASE DecisionPending(s)
    <3>1. PICK i \in 1..Len(todo) : todo[i].do = "decide_install" /\ todo[i].args.spec = s
      BY <2>2 DEF DecisionPending
    <3>2. CASE i = 1
      <4>1. Now.do = "decide_install" /\ Now.args.spec = s BY <1>1, <3>1, <3>2, NowFacts
      <4>2. <<Install(s), BuildDecision(s)>> \in Promises(Now, returned)
        BY <4>1, PromisesFacts, WorkerFacts
      <4>3. BuildDecision(s) \in tree'[Install(s)] BY <1>1, <4>2
      <4>4. BuildDecision(s) \in DOMAIN tree' BY <4>3 DEF PlanInv, PlannedTree
      <4>5. QED BY <1>3, <4>4
    <3>3. CASE i # 1
      <4>1. PICK k \in 1..Len(todo') : todo'[k] = todo[i] BY <3>3, StepCalls
      <4>2. DecisionPending(s)' BY <3>1, <4>1 DEF DecisionPending
      <4>3. QED BY <1>3, <4>2
    <3>4. QED BY <3>2, <3>3
  <2>3. QED BY <1>2, <1>3, <2>1, <2>2 DEF GetsOK
<1>4. CASE Install(s) \in DOMAIN tree /\ ~HasBuild(s) BY <1>1, <1>2, <1>4 DEF GetsOK
<1>5. CASE Install(s) \notin DOMAIN tree
  <2>1. Install(s) \in V \ DOMAIN tree BY <1>1, <1>5
  <2>2. CASE HasBuild(s)
    <3>1. PICK i \in 1..Len(batch) : batch[i].do = "decide_install" /\ batch[i].args.spec = s
      BY <2>1, <2>2 DEF GetsAdded
    <3>2. i \in 1..Len(todo') /\ todo'[i] = batch[i] BY StepCalls
    <3>3. DecisionPending(s)' BY <3>1, <3>2 DEF DecisionPending
    <3>4. QED BY <2>2, <3>3
  <2>3. CASE ~HasBuild(s) BY <1>1, <2>1, <2>3 DEF GetsAdded
  <2>4. QED BY <2>2, <2>3
<1>6. QED BY <1>3, <1>4, <1>5

\* What was told stays told.
LEMMA ToldStays ==
  ASSUME PlanInv, NEW V, NEW E, NEW batch, StepOK(V, E, batch), NEW s
  PROVE  /\ Told(s) => Told(s)'
         /\ \A t : BuildDecision(s) \in DOMAIN tree /\ t \in decisions[BuildDecision(s)].triggers =>
              t \in decisions'[BuildDecision(s)].triggers
<1>1. PICK d : d = BuildDecision(s) OBVIOUS
<1>2. IsDecision(d) BY <1>1, BelowFacts DEF BuildDecision
<1>3. d \in DOMAIN tree => Heeds(d) /\ d \in DOMAIN tree' BY <1>2 DEF StepOK, AllHeed, GrownBy
<1>4. QED BY <1>1, <1>3 DEF Told, Heeds

\* The targets of a specification.
LEMMA TargetFacts ==
  ASSUME NEW s
  PROVE  /\ TargetOf(s, "download") = Install(s) /\ TargetOf(s, "test") = Test(s)
         /\ TargetOf(s, "source") = CreateSources(s)
         /\ TargetOf(s, "build") = IF Def[s].package THEN Install(s) ELSE Build(s)
         /\ TargetOf(s, "install") =
              IF ~Def[s].package /\ HasBuild(s) THEN Build(s) ELSE Install(s)
         /\ Install(s).kind = "install" /\ Install(s).spec = s
         /\ Build(s).kind = "build" /\ Build(s).spec = s
         /\ Test(s).kind = "test" /\ Test(s).spec = s
         /\ CreateSources(s).kind = "sources" /\ CreateSources(s).spec = s
         /\ BuildDecision(s).kind = "build_or_download" /\ BuildDecision(s).spec = s
BY UidFacts, BelowFacts
   DEF TargetOf, HasBuild, BuildDecision, Install, Build, Test, CreateSources

LEMMA AskStays ==
  ASSUME PlanInv, HonourInv, NEW V, NEW E, NEW batch, StepOK(V, E, batch), AsksAdded(batch),
         NEW s, AskedFor(s)
  PROVE  AskedFor(s)'
<1>1. CASE ~HasBuild(s) BY <1>1 DEF AskedFor
<1>2. CASE Told(s) BY <1>2, ToldStays DEF AskedFor
<1>3. CASE InCircle BY <1>3, StepCircles DEF AskedFor
<1>4. ASSUME NEW i \in 1..Len(todo), todo[i].do = "decide_install", todo[i].args.spec = s,
             todo[i].args.force
      PROVE  AskedFor(s)'
  <2>1. CASE i = 1
    <3>1. todo[1] = Now BY NowFacts DEF StepOK
    <3>2. Told(s)' BY <1>4, <2>1, <3>1 DEF AsksAdded
    <3>3. QED BY <3>2 DEF AskedFor
  <2>2. CASE i # 1
    <3>1. PICK k \in 1..Len(todo') : todo'[k] = todo[i] BY <2>2, StepCalls
    <3>2. QED BY <1>4, <3>1 DEF AskedFor
  <2>3. QED BY <2>1, <2>2
<1>5. QED BY <1>1, <1>2, <1>3, <1>4 DEF AskedFor

LEMMA AsksStep ==
  ASSUME PlanInv, HonourInv, NEW V, NEW E, NEW batch, StepOK(V, E, batch), AsksAdded(batch)
  PROVE  AsksOK'
<1> SUFFICES ASSUME NEW k \in 1..Len(todo'), todo'[k].do = "join", todo'[k].dep.kind = "download",
                    NEW s, s = todo'[k].dep.name
             PROVE  \/ AskedFor(s)'
                    \/ /\ k = 2 /\ todo'[1].do = "add_spec"
                       /\ todo'[1].args.prim = "install" /\ todo'[1].args.force
  BY DEF AsksOK
<1>1. AsksOK /\ todo[1] = Now /\ Now \in Calls /\ CallOK(DOMAIN tree, Now)
  BY NowLines, NowFacts DEF StepOK
<1>2. CASE k \in 1..Len(batch) /\ todo'[k] = batch[k]
  <2>1. k = 2 /\ batch[1].do = "add_spec" /\ batch[1].args.prim = "install" /\ batch[1].args.force
    BY <1>2 DEF AsksAdded
  <2>2. 1 \in 1..Len(batch)
    <3>1. PICK m \in Nat : m = Len(batch) BY DEF StepOK
    <3>2. 2 \in 1..m BY <1>2, <2>1, <3>1
    <3>3. QED BY <3>1, <3>2
  <2>3. todo'[1] = batch[1] BY <2>2, StepCalls
  <2>4. QED BY <2>1, <2>3
<1>3. ASSUME NEW j \in 2..Len(todo), todo'[k] = todo[j] PROVE AskedFor(s)'
  <2>1. CASE AskedFor(todo[j].dep.name)
    <3>1. AskedFor(s) BY <1>3, <2>1
    <3>2. QED BY <3>1, AskStays
  <2>2. CASE j = 2 /\ todo[1].do = "add_spec" /\ todo[1].args.prim = "install" /\ todo[1].args.force
    <3>1. /\ todo[2].do = "join" /\ todo[2].dep.kind = "download" BY <1>3, <2>2
    <3>2. NextTo(tree, Now, todo[2]) BY NowLines DEF StepOK
    <3>3. Gets(todo[2], Worker(Now)) BY <3>1, <3>2 DEF NextTo, Consumers
    <3>4. Worker(Now) = TargetOf(todo[2].dep.name, "download") BY <3>1, <3>3 DEF Gets
    <3>5. Now.args \in ArgType /\ (Now.args.source # NoItem => Now.args.prim = "source")
      BY <1>1, <2>2, CallFacts DEF CallOK
    <3>6. Worker(Now) = Install(Now.args.spec) BY <1>1, <2>2, <3>5, WorkerFacts, WillReturnFacts
    <3>7. Now.args.spec = todo[2].dep.name BY <3>4, <3>6, TargetFacts
    <3>8. Now.args.spec = s BY <1>3, <2>2, <3>7
    <3>9. QED BY <1>1, <2>2, <3>1, <3>8 DEF AsksAdded
  <2>3. j \in 1..Len(todo) OBVIOUS
  <2>4. QED BY <1>1, <1>3, <2>1, <2>2, <2>3 DEF AsksOK
<1>4. QED BY <1>2, <1>3, StepCalls

LEMMA HonouredStays ==
  ASSUME PlanInv, NEW V, NEW E, NEW batch, StepOK(V, E, batch), NEW u \in DOMAIN tree, NEW e,
         Honoured(u, e)
  PROVE  Honoured(u, e)'
<1>1. e.kind # "source" => TargetOf(e.name, e.kind) \in tree'[u]
  BY GrownIsWider DEF StepOK, Wider, Honoured
<1>2. e.kind = "build" /\ Def[e.name].package =>
        /\ BuildDecision(e.name) \in DOMAIN tree'
        /\ <<u, LEFT>> \in decisions'[BuildDecision(e.name)].triggers
  BY ToldStays, GrownIsWider DEF StepOK, Wider, Honoured
<1>3. e.kind = "download" /\ HasBuild(e.name) => Told(e.name)' BY ToldStays DEF Honoured
<1>4. QED BY <1>1, <1>2, <1>3 DEF Honoured

LEMMA DependenciesStep ==
  ASSUME PlanInv, HonourInv, NEW V, NEW E, NEW batch, StepOK(V, E, batch), HonourAdded(V, batch)
  PROVE  HonourOK'
<1>1. HonourOK /\ todo[1] = Now /\ DOMAIN tree' = DOMAIN tree \cup V
  BY NowLines, NowFacts DEF StepOK, GrownBy
<1>2. ASSUME NEW u \in DOMAIN tree, Dependent(u), NEW e \in ToSet(Def[u.spec].deps[u.kind])
      PROVE  Honoured(u, e)' \/ DependencyPending(u, e)' \/ InCircle'
  <2>1. CASE Honoured(u, e) BY <2>1, HonouredStays
  <2>2. CASE InCircle BY <2>2, StepCircles
  <2>3. ASSUME NEW i \in 1..Len(todo), todo[i].do \in {"dependency", "join"}, todo[i].dep = e,
               ResultOf(todo[i].args) = u
        PROVE  Honoured(u, e)' \/ DependencyPending(u, e)' \/ InCircle'
    <3>1. CASE i # 1
      <4>1. PICK k \in 1..Len(todo') : todo'[k] = todo[i] BY <3>1, StepCalls
      <4>2. QED BY <2>3, <4>1 DEF DependencyPending
    <3>2. CASE i = 1 /\ Now.do = "join"
      <4>1. ResultOf(Now.args) = u /\ Now.dep = e BY <1>1, <2>3, <3>2
      <4>2. Honoured(u, e)' \/ InCircle BY <3>2, <4>1 DEF HonourAdded
      <4>3. QED BY <4>2, StepCircles
    <3>3. CASE i = 1 /\ Now.do = "dependency" /\ Now.dep.kind = "source"
      <4>1. e.kind = "source" BY <1>1, <2>3, <3>3
      <4>2. Honoured(u, e)' BY <4>1 DEF Honoured
      <4>3. QED BY <4>2
    <3>4. CASE i = 1 /\ Now.do = "dependency" /\ Now.dep.kind # "source"
      <4>1. PICK k \in 1..Len(batch) : /\ batch[k].do = "join" /\ batch[k].dep = Now.dep
                                       /\ batch[k].args = Now.args
        BY <3>4 DEF HonourAdded
      <4>2. k \in 1..Len(todo') /\ todo'[k] = batch[k] BY StepCalls
      <4>3. ResultOf(todo'[k].args) = u /\ todo'[k].dep = e BY <1>1, <2>3, <3>4, <4>1, <4>2
      <4>4. DependencyPending(u, e)' BY <4>1, <4>2, <4>3 DEF DependencyPending
      <4>5. QED BY <4>4
    <3>5. QED BY <1>1, <2>3, <3>1, <3>2, <3>3, <3>4
  <2>4. QED BY <1>1, <1>2, <2>1, <2>2, <2>3 DEF HonourOK, DependencyPending
<1>3. ASSUME NEW u \in V \ DOMAIN tree, Dependent(u), NEW e \in ToSet(Def[u.spec].deps[u.kind])
      PROVE  DependencyPending(u, e)'
  <2>1. PICK i \in 1..Len(batch) : /\ batch[i].do = "dependency" /\ batch[i].dep = e
                                   /\ ResultOf(batch[i].args) = u
    BY <1>3 DEF HonourAdded
  <2>2. i \in 1..Len(todo') /\ todo'[i] = batch[i] BY StepCalls
  <2>3. QED BY <2>1, <2>2 DEF DependencyPending
<1>4. ASSUME NEW u \in DOMAIN tree', Dependent(u) PROVE u \in Results
  BY <1>1, <1>4 DEF HonourOK, HonourAdded
<1>5. ASSUME NEW u \in DOMAIN tree', Dependent(u), NEW e \in ToSet(Def[u.spec].deps[u.kind])
      PROVE  Honoured(u, e)' \/ DependencyPending(u, e)' \/ InCircle'
  <2>1. CASE u \in DOMAIN tree BY <1>2, <1>5, <2>1
  <2>2. CASE u \notin DOMAIN tree BY <1>1, <1>3, <1>5, <2>2
  <2>3. QED BY <2>1, <2>2
<1>6. QED BY <1>4, <1>5 DEF HonourOK

LEMMA HonourStep ==
  ASSUME PlanInv, HonourInv, PlanInv', NEW V, NEW E, NEW batch, StepOK(V, E, batch),
         GetsAdded(V, E, batch), AsksAdded(batch), HonourAdded(V, batch)
  PROVE  HonourInv'
<1>1. EdgesRight' /\ GetsOK' /\ AsksOK' /\ HonourOK'
  BY EdgesStep, GetsStep, AsksStep, DependenciesStep
<1>2. LinesOK'
  <2>1. todo \in Seq(Calls) /\ Len(todo) > 1 /\ LinesOK BY NowFacts, NowLines DEF StepOK
  <2>2. Wider BY GrownIsWider DEF StepOK
  <2>3. batch \in Seq(Calls) /\ ThenDo(batch) /\ BatchOK(batch) BY DEF StepOK
  <2>4. QED BY <2>1, <2>2, <2>3, LinesStep
<1>3. pc' = "adding" /\ order' \in Orders BY DEF StepOK, HonourInv
<1>4. QED BY <1>1, <1>2, <1>3 DEF HonourInv

----------------------------------------------------------------------------
(* The steps of add_spec once more.                                        *)

LEMMA SilentFacts ==
  ASSUME PlanInv, HonourInv, pc = "adding", Now.do \notin {"end_line", "return", "add_spec"}
  PROVE  todo[2].do \notin Consumers /\ todo[2].do # "add_spec" /\ Chained(tree, Now, todo[2])
<1>1. todo[2].do \notin Consumers BY NotAnswered, NowFacts
<1>2. QED BY <1>1, NowLines DEF NextTo

LEMMA EmptyBatch ==
  ASSUME PlanInv, HonourInv, pc = "adding", Now.do \notin {"end_line", "return", "add_spec"}
  PROVE  BatchOK(<<>>)
<1>1. PICK batch : batch = <<>> OBVIOUS
<1>2. Len(batch) = 0 /\ 1..0 = {} /\ 1..(0 - 1) = {} BY <1>1
<1>3. BatchOK(batch) BY <1>1, <1>2, SilentFacts DEF BatchOK
<1>4. QED BY <1>1, <1>3

LEMMA NoneAdded ==
  ASSUME NEW batch, batch = <<>>
  PROVE  /\ \A i \in 1..Len(batch) : FALSE
         /\ batch \in Seq(Calls)
<1>1. Len(batch) = 0 /\ 1..0 = {} OBVIOUS
<1>2. QED BY <1>1

\* A call, and what looks at what it returns.
LEMMA CallBatch ==
  ASSUME PlanInv, HonourInv, pc = "adding", Now.do \notin {"end_line", "return", "add_spec"},
         NEW b, NEW e, e.do \in {"join", "connect", "decide_source"}, FrameOK(e),
         Gets(e, WillReturn(b)),
         e.do = "join" /\ e.dep.kind = "build" => b.prim = "build" /\ b.spec = e.dep.name,
         Chained(tree', e, todo[2])
  PROVE  BatchOK(<<AddSpec(b), e>>)
<1>1. PICK c : c = AddSpec(b) OBVIOUS
<1>2. c.do = "add_spec" /\ c.args = b BY <1>1 DEF AddSpec
<1>3. Worker(c) = WillReturn(b) BY <1>2, WorkerFacts
<1>4. PICK batch : batch = <<c, e>> OBVIOUS
<1>5. /\ Len(batch) = 2 /\ batch[1] = c /\ batch[2] = e /\ batch # <<>>
      /\ \A i \in 1..Len(batch) : i = 1 \/ i = 2
      /\ \A i \in 1..(Len(batch) - 1) : i = 1
  BY <1>4
<1>6. FrameOK(c) BY <1>2 DEF FrameOK
<1>7. NextTo(tree', c, e) BY <1>2, <1>3 DEF NextTo, Consumers
<1>8. NextTo(tree', e, todo[2]) BY SilentFacts DEF NextTo
<1>9. BatchOK(batch)
  <2>1. \A i \in 1..Len(batch) : FrameOK(batch[i]) BY <1>5, <1>6
  <2>2. \A i \in 1..(Len(batch) - 1) : NextTo(tree', batch[i], batch[i + 1])
    <3>1. 1 + 1 = 2 OBVIOUS
    <3>2. QED BY <1>5, <1>7, <3>1
  <2>3. batch[1].do \notin Consumers BY <1>2, <1>5 DEF Consumers
  <2>4. QED BY <1>5, <1>8, <2>1, <2>2, <2>3, SilentFacts DEF BatchOK
<1>10. QED BY <1>1, <1>4, <1>9

\* A step that leaves the tree and the decisions alone.
LEMMA QuietStep ==
  ASSUME PlanInv, HonourInv, PlanInv', pc = "adding", pc' = "adding", Now.do # "end_line",
         Now.do \notin Consumers, UNCHANGED <<tree, decisions, order>>,
         NEW batch \in Seq(Calls), ThenDo(batch), BatchOK(batch),
         AsksAdded(batch), \A V : V = {} => HonourAdded(V, batch)
  PROVE  HonourInv'
<1>1. PICK V, E : V = {} /\ E = {} OBVIOUS
<1>2. GrownBy(V, E) BY <1>1, NowFacts, SameTree
<1>3. \A u, v : <<u, v>> \notin Promises(Now, returned) BY PromisesFacts DEF Consumers
<1>4. AllHeed BY HeedUnchanged
<1>5. StepOK(V, E, batch) BY <1>1, <1>2, <1>3, <1>4 DEF StepOK
<1>6. GetsAdded(V, E, batch) BY <1>1 DEF GetsAdded
<1>7. QED BY <1>1, <1>5, <1>6, HonourStep

LEMMA LoadSourceDependencyHonour ==
  ASSUME PlanInv, HonourInv, PlanInv', LoadSourceDependency
  PROVE  HonourInv'
<1>1. /\ pc = "adding" /\ Now.do = "dependency" /\ pc' = "adding" /\ Now.dep.kind = "source"
      /\ ThenDo(<<>>) /\ UNCHANGED <<tree, decisions, order>>
  BY DEF LoadSourceDependency, Doing, Now, scheduleVars
<1>2. PICK batch : batch = <<>> OBVIOUS
<1>3. BatchOK(batch) BY <1>1, <1>2, EmptyBatch
<1>4. AsksAdded(batch) BY <1>1, <1>2, NoneAdded DEF AsksAdded
<1>5. \A V : V = {} => HonourAdded(V, batch) BY <1>1 DEF HonourAdded
<1>6. QED BY <1>1, <1>2, <1>3, <1>4, <1>5, NoneAdded, QuietStep DEF Consumers

LEMMA ReturnResultHonour ==
  ASSUME PlanInv, HonourInv, PlanInv', ReturnResult
  PROVE  HonourInv'
<1>1. /\ pc = "adding" /\ Now.do = "return" /\ pc' = "adding" /\ returned' = Now.uid
      /\ ThenDo(<<>>) /\ UNCHANGED <<tree, decisions, order>>
  BY DEF ReturnResult, Doing, Now, scheduleVars
<1>2. PICK batch : batch = <<>> OBVIOUS
<1>3. BatchOK(batch)
  <2>1. returned' = Worker(todo[1]) BY <1>1, NowFacts, WorkerFacts
  <2>2. todo[2].do = "join" /\ todo[2].dep.kind = "build" => HasBuild(todo[2].dep.name)
    BY <1>1, NowLines DEF NextTo, Consumers
  <2>3. Len(batch) = 0 /\ 1..0 = {} /\ 1..(0 - 1) = {} BY <1>2
  <2>4. QED BY <1>2, <2>1, <2>2, <2>3 DEF BatchOK
<1>4. AsksAdded(batch) BY <1>1, <1>2, NoneAdded DEF AsksAdded
<1>5. \A V : V = {} => HonourAdded(V, batch) BY <1>1 DEF HonourAdded
<1>6. QED BY <1>1, <1>2, <1>3, <1>4, <1>5, NoneAdded, QuietStep DEF Consumers

LEMMA BuildSourceHonour ==
  ASSUME PlanInv, HonourInv, PlanInv', BuildSource
  PROVE  HonourInv'
<1> DEFINE a == Now.args
           b == [a EXCEPT !.source = Now.source]
           e == ConnectBelow(CreateSources(a.spec))
<1>1. /\ pc = "adding" /\ Now.do = "source_build" /\ pc' = "adding"
      /\ UNCHANGED <<tree, decisions, order>>
      /\ ThenDo(IF Now.source \in Unmanaged THEN <<>> ELSE <<AddSpec(b), e>>)
  BY DEF BuildSource, Doing, Now, scheduleVars
<1>2. a \in ArgType /\ Now.source \in Source BY <1>1, NowFacts, CallFacts
<1>3. a.prim = "source" BY <1>1, NowFacts DEF CallOK
<1>4. b \in ArgType /\ b.prim = "source" /\ b.source = Now.source /\ b.spec = a.spec
  BY <1>2, <1>3, WithSource
<1>5. CreateSources(a.spec) \in Results BY <1>2, ArgFacts DEF Results
<1>6. e \in Calls /\ e.do = "connect" /\ e.uid = CreateSources(a.spec)
  BY <1>5, CallTypes DEF ConnectBelow
<1>7. AddSpec(b) \in Calls /\ AddSpec(b).do = "add_spec" BY <1>4, CallTypes DEF AddSpec
<1> HIDE DEF a, b, e
<1>8. CASE Now.source \in Unmanaged
  <2>1. PICK batch : batch = <<>> OBVIOUS
  <2>2. ThenDo(batch) BY <1>1, <1>8, <2>1
  <2>3. BatchOK(batch) BY <1>1, <2>1, EmptyBatch
  <2>4. AsksAdded(batch) BY <1>1, <2>1, NoneAdded DEF AsksAdded
  <2>5. \A V : V = {} => HonourAdded(V, batch) BY <1>1 DEF HonourAdded
  <2>6. QED BY <1>1, <2>1, <2>2, <2>3, <2>4, <2>5, NoneAdded, QuietStep DEF Consumers
<1>9. CASE Now.source \notin Unmanaged
  <2>1. PICK batch : batch = <<AddSpec(b), e>> OBVIOUS
  <2>2. ThenDo(batch) BY <1>1, <1>9, <2>1
  <2>3. /\ batch \in Seq(Calls) /\ batch[1] = AddSpec(b) /\ batch[2] = e
        /\ \A i \in 1..Len(batch) : i = 1 \/ i = 2
    BY <1>6, <1>7, <2>1
  <2>4. BatchOK(batch)
    <3>1. FrameOK(e) BY <1>6, TargetFacts DEF FrameOK
    <3>2. b.source # NoItem BY <1>2, <1>4, ContextAssumption
    <3>3. WillReturn(b) = CreateSource(b.spec, b.source) BY <1>4, <3>2, WillReturnFacts
    <3>4. Gets(e, WillReturn(b)) BY <1>6, <3>3, UidFacts DEF Gets, CreateSource
    <3>5. Chained(tree, Now, todo[2]) BY <1>1, SilentFacts
    <3>6. Worker(e) = Worker(Now) BY <1>1, <1>6, WorkerFacts DEF a
    <3>7. Chained(tree', e, todo[2]) BY <1>1, <1>6, <3>5, <3>6 DEF Chained
    <3>8. QED BY <1>1, <1>6, <2>1, <3>1, <3>4, <3>7, CallBatch
  <2>5. AsksAdded(batch)
    <3>1. \A i \in 1..Len(batch) : batch[i].do # "join" BY <1>6, <1>7, <2>3
    <3>2. QED BY <1>1, <3>1 DEF AsksAdded
  <2>6. \A V : V = {} => HonourAdded(V, batch) BY <1>1 DEF HonourAdded
  <2>7. QED BY <1>1, <2>2, <2>3, <2>4, <2>5, <2>6, QuietStep DEF Consumers
<1>10. QED BY <1>8, <1>9

LEMMA CallDependencyHonour ==
  ASSUME PlanInv, HonourInv, PlanInv', CallDependency
  PROVE  HonourInv'
<1> DEFINE a == Now.args
           d == Now.dep
           prim == IF d.kind = "download" THEN "install" ELSE d.kind
           call == Inner(a, d.name, prim)
           b == [call EXCEPT !.force = (d.kind = "download")]
           e == JoinDependency(a, d)
<1>1. /\ pc = "adding" /\ Now.do = "dependency" /\ pc' = "adding" /\ Now.dep.kind # "source"
      /\ UNCHANGED <<tree, decisions, order>>
      /\ ThenDo(<<AddSpec(b), e>>)
  BY DEF CallDependency, Doing, Now, scheduleVars
<1>2. a \in ArgType /\ d \in DepType BY <1>1, NowFacts, CallFacts
<1>3. d.name \in Spec /\ prim \in Prim BY <1>1, <1>2 DEF DepType, Prim
<1>4. /\ call \in ArgType /\ call.source = NoItem /\ call.spec = d.name /\ call.prim = prim
  BY <1>2, <1>3, InnerFacts
<1>5. call.expand = TRUE BY <1>2 DEF Inner, ArgType
<1>6. /\ b \in ArgType /\ b.source = NoItem /\ b.spec = d.name /\ b.prim = prim
      /\ b.expand = TRUE /\ b.force = (d.kind = "download")
  BY <1>4, <1>5 DEF ArgType
<1>7. e \in Calls /\ e.do = "join" /\ e.args = a /\ e.dep = d BY <1>2, CallTypes DEF JoinDependency
<1>8. AddSpec(b) \in Calls /\ AddSpec(b).do = "add_spec" /\ AddSpec(b).args = b
  BY <1>6, CallTypes DEF AddSpec
<1>9. /\ d.kind = "download" => b.prim = "install" /\ b.force
      /\ d.kind # "download" => b.prim = d.kind /\ ~b.force
  BY <1>6
<1>10. a = Now.args /\ d = Now.dep OBVIOUS
<1> HIDE DEF a, b, d, e, prim, call
<1>11. PICK batch : batch = <<AddSpec(b), e>> OBVIOUS
<1>12. ThenDo(batch) BY <1>1, <1>11
<1>13. /\ batch \in Seq(Calls) /\ batch[1] = AddSpec(b) /\ batch[2] = e /\ 2 \in 1..Len(batch)
       /\ \A i \in 1..Len(batch) : i = 1 \/ i = 2
  BY <1>7, <1>8, <1>11
<1>14. BatchOK(batch)
  <2>1. FrameOK(Now) BY <1>1, NowLines
  <2>2. FrameOK(e) BY <1>1, <1>7, <1>10, <2>1 DEF FrameOK
  <2>3. WillReturn(b) = TargetOf(d.name, d.kind)
    <3>1. CASE d.kind = "download"
      <4>1. WillReturn(b) = Install(b.spec) BY <1>6, <1>9, <3>1, WillReturnFacts
      <4>2. QED BY <1>6, <3>1, <4>1, TargetFacts
    <3>2. CASE d.kind # "download"
      <4>1. WillReturn(b) = TargetOf(b.spec, b.prim) BY <1>6, <1>9, <3>2, WillReturnFacts
      <4>2. QED BY <1>6, <1>9, <3>2, <4>1
    <3>3. QED BY <3>1, <3>2
  <2>4. Gets(e, WillReturn(b)) BY <1>7, <2>3 DEF Gets
  <2>5. Chained(tree, Now, todo[2]) BY <1>1, SilentFacts
  <2>6. Worker(e) = Worker(Now) BY <1>1, <1>7, <1>10, WorkerFacts
  <2>7. Chained(tree', e, todo[2]) BY <1>1, <1>7, <2>5, <2>6 DEF Chained
  <2>8. e.dep.kind = "build" => b.prim = "build" /\ b.spec = e.dep.name BY <1>6, <1>7, <1>9
  <2>9. QED BY <1>1, <1>7, <1>11, <2>2, <2>4, <2>7, <2>8, CallBatch
<1>15. AsksAdded(batch) BY <1>1, <1>7, <1>8, <1>9, <1>13 DEF AsksAdded
<1>16. \A V : V = {} => HonourAdded(V, batch)
  BY <1>1, <1>7, <1>10, <1>13 DEF HonourAdded
<1>17. QED BY <1>1, <1>12, <1>13, <1>14, <1>15, <1>16, QuietStep DEF Consumers

\* Where add_spec is called, its result is looked at.
LEMMA EnterLines ==
  ASSUME PlanInv, HonourInv, NEW ups, EnterSpec(ups)
  PROVE  /\ pc = "adding" /\ pc' = "adding" /\ Now.do = "add_spec" /\ UNCHANGED order
         /\ Now.args \in ArgType /\ ~Rejected(Now.args)
         /\ Now.args.source # NoItem => Now.args.prim = "source"
         /\ Worker(Now) = WillReturn(Now.args) /\ todo[1] = Now
         /\ todo[2].do \in Consumers /\ Gets(todo[2], WillReturn(Now.args))
         /\ todo[2].do = "join" /\ todo[2].dep.kind = "build" => HasBuild(todo[2].dep.name)
<1>1. /\ pc = "adding" /\ pc' = "adding" /\ Now.do = "add_spec" /\ Now.args \in ArgType
      /\ ~Rejected(Now.args) /\ (Now.args.source # NoItem => Now.args.prim = "source")
  BY EnterFacts
<1>2. UNCHANGED order BY DEF EnterSpec
<1>3. Worker(Now) = WillReturn(Now.args) BY <1>1, WorkerFacts
<1>4. NextTo(tree, Now, todo[2]) BY <1>1, NowLines
<1>5. todo[2].do \in Consumers /\ Gets(todo[2], WillReturn(Now.args))
  BY <1>1, <1>3, <1>4 DEF NextTo
<1>6. Now.args.prim = "build" => HasBuild(Now.args.spec)
  BY <1>1 DEF Rejected, BecomesBuild, HasBuild
<1>7. todo[2].do = "join" /\ todo[2].dep.kind = "build" => HasBuild(todo[2].dep.name)
  BY <1>1, <1>4, <1>5, <1>6 DEF NextTo
<1>8. todo[1] = Now BY <1>1, NowFacts
<1>9. QED BY <1>1, <1>2, <1>3, <1>5, <1>7, <1>8

LEMMA HandOverHonour ==
  ASSUME PlanInv, HonourInv, PlanInv', HandOver
  PROVE  HonourInv'
<1> DEFINE a == Now.args
           prim == IF a.prim = "build" THEN "install" ELSE "build"
           b == [a EXCEPT !.prim = prim, !.expand = FALSE, !.line = NoLine]
<1>1. EnterSpec({}) BY DEF HandOver
<1>2. /\ pc = "adding" /\ pc' = "adding" /\ Now.do = "add_spec" /\ UNCHANGED order
      /\ a \in ArgType /\ ~Rejected(a) /\ (a.source # NoItem => a.prim = "source")
      /\ Worker(Now) = WillReturn(a) /\ todo[1] = Now
      /\ todo[2].do \in Consumers /\ Gets(todo[2], WillReturn(a))
      /\ todo[2].do = "join" /\ todo[2].dep.kind = "build" => HasBuild(todo[2].dep.name)
  BY <1>1, EnterLines
<1>3. BecomesBuild(a) \/ BecomesInstall(a) BY DEF HandOver
<1>4. UNCHANGED <<tree, decisions>> BY DEF HandOver
<1>5. ThenDo(<<AddSpec(b)>>)
  <2>1. [a EXCEPT !.prim = IF @ = "build" THEN "install" ELSE "build", !.expand = FALSE,
                  !.line = NoLine] = b
    BY <1>2 DEF ArgType
  <2>2. QED BY <2>1 DEF HandOver
<1>6. /\ b \in ArgType /\ b.prim = prim /\ b.spec = a.spec /\ b.source = a.source /\ ~b.expand
  BY <1>2 DEF ArgType, Prim
<1>7. a.source = NoItem BY <1>2, <1>3 DEF BecomesBuild, BecomesInstall
<1>8. WillReturn(b) = WillReturn(a)
  <2>1. CASE BecomesBuild(a)
    <3>1. b.prim = "build" /\ ~b.expand BY <1>6, <2>1 DEF BecomesBuild
    <3>2. WillReturn(b) = Build(b.spec) BY <1>6, <1>7, <3>1, WillReturnFacts
    <3>3. WillReturn(a) = Build(a.spec) BY <1>2, <2>1, WillReturnFacts
    <3>4. QED BY <1>6, <3>2, <3>3
  <2>2. CASE BecomesInstall(a)
    <3>1. b.prim = "install" /\ Def[b.spec].package BY <1>6, <2>2 DEF BecomesInstall
    <3>2. ~BecomesBuild(b) /\ ~BecomesInstall(b) BY <3>1 DEF BecomesBuild, BecomesInstall
    <3>3. WillReturn(b) = Install(b.spec) BY <1>6, <1>7, <3>1, <3>2, WillReturnFacts, ResultType
    <3>4. WillReturn(a) = Install(a.spec) BY <1>2, <2>2, WillReturnFacts
    <3>5. QED BY <1>6, <3>3, <3>4
  <2>3. QED BY <1>3, <2>1, <2>2
<1>9. ~(a.prim = "install" /\ a.force) BY <1>3 DEF BecomesBuild, BecomesInstall
<1>10. AddSpec(b) \in Calls /\ AddSpec(b).do = "add_spec" /\ AddSpec(b).args = b
  BY <1>6, CallTypes DEF AddSpec
<1>11. a = Now.args OBVIOUS
<1> HIDE DEF a, b, prim
<1>12. PICK batch : batch = <<AddSpec(b)>> OBVIOUS
<1>13. /\ batch \in Seq(Calls) /\ Len(batch) = 1 /\ batch[1] = AddSpec(b) /\ batch # <<>>
       /\ \A i \in 1..Len(batch) : i = 1
       /\ \A i \in 1..(Len(batch) - 1) : FALSE
  BY <1>10, <1>12
<1>14. BatchOK(batch)
  <2>1. FrameOK(AddSpec(b)) BY <1>10 DEF FrameOK
  <2>2. Worker(AddSpec(b)) = Worker(todo[1]) BY <1>2, <1>8, <1>10, WorkerFacts
  <2>3. NextTo(tree', AddSpec(b), todo[2]) BY <1>2, <1>10, <2>2 DEF NextTo
  <2>4. AddSpec(b).do \notin Consumers BY <1>10 DEF Consumers
  <2>5. QED BY <1>13, <2>1, <2>2, <2>3, <2>4 DEF BatchOK
<1>15. AsksAdded(batch)
  <2>1. \A i \in 1..Len(batch) : batch[i].do # "join" BY <1>10, <1>13
  <2>2. QED BY <1>2, <1>9, <1>11, <2>1 DEF AsksAdded
<1>16. \A V : V = {} => HonourAdded(V, batch) BY <1>2 DEF HonourAdded
<1>17. QED BY <1>2, <1>4, <1>5, <1>12, <1>13, <1>14, <1>15, <1>16, QuietStep DEF Consumers

LEMMA ConnectSourceHonour ==
  ASSUME PlanInv, HonourInv, PlanInv', ConnectSource
  PROVE  HonourInv'
<1>1. PICK E : E = {<<Now.uid, returned>>} OBVIOUS
<1>2. PICK V, batch : V = {} /\ batch = <<>> OBVIOUS
<1>3. /\ pc = "adding" /\ Now.do = "connect" /\ pc' = "adding" /\ ThenDo(batch)
      /\ tree' = Extended(tree, V, E) /\ UNCHANGED <<decisions, order>>
  BY <1>1, <1>2 DEF ConnectSource, Doing, Now, Connect
<1>4. GrownBy(V, E) BY <1>3, ExtendedTree
<1>5. /\ Now.uid \in DOMAIN tree /\ Now.uid.kind = "sources" /\ returned.kind = "source"
      /\ Now.uid # Root
  <2>1. Now.uid \in DOMAIN tree BY <1>3, NowFacts DEF CallOK
  <2>2. Now.uid.kind = "sources" BY <1>3, NowLines DEF FrameOK
  <2>3. returned.kind = "source" BY <1>3, NowLines DEF Gets, Consumers
  <2>4. QED BY <2>1, <2>2, <2>3, RootFacts
<1>6. \A e \in E : IF e[1] = Root THEN Late(e[2]) ELSE EdgeRight(e[1], e[2])
  <2>1. EdgeRight(Now.uid, returned) BY <1>5 DEF EdgeRight
  <2>2. QED BY <1>1, <1>5, <2>1
<1>7. \A u, v : <<u, v>> \in Promises(Now, returned) => u \in DOMAIN tree' /\ v \in tree'[u]
  <2>1. \A u, v : <<u, v>> \in Promises(Now, returned) => u = Now.uid /\ v = returned
    BY <1>3, PromisesFacts, WorkerFacts
  <2>2. <<Now.uid, returned>> \in E BY <1>1
  <2>3. Now.uid \in DOMAIN tree' /\ returned \in tree'[Now.uid] BY <1>4, <1>5, <2>2 DEF GrownBy
  <2>4. QED BY <2>1, <2>3
<1>8. StepOK(V, E, batch)
  <2>1. BatchOK(batch) BY <1>2, <1>3, EmptyBatch
  <2>2. AllHeed BY <1>3, HeedUnchanged
  <2>3. QED BY <1>2, <1>3, <1>4, <1>6, <1>7, <2>1, <2>2, NoneAdded DEF StepOK
<1>9. GetsAdded(V, E, batch) BY <1>2 DEF GetsAdded
<1>10. AsksAdded(batch) BY <1>2, <1>3, NoneAdded DEF AsksAdded
<1>11. HonourAdded(V, batch) BY <1>2, <1>3 DEF HonourAdded
<1>12. QED BY <1>8, <1>9, <1>10, <1>11, HonourStep

\* The decision of an install that needs something else as well is the first
\* of its predecessors, in any order a set may be iterated in.
DecisionsFirst ==
  \A s \in Spec : HasPrimitive(s, "build") /\ Wants(s, "install") # {} => \A O \in Orders : s \in O

\* Where it is not its first predecessor, or not there, it is still to be decided.
LEMMA FirstOrPending ==
  ASSUME DecisionsFirst, PlanInv, HonourInv, pc = "adding",
         NEW s \in Spec, HasBuild(s), Install(s) \in DOMAIN tree, ~DecisionIsFirst(Install(s))
  PROVE  \E k \in 1..Len(todo) : todo[k].do = "decide_install" /\ todo[k].args.spec = s
<1>1. PlannedTree /\ EdgesRight /\ GetsOK BY NowFacts, NowLines
<1>2. CASE BuildDecision(s) \in DOMAIN tree
  <2>1. PICK d : d = BuildDecision(s) OBVIOUS
  <2>2. d.kind = "build_or_download" /\ d.spec = s /\ IsDecision(d) BY <2>1, TargetFacts DEF IsDecision
  <2>3. DecisionOK(d) BY <1>1, <1>2, <2>1, <2>2 DEF PlannedTree
  <2>4. Install(s) \in Dependents(tree, d) BY <2>2, <2>3 DEF DecisionOK
  <2>5. d \in tree[Install(s)] BY <2>4, DependentsMember
  <2>6. tree[Install(s)] # {d} /\ s \notin order
    BY <2>1, <2>5, TargetFacts DEF DecisionIsFirst, BuildDecision
  <2>7. PICK v \in tree[Install(s)] : v # d BY <2>5, <2>6
  <2>8. Install(s) # Root BY TargetFacts, RootFacts
  <2>9. EdgeRight(Install(s), v) BY <1>1, <2>7, <2>8 DEF EdgesRight
  <2>10. v \in Needs(Install(s)) BY <2>9, TargetFacts DEF EdgeRight
  <2>11. Needs(Install(s)) = Wants(s, "install") \cup {d}
    BY <2>1, TargetFacts DEF Needs, HasBuild, BuildDecision
  <2>12. Wants(s, "install") # {} BY <2>7, <2>10, <2>11
  <2>13. order \in Orders BY DEF HonourInv
  <2>14. s \in order BY <2>12, <2>13 DEF DecisionsFirst, HasBuild
  <2>15. QED BY <2>6, <2>14
<1>3. CASE DecisionPending(s) BY <1>3 DEF DecisionPending
<1>4. QED BY <1>1, <1>2, <1>3 DEF GetsOK

LEMMA NeedsFacts ==
  ASSUME NEW a \in ArgType, a.source # NoItem <=> a.prim = "source"
  PROVE  /\ ResultOf(a).kind = a.prim /\ ResultOf(a).spec = a.spec
         /\ Wants(a.spec, a.prim) \subseteq Needs(ResultOf(a))
<1>1. a.prim \in Prim BY ArgFacts
<1>2. ResultOf(a).kind = a.prim /\ ResultOf(a).spec = a.spec
  BY <1>1, ResultType, UidFacts DEF Prim, Build, Install, Test, CreateSource
<1>3. PICK u : u = ResultOf(a) OBVIOUS
<1>4. CASE a.prim \in {"build", "test"} BY <1>2, <1>3, <1>4 DEF Needs
<1>5. CASE a.prim = "install" BY <1>2, <1>3, <1>5 DEF Needs
<1>6. CASE a.prim = "source" BY <1>2, <1>3, <1>6 DEF Needs
<1>7. QED BY <1>1, <1>2, <1>4, <1>5, <1>6 DEF Prim

\* The decision of s is there and can be told, or what asks for it is a circle.
LEMMA FinishDependencyHonour ==
  ASSUME DecisionsFirst, PlanInv, HonourInv, PlanInv', FinishDependency
  PROVE  HonourInv'
<1>1. PICK u, d, e : u = ResultOf(Now.args) /\ d = DecisionBelow(returned) /\ e = Now.dep OBVIOUS
<1>2. PICK E : E = {<<u, returned>>} OBVIOUS
<1>3. PICK V, batch : V = {} /\ batch = <<>> OBVIOUS
<1>4. PICK told \in BOOLEAN :
        told <=> e.kind = "build" /\ returned.kind = "install" /\ DecisionIsFirst(returned)
  OBVIOUS
<1>5. /\ pc = "adding" /\ Now.do = "join" /\ pc' = "adding" /\ ThenDo(batch)
      /\ tree' = Extended(tree, V, E) /\ UNCHANGED order
      /\ decisions' = IF told THEN [decisions EXCEPT ![d] = AddTrigger(@, u, LEFT)] ELSE decisions
  BY <1>1, <1>2, <1>3, <1>4 DEF FinishDependency, Doing, Now, Connect
<1>6. GrownBy(V, E) BY <1>5, ExtendedTree
<1>7. /\ PlannedTree /\ LinesOK /\ CallsOK /\ AsksOK /\ todo[1] = Now /\ returned \in DOMAIN tree
      /\ Len(todo) \in Nat /\ 1 \in 1..Len(todo) /\ FrameOK(Now)
      /\ returned = TargetOf(e.name, e.kind)
      /\ e.kind = "build" => HasBuild(e.name)
  <2>1. Len(todo) \in Nat /\ Len(todo) > 1 BY <1>5, NowLines
  <2>2. 1 \in 1..Len(todo) BY <2>1
  <2>3. returned = TargetOf(e.name, e.kind) BY <1>1, <1>5, NowLines DEF Gets, Consumers
  <2>4. QED BY <1>1, <1>5, <2>1, <2>2, <2>3, NowLines, NowFacts DEF Consumers
<1>8. /\ Now.args \in ArgType /\ e \in DepType /\ Grown(DOMAIN tree, Now.args) /\ e.name \in Spec
      /\ e.kind # "source" /\ e \in ToSet(Def[Now.args.spec].deps[Now.args.prim])
  BY <1>1, <1>5, <1>7, NowFacts, CallFacts DEF CallOK, FrameOK, DepType
<1>9. u \in DOMAIN tree /\ u.kind = Now.args.prim /\ Wants(Now.args.spec, Now.args.prim) \subseteq Needs(u)
  BY <1>1, <1>8, NeedsFacts DEF Grown
<1>10. u # Root
  <2>1. Now.args.prim \in Prim BY <1>8, ArgFacts
  <2>2. QED BY <1>9, <2>1, RootFacts DEF Prim
<1>11. \A x \in E : IF x[1] = Root THEN Late(x[2]) ELSE EdgeRight(x[1], x[2])
  <2>1. TargetOf(e.name, e.kind) \in Wants(Now.args.spec, Now.args.prim) BY <1>8 DEF Wants
  <2>2. EdgeRight(u, returned) BY <1>7, <1>9, <2>1 DEF EdgeRight
  <2>3. QED BY <1>2, <1>10, <2>2
<1>12. u \in DOMAIN tree' /\ returned \in tree'[u] /\ DOMAIN tree' = DOMAIN tree
  <2>1. <<u, returned>> \in E BY <1>2
  <2>2. QED BY <1>3, <1>6, <1>9, <2>1 DEF GrownBy
<1>13. \A x, y : <<x, y>> \in Promises(Now, returned) => x \in DOMAIN tree' /\ y \in tree'[x]
  <2>1. \A x, y : <<x, y>> \in Promises(Now, returned) => x = u /\ y = returned
    BY <1>1, <1>5, PromisesFacts, WorkerFacts
  <2>2. QED BY <1>12, <2>1
<1>14. AllHeed /\ (told /\ d \in DOMAIN tree /\ IsDecision(d) => <<u, LEFT>> \in decisions'[d].triggers)
  BY <1>5, <1>7, HeedUnchanged, HeedTriggered
<1>15. StepOK(V, E, batch)
  <2>1. BatchOK(batch) BY <1>3, <1>5, EmptyBatch
  <2>2. QED BY <1>3, <1>5, <1>6, <1>11, <1>13, <1>14, <2>1, NoneAdded DEF StepOK
<1>16. GetsAdded(V, E, batch) BY <1>3 DEF GetsAdded
<1>17. AsksAdded(batch) BY <1>3, <1>5, NoneAdded DEF AsksAdded
<1>18. Comes(1) = returned BY DEF Comes
<1>19. ASSUME e.kind = "build", Def[e.name].package, ~InCircle
       PROVE  /\ BuildDecision(e.name) \in DOMAIN tree
              /\ <<u, LEFT>> \in decisions'[BuildDecision(e.name)].triggers
  <2>1. returned = Install(e.name) /\ returned.kind = "install" BY <1>7, <1>19, TargetFacts
  <2>2. DecisionIsFirst(returned)
    <3> SUFFICES ASSUME ~DecisionIsFirst(returned) PROVE FALSE OBVIOUS
    <3>1. PICK k \in 1..Len(todo) : todo[k].do = "decide_install" /\ todo[k].args.spec = e.name
      BY <1>5, <1>7, <1>8, <1>19, <2>1, FirstOrPending
    <3>2. k # 1 BY <1>5, <1>7, <3>1
    <3>3. 1 < k BY <1>7, <3>2
    <3>4. InCircle BY <1>5, <1>7, <1>18, <2>1, <3>1, <3>3, CircleFound
    <3>5. QED BY <1>19, <3>4
  <2>3. d = BuildDecision(e.name) /\ IsDecision(d) BY <1>1, <2>1, BelowFacts DEF BuildDecision
  <2>4. d \in DOMAIN tree BY <1>1, <1>7, <2>2 DEF DecisionIsFirst, PlannedTree
  <2>5. told BY <1>4, <1>19, <2>1, <2>2
  <2>6. QED BY <1>14, <2>3, <2>4, <2>5
<1>20. ASSUME e.kind = "download", HasBuild(e.name), ~InCircle
       PROVE  Told(e.name)'
  <2>1. AskedFor(e.name)
    <3>1. Now.dep.kind = "download" BY <1>1, <1>20
    <3>2. 1 # 2 OBVIOUS
    <3>3. AskedFor(Now.dep.name) BY <1>5, <1>7, <3>1, <3>2 DEF AsksOK
    <3>4. QED BY <1>1, <3>3
  <2>2. CASE Told(e.name) BY <1>15, <2>2, ToldStays
  <2>3. CASE ~Told(e.name)
    <3>1. PICK k \in 1..Len(todo) : todo[k].do = "decide_install" /\ todo[k].args.spec = e.name
      BY <1>20, <2>1, <2>3 DEF AskedFor
    <3>2. k # 1 BY <1>5, <1>7, <3>1
    <3>3. 1 < k BY <1>7, <3>2
    <3>4. returned = Install(e.name) BY <1>7, <1>20, TargetFacts
    <3>5. InCircle BY <1>5, <1>7, <1>18, <3>1, <3>3, <3>4, CircleFound
    <3>6. QED BY <1>20, <3>5
  <2>4. QED BY <2>2, <2>3
<1>21. Honoured(u, e)' \/ InCircle
  <2>1. TargetOf(e.name, e.kind) \in tree'[u] BY <1>7, <1>12
  <2>2. QED BY <1>12, <1>19, <1>20, <2>1 DEF Honoured
<1>22. HonourAdded(V, batch)
  <2>1. V \ DOMAIN tree = {} BY <1>3
  <2>2. \A y, f : Now.do = "join" /\ ResultOf(Now.args) = y /\ Now.dep = f => Honoured(y, f)' \/ InCircle
    BY <1>1, <1>21
  <2>3. QED BY <1>5, <2>1, <2>2 DEF HonourAdded
<1>23. QED BY <1>15, <1>16, <1>17, <1>22, HonourStep

LEMMA MeetAgainHonour ==
  ASSUME DecisionsFirst, PlanInv, HonourInv, PlanInv', MeetAgain
  PROVE  HonourInv'
<1>1. PICK a, u, d : a = Now.args /\ u = ResultOf(a) /\ d = DecisionBelow(u) OBVIOUS
<1>2. PICK V, E, batch : V = {} /\ E = {} /\ batch = <<>> OBVIOUS
<1>3. PICK told \in BOOLEAN : told <=> a.force /\ DecisionIsFirst(u) OBVIOUS
<1>4. EnterSpec({}) BY DEF MeetAgain
<1>5. /\ pc = "adding" /\ pc' = "adding" /\ Now.do = "add_spec" /\ UNCHANGED order
      /\ a \in ArgType /\ (a.source # NoItem => a.prim = "source")
      /\ Worker(Now) = WillReturn(a) /\ todo[1] = Now
      /\ todo[2].do \in Consumers /\ Gets(todo[2], WillReturn(a))
      /\ todo[2].do = "join" /\ todo[2].dep.kind = "build" => HasBuild(todo[2].dep.name)
  BY <1>1, <1>4, EnterLines
<1>6. /\ u \in DOMAIN tree /\ ~BecomesBuild(a) /\ ~BecomesInstall(a)
      /\ returned' = u /\ ThenDo(batch) /\ UNCHANGED tree
      /\ decisions' = IF told THEN [decisions EXCEPT ![d] = SetDecision(@, RIGHT)] ELSE decisions
  BY <1>1, <1>2, <1>3 DEF MeetAgain, HasAction
<1>7. WillReturn(a) = u BY <1>1, <1>5, <1>6, WillReturnFacts
<1>8. /\ PlannedTree /\ LinesOK /\ CallsOK /\ Len(todo) \in Nat /\ Len(todo) > 1
  BY <1>5, NowFacts, NowLines
<1>9. BatchOK(batch)
  <2>1. \A i \in 1..Len(batch) : FALSE BY <1>2, NoneAdded
  <2>2. \A i \in 1..(Len(batch) - 1) : FALSE
    <3>1. Len(batch) = 0 /\ 1..(0 - 1) = {} BY <1>2
    <3>2. QED BY <3>1
  <2>3. QED BY <1>2, <1>5, <1>6, <1>7, <2>1, <2>2 DEF BatchOK
<1>10. AllHeed /\ (told /\ d \in DOMAIN tree /\ IsDecision(d) => decisions'[d].choice \in {RIGHT, BOTH})
  <2>1. CASE ~told BY <1>6, <2>1, HeedUnchanged
  <2>2. CASE told
    <3>1. PICK which \in {LEFT, RIGHT} : which = RIGHT OBVIOUS
    <3>2. decisions' = [decisions EXCEPT ![d] = SetDecision(@, which)] BY <1>6, <2>2, <3>1
    <3>3. QED BY <1>8, <3>1, <3>2, HeedSet
  <2>3. QED BY <2>1, <2>2
<1>11. StepOK(V, E, batch)
  <2>1. GrownBy(V, E) BY <1>2, <1>6, <1>8, SameTree
  <2>2. \A x, y : <<x, y>> \notin Promises(Now, returned) BY <1>5, PromisesFacts
  <2>3. QED BY <1>2, <1>5, <1>6, <1>9, <1>10, <2>1, <2>2, NoneAdded DEF StepOK
<1>12. GetsAdded(V, E, batch) BY <1>2 DEF GetsAdded
<1>13. ASSUME NEW s, a.spec = s, a.force, a.prim = "install", todo[2].do = "join"
       PROVE  AskedFor(s)'
  <2>1. u = Install(s) /\ s \in Spec BY <1>1, <1>5, <1>13, ResultType, ArgFacts
  <2>2. CASE ~HasBuild(s) BY <2>2 DEF AskedFor
  <2>3. CASE HasBuild(s) /\ DecisionIsFirst(u)
    <3>1. d = BuildDecision(s) /\ IsDecision(d) BY <1>1, <2>1, BelowFacts DEF BuildDecision
    <3>2. d \in DOMAIN tree BY <1>1, <1>6, <1>8, <2>3 DEF DecisionIsFirst, PlannedTree
    <3>3. told BY <1>3, <1>13, <2>3
    <3>4. Told(s)' BY <1>6, <1>10, <3>1, <3>2, <3>3 DEF Told
    <3>5. QED BY <3>4 DEF AskedFor
  <2>4. CASE HasBuild(s) /\ ~DecisionIsFirst(u)
    <3>1. PICK k \in 1..Len(todo) : todo[k].do = "decide_install" /\ todo[k].args.spec = s
      BY <1>5, <1>6, <2>1, <2>4, FirstOrPending
    <3>2. k # 1 /\ k # 2 BY <1>5, <1>13, <3>1
    <3>3. 2 < k /\ 2 \in 1..Len(todo) BY <1>8, <3>2
    <3>4. Comes(2) = Install(s)
      <4>1. 2 # 1 /\ 2 - 1 = 1 OBVIOUS
      <4>2. Comes(2) = Worker(todo[1]) BY <4>1 DEF Comes
      <4>3. QED BY <1>5, <1>7, <2>1, <4>2
    <3>5. InCircle BY <1>8, <1>13, <3>1, <3>3, <3>4, CircleFound
    <3>6. InCircle' BY <1>11, <3>5, StepCircles
    <3>7. QED BY <3>6 DEF AskedFor
  <2>5. QED BY <2>2, <2>3, <2>4
<1>14. AsksAdded(batch) BY <1>1, <1>2, <1>5, <1>13, NoneAdded DEF AsksAdded
<1>15. HonourAdded(V, batch) BY <1>2, <1>5 DEF HonourAdded
<1>16. QED BY <1>11, <1>12, <1>14, <1>15, HonourStep

LEMMA AddInstallDecisionHonour ==
  ASSUME PlanInv, HonourInv, PlanInv', AddInstallDecision
  PROVE  HonourInv'
<1> DEFINE a == Now.args
           i == Install(a.spec)
           r == DownloadBinary(a.spec)
           d == DecisionBelow(i)
           first == NewDecision(i, returned, r)
           dec == IF a.force THEN SetDecision(first, RIGHT) ELSE first
           E == {<<i, d>>, <<d, returned>>, <<d, r>>}
           V == {d}
<1>1. /\ pc = "adding" /\ Now.do = "decide_install" /\ pc' = "adding" /\ ThenDo(<<>>)
      /\ AddDecision(tree, dec) /\ UNCHANGED order
  BY DEF AddInstallDecision, Doing, Now
<1>2. PlannedTree /\ todo[1] = Now /\ FrameOK(Now) BY <1>1, NowFacts, NowLines
<1>3. a \in ArgType BY <1>1, NowFacts, CallFacts
<1>4. i \in DOMAIN tree /\ d \notin DOMAIN tree /\ HasBuild(a.spec)
  BY <1>1, <1>2, NowFacts DEF CallOK, FrameOK
<1>5. returned = Build(a.spec) BY <1>1, NowFacts DEF Consumers, Takes
<1>6. /\ dec.initiator = i /\ dec.left = returned /\ dec.right = r
      /\ a.force => dec.choice = RIGHT
  <2>1. /\ first \in [initiator : {i}, left : {returned}, right : {r},
                     choice : {Unset}, expected : {Unset}, triggers : {{}}]
    BY DEF NewDecision
  <2>2. Agree(Unset, RIGHT) = RIGHT BY DEF Agree, Unset, RIGHT
  <2> HIDE DEF first, i, r
  <2>3. SetDecision(first, RIGHT) = [first EXCEPT !.choice = RIGHT]
    BY <2>1, <2>2 DEF SetDecision
  <2>4. QED BY <2>1, <2>3
<1>7. d = BuildDecision(a.spec) /\ IsDecision(d) BY BelowFacts DEF BuildDecision
<1>8. tree' = Extended(tree, V, E) /\ decisions' = Override(decisions, {d}, dec)
  BY <1>1, <1>6 DEF AddDecision
<1>9. Worker(Now) = d BY <1>1, <1>7, WorkerFacts
<1> HIDE DEF dec, first
<1>10. GrownBy(V, E)
  <2> HIDE DEF V, E
  <2>1. QED BY <1>8, ExtendedTree
<1>11. AllHeed /\ decisions'[d] = dec
  <2> HIDE DEF d
  <2>1. QED BY <1>2, <1>4, <1>8, HeedAdded
<1>12. /\ \A p : p \in Needs(i) <=> p \in Wants(a.spec, "install") \/ p = d
       /\ Needs(d) = {returned, r}
       /\ i # Root /\ d # Root
  <2>1. i.kind = "install" /\ i.spec = a.spec /\ d.kind = "build_or_download" /\ d.spec = a.spec
    BY <1>7, TargetFacts
  <2>2. Needs(i) = Wants(a.spec, "install") \cup {d} BY <1>4, <1>7, <2>1 DEF Needs, HasBuild, BuildDecision
  <2>3. Needs(d) = {Build(a.spec), r} BY <2>1 DEF Needs
  <2>4. i # Root /\ d # Root BY <2>1, RootFacts
  <2>5. QED BY <1>5, <2>2, <2>3, <2>4
<1>13. <<i, d>> \in E /\ <<d, returned>> \in E /\ \A x \in E :
         x = <<i, d>> \/ x = <<d, returned>> \/ x = <<d, r>>
  OBVIOUS
<1>14. a = Now.args /\ i = Install(a.spec) OBVIOUS
<1>15. DOMAIN tree' = DOMAIN tree \cup {d} BY <1>10 DEF GrownBy
<1> HIDE DEF a, i, r, d, E
<1>16. \A x \in E : IF x[1] = Root THEN Late(x[2]) ELSE EdgeRight(x[1], x[2])
  <2>1. EdgeRight(i, d) /\ EdgeRight(d, returned) /\ EdgeRight(d, r) BY <1>12 DEF EdgeRight
  <2>2. QED BY <1>12, <1>13, <2>1
<1>17. \A x, y : <<x, y>> \in Promises(Now, returned) => x \in DOMAIN tree' /\ y \in tree'[x]
  <2>1. Promises(Now, returned) = {<<i, d>>, <<d, returned>>} BY <1>1, <1>9, <1>14, PromisesFacts
  <2>2. i \in DOMAIN tree' /\ d \in DOMAIN tree' BY <1>4, <1>15
  <2>3. d \in tree'[i] /\ returned \in tree'[d]
    <3>1. <<i, d>>[1] = i /\ <<i, d>>[2] = d /\ <<d, returned>>[1] = d /\ <<d, returned>>[2] = returned
      OBVIOUS
    <3>2. QED BY <1>10, <1>13, <2>2, <3>1 DEF GrownBy
  <2>4. QED BY <2>1, <2>2, <2>3
<1>18. PICK batch : batch = <<>> OBVIOUS
<1>19. StepOK(V, E, batch)
  <2>1. BatchOK(batch) BY <1>1, <1>18, EmptyBatch
  <2>2. QED BY <1>1, <1>10, <1>11, <1>16, <1>17, <1>18, <2>1, NoneAdded DEF StepOK
<1>20. \A v \in V : IsDecision(v) BY <1>7
<1>21. GetsAdded(V, E, batch)
  <2>1. \A s : ~IsDecision(Install(s)) BY UidFacts DEF Install, IsDecision
  <2>2. QED BY <1>20, <2>1 DEF GetsAdded
<1>22. AsksAdded(batch)
  <2>1. ASSUME NEW s, Now.args.spec = s, Now.args.force PROVE Told(s)'
    <3>1. a.spec = s /\ a.force BY <1>14, <2>1
    <3>2. d = BuildDecision(s) BY <1>7, <3>1
    <3>3. d \in DOMAIN tree' BY <1>15
    <3>4. decisions'[d].choice = RIGHT BY <1>6, <1>11, <3>1
    <3>5. QED BY <3>2, <3>3, <3>4 DEF Told
  <2>2. QED BY <1>1, <1>18, <2>1, NoneAdded DEF AsksAdded
<1>23. HonourAdded(V, batch)
  <2>1. \A v \in V : ~Dependent(v) BY <1>20 DEF IsDecision, Dependent, Prim
  <2>2. QED BY <1>1, <2>1 DEF HonourAdded
<1> HIDE DEF V
<1>24. QED BY <1>19, <1>21, <1>22, <1>23, HonourStep

LEMMA AddSourceDecisionHonour ==
  ASSUME PlanInv, HonourInv, PlanInv', AddSourceDecision
  PROVE  HonourInv'
<1> DEFINE x == Now.source
           i == GetSource(x)
           r == DownloadSource(x)
           d == DecisionBelow(i)
           dec == NewDecision(i, returned, r)
           C == CheckoutsOf(x)
           E == {returned} \X C
           F == {<<i, d>>, <<d, returned>>, <<d, r>>}
           V == C \cup {d}
           G == E \cup F
<1>1. /\ pc = "adding" /\ Now.do = "decide_source" /\ pc' = "adding" /\ ThenDo(<<>>)
      /\ AddDecision(Extended(tree, C, E), dec) /\ UNCHANGED order
  BY DEF AddSourceDecision, Doing, Now
<1>2. PlannedTree /\ todo[1] = Now BY <1>1, NowFacts
<1>3. i \in DOMAIN tree /\ d \notin DOMAIN tree BY <1>1, NowFacts DEF CallOK
<1>4. returned \in DOMAIN tree /\ returned.kind = "source"
  BY <1>1, NowFacts DEF Consumers, Takes
<1>5. dec.initiator = i /\ dec.left = returned /\ dec.right = r BY DEF NewDecision
<1>6. d.kind = "create_or_download" /\ IsDecision(d) BY BelowFacts, UidFacts
<1>7. i.kind = "source_get" /\ r.kind = "download" BY UidFacts DEF GetSource, DownloadSource
<1>8. /\ tree' = Extended(Extended(tree, C, E), {d}, F)
      /\ decisions' = Override(decisions, {d}, dec)
  BY <1>1, <1>5 DEF AddDecision
<1>9. Worker(Now) = d BY <1>1, WorkerFacts
<1>10. \A e \in E : e[1] = returned /\ e[2] \in C OBVIOUS
<1>11. \A v \in C : v.kind = "checkout" BY CheckoutFacts
<1>12. GrownBy(V, G)
  <2>1. \A e \in E : e[1] \in DOMAIN tree \cup C BY <1>4, <1>10
  <2> HIDE DEF C, E, F, d, i, r
  <2>2. QED BY <1>8, <2>1, ExtendedTwice
<1>13. <<i, d>> \in G /\ <<d, returned>> \in G /\ \A e \in F :
         e = <<i, d>> \/ e = <<d, returned>> \/ e = <<d, r>>
  OBVIOUS
<1>14. d \in V /\ (\A v \in V : v \in C \/ v = d) /\ \A e \in G : e \in E \/ e \in F OBVIOUS
<1>15. i = GetSource(Now.source) OBVIOUS
<1> HIDE DEF x, i, r, d, C, E, F, V, G, dec
<1>16. AllHeed BY <1>2, <1>3, <1>8, HeedAdded
<1>17. \A e \in G : IF e[1] = Root THEN Late(e[2]) ELSE EdgeRight(e[1], e[2])
  <2>1. EdgeRight(i, d) /\ EdgeRight(d, returned) /\ EdgeRight(d, r)
    BY <1>4, <1>6, <1>7 DEF EdgeRight
  <2>2. i # Root /\ d # Root /\ returned # Root BY <1>4, <1>6, <1>7, RootFacts
  <2>3. \A e \in E : EdgeRight(e[1], e[2]) BY <1>4, <1>10, <1>11 DEF EdgeRight
  <2>4. QED BY <1>10, <1>13, <1>14, <2>1, <2>2, <2>3
<1>18. DOMAIN tree' = DOMAIN tree \cup V BY <1>12 DEF GrownBy
<1>19. \A u, v : <<u, v>> \in Promises(Now, returned) => u \in DOMAIN tree' /\ v \in tree'[u]
  <2>1. Promises(Now, returned) = {<<i, d>>, <<d, returned>>} BY <1>1, <1>9, <1>15, PromisesFacts
  <2>2. i \in DOMAIN tree' /\ d \in DOMAIN tree' BY <1>3, <1>14, <1>18
  <2>3. d \in tree'[i] /\ returned \in tree'[d]
    <3>1. <<i, d>>[1] = i /\ <<i, d>>[2] = d /\ <<d, returned>>[1] = d /\ <<d, returned>>[2] = returned
      OBVIOUS
    <3>2. QED BY <1>12, <1>13, <2>2, <3>1 DEF GrownBy
  <2>4. QED BY <2>1, <2>2, <2>3
<1>20. PICK batch : batch = <<>> OBVIOUS
<1>21. StepOK(V, G, batch)
  <2>1. BatchOK(batch) BY <1>1, <1>20, EmptyBatch
  <2>2. QED BY <1>1, <1>12, <1>16, <1>17, <1>19, <1>20, <2>1, NoneAdded DEF StepOK
<1>22. \A v \in V : v.kind \in {"checkout", "create_or_download"} BY <1>6, <1>11, <1>14
<1>23. GetsAdded(V, G, batch)
  <2>1. \A s : Install(s).kind = "install" BY UidFacts DEF Install
  <2>2. QED BY <1>22, <2>1 DEF GetsAdded
<1>24. AsksAdded(batch) BY <1>1, <1>20, NoneAdded DEF AsksAdded
<1>25. HonourAdded(V, batch)
  <2>1. \A v \in V : ~Dependent(v) BY <1>22 DEF Dependent, Prim
  <2>2. QED BY <1>1, <2>1 DEF HonourAdded
<1>26. QED BY <1>21, <1>23, <1>24, <1>25, HonourStep

LEMMA AddSourceInstallHonour ==
  ASSUME PlanInv, HonourInv, PlanInv', AddSourceInstall
  PROVE  HonourInv'
<1> DEFINE a == Now.args
           x == Now.source
           u == ResultOf(a)
           install == InstallSource(a.spec, x)
           get == GetSource(x)
           down == DownloadSource(x)
           edges == SourceEdges(a, x)
           call == Inner(a, sources[x], "source")
           b == [call EXCEPT !.source = x]
           e == DecideSource(x)
           F == edges \cup {<<get, down>>}
           W == {install, get, down}
<1>1. /\ pc = "adding" /\ Now.do = "source_need" /\ pc' = "adding"
      /\ UNCHANGED <<decisions, order>> /\ x \in DOMAIN sources
  BY DEF AddSourceInstall, Doing, Now
<1>2. \/ tree' = Extended(tree, {install}, edges) /\ ThenDo(<<>>)
      \/ tree' = Extended(tree, W, F) /\ ThenDo(<<>>)
      \/ tree' = Extended(tree, W, edges) /\ ThenDo(<<AddSpec(b), e>>)
  BY DEF AddSourceInstall
<1>3. a \in ArgType /\ x \in Source /\ Grown(DOMAIN tree, a) BY <1>1, NowFacts, CallFacts DEF CallOK
<1>4. PlannedTree /\ SourcesOK /\ FrameOK(Now) BY <1>1, NowFacts, NowLines
<1>5. /\ install.kind = "source_install" /\ install.item = x
      /\ get.kind = "source_get" /\ down.kind = "download"
  BY UidFacts DEF InstallSource, GetSource, DownloadSource
<1>6. /\ \A v \in W : v.kind \in {"source_install", "source_get", "download"}
  BY <1>5
<1>7. edges = {<<u, install>>, <<install, get>>} BY DEF SourceEdges
<1>8. u \in DOMAIN tree /\ u.kind = a.prim /\ Wants(a.spec, a.prim) \subseteq Needs(u)
  BY <1>3, NeedsFacts DEF Grown
<1>9. u # Root /\ install # Root /\ get # Root
  <2>1. a.prim \in Prim BY <1>3, ArgFacts
  <2>2. QED BY <1>5, <1>8, <2>1, RootFacts DEF Prim
<1>10. EdgeRight(u, install) /\ EdgeRight(install, get) /\ EdgeRight(get, down)
  <2>1. install \in Wants(a.spec, a.prim) BY <1>1, <1>4 DEF FrameOK, Wants
  <2>2. Needs(install) = {get} BY <1>5 DEF Needs
  <2>3. QED BY <1>5, <1>8, <2>1, <2>2 DEF EdgeRight
<1>11. \A f \in F : f = <<u, install>> \/ f = <<install, get>> \/ f = <<get, down>> BY <1>7
<1>12. b \in ArgType /\ b.prim = "source" /\ b.source = x
  <2>1. sources[x] \in Spec /\ "source" \in Prim BY <1>1, <1>4 DEF SourcesOK, Prim
  <2>2. call \in ArgType /\ call.prim = "source" BY <1>3, <2>1, InnerFacts
  <2> HIDE DEF call
  <2>3. QED BY <1>3, <2>2, WithSource
<1>13. e \in Calls /\ e.do = "decide_source" /\ e.source = x BY <1>3, CallTypes DEF DecideSource
<1>14. AddSpec(b) \in Calls /\ AddSpec(b).do = "add_spec" BY <1>12, CallTypes DEF AddSpec
<1>15. edges \subseteq F /\ {install} \subseteq W /\ install \in W OBVIOUS
<1>16. a = Now.args /\ x = Now.source /\ u = ResultOf(a) /\ get = GetSource(x) OBVIOUS
<1> HIDE DEF a, x, u, install, get, down, edges, call, b, e, F, W
<1>17. ASSUME NEW V \in SUBSET W, NEW E \in SUBSET F, GrownBy(V, E),
              NEW batch \in Seq(Calls), ThenDo(batch), BatchOK(batch),
              \A i \in 1..Len(batch) : batch[i].do # "join"
       PROVE  HonourInv'
  <2>1. \A f \in E : IF f[1] = Root THEN Late(f[2]) ELSE EdgeRight(f[1], f[2])
    BY <1>9, <1>10, <1>11
  <2>2. \A y, z : <<y, z>> \notin Promises(Now, returned) BY <1>1, PromisesFacts
  <2>3. AllHeed BY <1>1, HeedUnchanged
  <2>4. StepOK(V, E, batch) BY <1>1, <1>17, <2>1, <2>2, <2>3 DEF StepOK
  <2>5. GetsAdded(V, E, batch)
    <3>1. \A s : Install(s).kind = "install" BY UidFacts DEF Install
    <3>2. QED BY <1>6, <3>1 DEF GetsAdded
  <2>6. AsksAdded(batch) BY <1>1, <1>17 DEF AsksAdded
  <2>7. HonourAdded(V, batch)
    <3>1. \A v \in V : ~Dependent(v) BY <1>6 DEF Dependent, Prim
    <3>2. QED BY <1>1, <3>1 DEF HonourAdded
  <2>8. QED BY <2>4, <2>5, <2>6, <2>7, HonourStep
<1>18. ASSUME NEW V \in SUBSET W, NEW E \in SUBSET F, tree' = Extended(tree, V, E), ThenDo(<<>>)
       PROVE  HonourInv'
  <2>1. PICK batch : batch = <<>> OBVIOUS
  <2>2. BatchOK(batch) BY <1>1, <2>1, EmptyBatch
  <2>3. GrownBy(V, E) BY <1>18, ExtendedTree
  <2>4. QED BY <1>17, <1>18, <2>1, <2>2, <2>3, NoneAdded
<1>19. CASE tree' = Extended(tree, {install}, edges) /\ ThenDo(<<>>) BY <1>15, <1>18, <1>19
<1>20. CASE tree' = Extended(tree, W, F) /\ ThenDo(<<>>) BY <1>18, <1>20
<1>21. CASE tree' = Extended(tree, W, edges) /\ ThenDo(<<AddSpec(b), e>>)
  <2>1. PICK batch : batch = <<AddSpec(b), e>> OBVIOUS
  <2>2. /\ batch \in Seq(Calls) /\ batch[1] = AddSpec(b) /\ batch[2] = e
        /\ \A i \in 1..Len(batch) : i = 1 \/ i = 2
    BY <1>13, <1>14, <2>1
  <2>3. GrownBy(W, edges) BY <1>21, ExtendedTree
  <2>4. Chained(tree', e, todo[2])
    <3>1. Chained(tree, Now, todo[2]) BY <1>1, SilentFacts
    <3>2. Worker(todo[2]) = u BY <1>1, <1>16, <3>1, WorkerFacts DEF Chained
    <3>3. u \in DOMAIN tree' /\ install \in DOMAIN tree' BY <1>8, <1>15, <2>3 DEF GrownBy
    <3>4. <<u, install>> \in edges /\ <<install, get>> \in edges BY <1>7
    <3>5. install \in tree'[u] /\ get \in tree'[install]
      <4>1. <<u, install>>[1] = u /\ <<u, install>>[2] = install
            /\ <<install, get>>[1] = install /\ <<install, get>>[2] = get
        OBVIOUS
      <4>2. QED BY <2>3, <3>3, <3>4, <4>1 DEF GrownBy
    <3>6. QED BY <1>13, <1>16, <3>2, <3>3, <3>5 DEF Chained
  <2>5. FrameOK(e) /\ Gets(e, WillReturn(b)) BY <1>13 DEF FrameOK, Gets
  <2>6. BatchOK(batch) BY <1>1, <1>13, <2>1, <2>4, <2>5, CallBatch
  <2>7. \A i \in 1..Len(batch) : batch[i].do # "join" BY <1>13, <1>14, <2>2
  <2>8. ThenDo(batch) BY <1>21, <2>1
  <2>9. QED BY <1>15, <1>17, <2>2, <2>3, <2>6, <2>7, <2>8
<1>22. QED BY <1>2, <1>19, <1>20, <1>21

\* The calls for a new action u: they work for it, and return it.
WorkList(u, L) ==
  /\ L \in Seq(Calls) /\ L # <<>> /\ L[Len(L)].do = "return"
  /\ \A i \in 1..Len(L) :
       /\ FrameOK(L[i])
       /\ i # Len(L) => L[i].do # "return"
       /\ L[i].do \in Consumers => i = 2 /\ L[1].do = "add_spec" /\ L[2].do = "decide_install"
       /\ L[i].do = "add_spec" => i = 1 /\ L[2].do = "decide_install"
       /\ L[i].do = "decide_install" => Install(L[i].args.spec) = u
       /\ L[i].do \notin {"add_spec", "decide_install"} => Worker(L[i]) = u

LEMMA ListBatch ==
  ASSUME PlanInv, HonourInv, NEW ups, EnterSpec(ups), ~BecomesBuild(Now.args), ~BecomesInstall(Now.args),
         NEW L, WorkList(ResultOf(Now.args), L)
  PROVE  BatchOK(L)
<1>1. PICK u : u = ResultOf(Now.args) OBVIOUS
<1>2. /\ Worker(todo[1]) = u /\ todo[2].do \in Consumers /\ Gets(todo[2], u)
      /\ todo[2].do = "join" /\ todo[2].dep.kind = "build" => HasBuild(todo[2].dep.name)
  BY <1>1, EnterLines, WillReturnFacts
<1>3. PICK n \in Nat : n = Len(L) BY DEF WorkList
<1>4. n >= 1 BY <1>3 DEF WorkList
<1>5. ASSUME NEW i \in 1..(n - 1) PROVE NextTo(tree', L[i], L[i + 1])
  <2>1. i \in 1..n /\ i + 1 \in 1..n /\ i # n /\ i + 1 # 1 /\ (i + 1 = 2 => i = 1) BY <1>4
  <2>2. L[i].do # "return" BY <1>3, <2>1 DEF WorkList
  <2>3. CASE L[i + 1].do \in Consumers
    <3>1. i + 1 = 2 /\ L[1].do = "add_spec" /\ L[2].do = "decide_install"
      BY <1>3, <2>1, <2>3 DEF WorkList
    <3>2. L[i].do = "add_spec" /\ L[i + 1].do = "decide_install" BY <2>1, <3>1
    <3>3. QED BY <2>3, <3>2 DEF NextTo, Gets
  <2>4. CASE L[i + 1].do \notin Consumers
    <3>1. L[i + 1].do # "add_spec" BY <1>3, <2>1 DEF WorkList
    <3>2. L[i].do # "add_spec"
      <4>1. L[i].do = "add_spec" => i + 1 = 2 /\ L[2].do = "decide_install"
        BY <1>3, <2>1 DEF WorkList
      <4>2. QED BY <2>4, <4>1 DEF Consumers
    <3>3. Worker(L[i + 1]) = u BY <1>1, <1>3, <2>1, <2>4, <3>1 DEF WorkList, Consumers
    <3>4. L[i].do # "decide_source" BY <1>3, <2>1 DEF WorkList, Consumers
    <3>5. (IF L[i].do = "decide_install" THEN Install(L[i].args.spec) ELSE Worker(L[i])) = u
      BY <1>1, <1>3, <2>1, <3>2 DEF WorkList
    <3>6. QED BY <2>2, <2>4, <3>1, <3>2, <3>3, <3>4, <3>5 DEF NextTo, Chained
  <2>5. QED BY <2>3, <2>4
<1>6. L[1].do \notin Consumers
  <2>1. 1 \in 1..n BY <1>4
  <2>2. QED BY <1>3, <2>1 DEF WorkList
<1>7. L[n].do = "return" /\ Worker(L[n]) = u /\ L # <<>>
  <2>1. n \in 1..n BY <1>4
  <2>2. QED BY <1>1, <1>3, <2>1 DEF WorkList
<1>8. NextTo(tree', L[n], todo[2]) BY <1>2, <1>7 DEF NextTo
<1>9. \A i \in 1..n : FrameOK(L[i]) BY <1>3 DEF WorkList
<1>10. QED BY <1>2, <1>3, <1>5, <1>6, <1>7, <1>8, <1>9 DEF BatchOK

LEMMA AddSourcesHonour ==
  ASSUME PlanInv, HonourInv, PlanInv', AddSources
  PROVE  HonourInv'
<1> DEFINE a == Now.args
           u == CreateSources(a.spec)
           provided == Def[a.spec].provides
           builds == [i \in DOMAIN provided |-> SourceBuild(a, provided[i])]
           last == <<ReturnOf(u)>>
           L == builds \o last
<1>1. EnterSpec({}) BY DEF AddSources
<1>2. /\ pc = "adding" /\ pc' = "adding" /\ Now.do = "add_spec" /\ UNCHANGED order
      /\ a \in ArgType /\ (a.source # NoItem => a.prim = "source")
  BY <1>1, EnterLines
<1>3. /\ ResultOf(a) = u /\ tree' = Extended(tree, {u}, {}) /\ ThenDo(L)
      /\ UNCHANGED decisions
  BY DEF AddSources
<1>4. provided \in Seq(Source) /\ u \in Results
  BY <1>2, ArgFacts DEF Definition, Results
<1>5. a.prim = "source" BY <1>2, <1>3, ResultType
<1>6. ~BecomesBuild(a) /\ ~BecomesInstall(a) BY <1>5 DEF BecomesBuild, BecomesInstall
<1>7. \A x : SourceBuild(a, x).do = "source_build" /\ SourceBuild(a, x).args = a
  BY DEF SourceBuild
<1>8. ReturnOf(u) \in Calls /\ ReturnOf(u).do = "return" /\ ReturnOf(u).uid = u
  BY <1>4, CallTypes DEF ReturnOf
<1>9. a = Now.args /\ u = CreateSources(a.spec) OBVIOUS
<1> HIDE DEF a, u
<1>10. /\ builds \in Seq(Calls) /\ Len(builds) \in Nat
       /\ \A i \in 1..Len(builds) : builds[i] = SourceBuild(a, provided[i])
  <2>1. \A i \in DOMAIN provided : SourceBuild(a, provided[i]) \in Calls
    BY <1>2, <1>4, CallTypes
  <2>2. DOMAIN provided = 1..Len(provided) /\ Len(provided) \in Nat BY <1>4
  <2>3. builds \in [1..Len(provided) -> Calls] BY <2>1, <2>2
  <2>4. builds \in Seq(Calls) BY <2>2, <2>3
  <2>5. DOMAIN builds = 1..Len(builds) BY <2>4
  <2>6. QED BY <2>4, <2>5
<1> HIDE DEF provided, builds
<1>11. last \in Seq(Calls) /\ Len(last) = 1 /\ last[1] = ReturnOf(u) BY <1>8
<1> HIDE DEF last
<1>12. /\ L \in Seq(Calls) /\ Len(L) = Len(builds) + 1
       /\ \A i \in 1..Len(builds) : L[i] = builds[i]
       /\ \A i \in Len(builds) + 1..Len(builds) + 1 : L[i] = last[i - Len(builds)]
  BY <1>10, <1>11, ConcatFacts
<1> HIDE DEF L
<1>13. PICK n \in Nat : n = Len(builds) BY <1>10
<1>14. /\ Len(L) = n + 1 /\ L # <<>> /\ L[n + 1] = ReturnOf(u)
       /\ \A i \in 1..n : L[i].do = "source_build" /\ L[i].args = a
  <2>1. n + 1 \in n + 1..n + 1 /\ n + 1 - n = 1 OBVIOUS
  <2>2. L[n + 1] = ReturnOf(u) BY <1>11, <1>12, <1>13, <2>1
  <2>3. L # <<>> BY <1>12, <1>13
  <2>4. QED BY <1>7, <1>10, <1>12, <1>13, <2>2, <2>3
<1>15. ASSUME NEW i \in 1..Len(L)
       PROVE  \/ L[i].do = "source_build" /\ Worker(L[i]) = u
              \/ i = Len(L) /\ L[i].do = "return" /\ Worker(L[i]) = u
  <2>1. i \in 1..n \/ i = n + 1 BY <1>14
  <2>2. QED BY <1>8, <1>9, <1>14, <2>1, WorkerFacts
<1>16. WorkList(u, L)
  <2>1. L[Len(L)].do = "return" BY <1>8, <1>14
  <2>2. QED BY <1>12, <1>14, <1>15, <2>1 DEF WorkList, FrameOK, Consumers
<1>17. BatchOK(L) BY <1>1, <1>3, <1>6, <1>9, <1>16, ListBatch
<1>18. PICK V, E : V = {u} /\ E = {} OBVIOUS
<1>19. StepOK(V, E, L)
  <2>1. GrownBy(V, E) BY <1>3, <1>18, ExtendedTree
  <2>2. \A x, y : <<x, y>> \notin Promises(Now, returned) BY <1>2, PromisesFacts
  <2>3. AllHeed BY <1>3, HeedUnchanged
  <2>4. QED BY <1>2, <1>3, <1>12, <1>17, <1>18, <2>1, <2>2, <2>3 DEF StepOK
<1>20. u.kind = "sources" BY <1>9, TargetFacts
<1>21. GetsAdded(V, E, L)
  <2>1. \A s : Install(s).kind = "install" BY TargetFacts
  <2>2. QED BY <1>18, <1>20, <2>1 DEF GetsAdded
<1>22. AsksAdded(L)
  <2>1. \A i \in 1..Len(L) : L[i].do # "join" BY <1>15
  <2>2. QED BY <1>2, <1>5, <1>9, <2>1 DEF AsksAdded
<1>23. HonourAdded(V, L)
  <2>1. \A v \in V : ~Dependent(v) BY <1>18, <1>20 DEF Dependent, Prim
  <2>2. QED BY <1>2, <2>1 DEF HonourAdded
<1>24. QED BY <1>19, <1>21, <1>22, <1>23, HonourStep

\* Where the calls of Expand are.
Laid(L, a, batch, deps, needs, last) ==
  /\ L \in Seq(Calls) /\ L # <<>> /\ L[Len(L)] = last
  /\ \A i \in 1..Len(batch) : i \in 1..Len(L) /\ i # Len(L) /\ L[i] = batch[i]
  /\ \A j \in DOMAIN deps : \E i \in 1..Len(L) : L[i] = Dependency(a, deps[j])
  /\ \A i \in 1..Len(L) :
       \/ i \in 1..Len(batch) /\ L[i] = batch[i]
       \/ \E j \in DOMAIN deps : L[i] = Dependency(a, deps[j])
       \/ \E j \in DOMAIN needs : L[i] = SourceNeed(a, needs[j])
       \/ i = Len(L)

LEMMA ListPlaces ==
  ASSUME NEW a \in ArgType, NEW deps \in Seq(DepType), NEW needs \in Seq(Source),
         NEW batch \in Seq(Calls), NEW last \in Calls,
         NEW L, L = ListOf(a, batch, deps, needs, last)
  PROVE  Laid(L, a, batch, deps, needs, last)
<1> DEFINE D == [i \in DOMAIN deps |-> Dependency(a, deps[i])]
           N == [i \in DOMAIN needs |-> SourceNeed(a, needs[i])]
<1>1. /\ D \in Seq(Calls) /\ Len(D) \in Nat /\ DOMAIN deps = 1..Len(D)
      /\ \A i \in DOMAIN deps : D[i] = Dependency(a, deps[i])
  <2>1. DOMAIN deps = 1..Len(deps) /\ Len(deps) \in Nat OBVIOUS
  <2>2. \A i \in DOMAIN deps : Dependency(a, deps[i]) \in Calls BY CallTypes
  <2>3. D \in [1..Len(deps) -> Calls] BY <2>1, <2>2
  <2>4. D \in Seq(Calls) BY <2>1, <2>3
  <2>5. DOMAIN D = 1..Len(D) BY <2>4
  <2>6. QED BY <2>4, <2>5
<1>2. /\ N \in Seq(Calls) /\ Len(N) \in Nat /\ DOMAIN needs = 1..Len(N)
      /\ \A i \in DOMAIN needs : N[i] = SourceNeed(a, needs[i])
  <2>1. DOMAIN needs = 1..Len(needs) /\ Len(needs) \in Nat OBVIOUS
  <2>2. \A i \in DOMAIN needs : SourceNeed(a, needs[i]) \in Calls BY CallTypes
  <2>3. N \in [1..Len(needs) -> Calls] BY <2>1, <2>2
  <2>4. N \in Seq(Calls) BY <2>1, <2>3
  <2>5. DOMAIN N = 1..Len(N) BY <2>4
  <2>6. QED BY <2>4, <2>5
<1>3. L = batch \o D \o N \o <<last>> BY DEF ListOf
<1> HIDE DEF D, N
<1>4. PICK A : A = batch \o D OBVIOUS
<1>5. /\ A \in Seq(Calls) /\ Len(A) = Len(batch) + Len(D)
      /\ \A i \in 1..Len(batch) : A[i] = batch[i]
      /\ \A i \in Len(batch) + 1..Len(batch) + Len(D) : A[i] = D[i - Len(batch)]
  BY <1>1, <1>4, ConcatFacts
<1>6. PICK B : B = A \o N OBVIOUS
<1>7. /\ B \in Seq(Calls) /\ Len(B) = Len(A) + Len(N)
      /\ \A i \in 1..Len(A) : B[i] = A[i]
      /\ \A i \in Len(A) + 1..Len(A) + Len(N) : B[i] = N[i - Len(A)]
  <2>1. A \in Seq(Calls) /\ N \in Seq(Calls) BY <1>2, <1>5
  <2>2. QED BY <1>6, <2>1, ConcatFacts
<1>8. PICK R \in Seq(Calls) : R = <<last>> /\ Len(R) = 1 /\ R[1] = last
  <2>1. <<last>> \in Seq(Calls) /\ Len(<<last>>) = 1 /\ <<last>>[1] = last OBVIOUS
  <2>2. QED BY <2>1
<1>9. /\ L \in Seq(Calls) /\ Len(L) = Len(B) + 1
      /\ \A i \in 1..Len(B) : L[i] = B[i]
      /\ \A i \in Len(B) + 1..Len(B) + 1 : L[i] = R[i - Len(B)]
  <2>1. L = B \o R BY <1>3, <1>4, <1>6, <1>8
  <2>2. B \in Seq(Calls) BY <1>7
  <2>3. /\ B \o R \in Seq(Calls) /\ Len(B \o R) = Len(B) + Len(R)
        /\ \A i \in 1..Len(B) : (B \o R)[i] = B[i]
        /\ \A i \in Len(B) + 1..Len(B) + Len(R) : (B \o R)[i] = R[i - Len(B)]
    BY <2>2, <1>8, ConcatFacts
  <2>4. QED BY <1>8, <2>1, <2>3
<1>10. PICK c, d, n \in Nat : c = Len(batch) /\ d = Len(D) /\ n = Len(N) BY <1>1, <1>2
<1>11. Len(A) = c + d /\ Len(B) = c + d + n /\ Len(L) = c + d + n + 1
  BY <1>5, <1>7, <1>9, <1>10
<1>12. L[Len(L)] = last /\ L # <<>>
  <2>1. Len(B) + 1 \in Len(B) + 1..Len(B) + 1 /\ Len(B) + 1 - Len(B) = 1 BY <1>10, <1>11
  <2>2. L[Len(B) + 1] = R[1] BY <2>1, <1>9
  <2>3. L # <<>> BY <1>9, <1>10, <1>11
  <2>4. QED BY <2>2, <2>3, <1>8, <1>9
<1>13. ASSUME NEW i \in 1..c PROVE i \in 1..Len(L) /\ i # Len(L) /\ L[i] = batch[i]
  <2>1. i \in 1..Len(A) /\ i \in 1..Len(B) /\ i \in 1..Len(batch) /\ i \in 1..Len(L) /\ i # Len(L)
    BY <1>10, <1>11
  <2>2. QED BY <2>1, <1>5, <1>7, <1>9
<1>14. ASSUME NEW j \in 1..d PROVE c + j \in 1..Len(L) /\ L[c + j] = Dependency(a, deps[j])
  <2>1. PICK i : i = c + j OBVIOUS
  <2>2. /\ i \in c + 1..c + d /\ i \in 1..(c + d) /\ i \in 1..(c + d + n) /\ i \in 1..Len(L) /\ i - c = j
    BY <2>1, <1>11
  <2>3. L[i] = D[j] BY <2>2, <1>5, <1>7, <1>9, <1>10, <1>11
  <2>4. QED BY <2>1, <2>2, <2>3, <1>1, <1>10
<1>15. ASSUME NEW i \in 1..Len(L)
       PROVE  \/ i \in 1..c
              \/ \E j \in 1..d : i = c + j
              \/ \E j \in 1..n : L[i] = SourceNeed(a, needs[j])
              \/ i = Len(L)
  <2>1. i \in Int /\ 1 <= i /\ i <= c + d + n + 1 BY <1>11
  <2>2. CASE i <= c BY <2>1, <2>2
  <2>3. CASE c < i /\ i <= c + d
    <3>1. i - c \in 1..d /\ i = c + (i - c) BY <2>1, <2>3
    <3>2. QED BY <3>1
  <2>4. CASE c + d < i /\ i <= c + d + n
    <3>1. PICK j : j = i - (c + d) OBVIOUS
    <3>2. j \in 1..n /\ i \in 1..(c + d + n) /\ i \in (c + d) + 1..(c + d) + n BY <2>1, <2>4, <3>1
    <3>3. L[i] = N[j] BY <3>1, <3>2, <1>7, <1>9, <1>10, <1>11
    <3>4. QED BY <3>2, <3>3, <1>2, <1>10
  <2>5. CASE c + d + n < i BY <2>1, <2>5, <1>11
  <2>6. QED BY <2>1, <2>2, <2>3, <2>4, <2>5
<1>16. \A j \in DOMAIN deps : \E i \in 1..Len(L) : L[i] = Dependency(a, deps[j])
  BY <1>1, <1>10, <1>14
<1>17. ASSUME NEW i \in 1..Len(L)
       PROVE  \/ i \in 1..Len(batch) /\ L[i] = batch[i]
              \/ \E j \in DOMAIN deps : L[i] = Dependency(a, deps[j])
              \/ \E j \in DOMAIN needs : L[i] = SourceNeed(a, needs[j])
              \/ i = Len(L)
  <2>1. CASE i \in 1..c BY <2>1, <1>10, <1>13
  <2>2. CASE \E j \in 1..d : i = c + j
    <3>1. PICK j \in 1..d : i = c + j BY <2>2
    <3>2. L[c + j] = Dependency(a, deps[j]) /\ j \in DOMAIN deps BY <1>1, <1>10, <1>14
    <3>3. QED BY <3>1, <3>2
  <2>3. CASE \E j \in 1..n : L[i] = SourceNeed(a, needs[j])
    <3>1. PICK j \in 1..n : L[i] = SourceNeed(a, needs[j]) BY <2>3
    <3>2. j \in DOMAIN needs BY <1>2, <1>10
    <3>3. QED BY <3>1, <3>2
  <2>4. CASE i = Len(L) BY <2>4
  <2>5. QED BY <2>1, <2>2, <2>3, <2>4, <1>15
<1>18. QED BY <1>9, <1>10, <1>12, <1>13, <1>16, <1>17 DEF Laid

LEMMA ExpandHonour ==
  ASSUME PlanInv, HonourInv, PlanInv', NEW V, NEW E, NEW batch, Expand(Now.args, V, E, batch),
         Now.args.prim = "source" => Now.args.source # NoItem,
         \A v \in V : ~Dependent(v),
         \A e \in E : IF e[1] = Root THEN Late(e[2]) ELSE EdgeRight(e[1], e[2]),
         \/ batch = <<>>
         \/ \E b \in ArgType : /\ Now.args.prim = "install" /\ HasBuild(Now.args.spec)
                               /\ batch = <<AddSpec(b), DecideInstall(Now.args)>>,
         Now.args.prim = "install" =>
           IF HasBuild(Now.args.spec) THEN batch # <<>>
           ELSE \E e \in E : e[1] = Install(Now.args.spec) /\ e[2] = DownloadBinary(Now.args.spec)
  PROVE  HonourInv'
<1> DEFINE a == Now.args
           u == ResultOf(a)
           W == V \cup {u}
           deps == Def[a.spec].deps[a.prim]
           needs == Def[a.spec].needs[a.prim]
           L == ListOf(a, batch, deps, needs, ReturnOf(u))
<1>1. PICK ups : EnterSpec(ups) BY DEF Expand
<1>2. /\ pc = "adding" /\ pc' = "adding" /\ Now.do = "add_spec" /\ UNCHANGED order
      /\ a \in ArgType /\ (a.source # NoItem => a.prim = "source")
  BY <1>1, EnterLines
<1>3. /\ u \notin DOMAIN tree /\ ~BecomesBuild(a) /\ ~BecomesInstall(a)
      /\ tree' = Extended(tree, W, E) /\ UNCHANGED decisions /\ ThenDo(L)
  BY DEF Expand, HasAction, ListOf
<1>4. a.source # NoItem <=> a.prim = "source" BY <1>2
<1>5. u \in Results /\ u.kind = a.prim /\ u.spec = a.spec BY <1>2, <1>4, ResultType, NeedsFacts
<1>6. ReturnOf(u) \in Calls /\ ReturnOf(u).do = "return" /\ ReturnOf(u).uid = u
  BY <1>5, CallTypes DEF ReturnOf
<1>7. deps \in Seq(DepType) /\ needs \in Seq(Source)
  <2>1. a.prim \in Prim /\ Def[a.spec] \in Definition BY <1>2, ArgFacts
  <2>2. QED BY <2>1 DEF Definition, Prim, DepType
<1>8. GrownBy(W, E)
  <2> HIDE DEF W
  <2>1. QED BY <1>3, ExtendedTree
<1>9. batch \in Seq(Calls)
  <2>1. DecideInstall(a) \in Calls BY <1>2, CallTypes
  <2>2. ASSUME NEW b \in ArgType PROVE <<AddSpec(b), DecideInstall(a)>> \in Seq(Calls)
    BY <2>1, CallTypes
  <2>3. QED BY <2>2, NoCall
<1>10. a = Now.args /\ u = ResultOf(a) /\ deps = Def[a.spec].deps[a.prim]
       /\ needs = Def[a.spec].needs[a.prim] /\ W = V \cup {u}
       /\ L = ListOf(a, batch, deps, needs, ReturnOf(u))
  OBVIOUS
<1>11. \/ batch = <<>>
       \/ \E b \in ArgType : /\ a.prim = "install" /\ HasBuild(a.spec)
                             /\ batch = <<AddSpec(b), DecideInstall(a)>>
  OBVIOUS
<1>12. a.prim = "install" =>
         IF HasBuild(a.spec) THEN batch # <<>>
         ELSE \E e \in E : e[1] = Install(a.spec) /\ e[2] = DownloadBinary(a.spec)
  OBVIOUS
<1> HIDE DEF a, u, deps, needs, L, W
<1>13. /\ L \in Seq(Calls) /\ L # <<>> /\ L[Len(L)] = ReturnOf(u)
       /\ \A i \in 1..Len(batch) : i \in 1..Len(L) /\ i # Len(L) /\ L[i] = batch[i]
       /\ \A j \in DOMAIN deps : \E i \in 1..Len(L) : L[i] = Dependency(a, deps[j])
       /\ \A i \in 1..Len(L) :
            \/ i \in 1..Len(batch) /\ L[i] = batch[i]
            \/ \E j \in DOMAIN deps : L[i] = Dependency(a, deps[j])
            \/ \E j \in DOMAIN needs : L[i] = SourceNeed(a, needs[j])
            \/ i = Len(L)
  <2>1. ReturnOf(u) \in Calls BY <1>6
  <2>2. a \in ArgType /\ deps \in Seq(DepType) /\ needs \in Seq(Source) BY <1>2, <1>7
  <2>3. batch \in Seq(Calls) BY <1>9
  <2>4. L = ListOf(a, batch, deps, needs, ReturnOf(u)) BY <1>10
  <2>5. Laid(L, a, batch, deps, needs, ReturnOf(u)) BY <2>1, <2>2, <2>3, <2>4, ListPlaces
  <2>6. QED BY <2>5 DEF Laid
<1>14. \A f : /\ Dependency(a, f).do = "dependency" /\ Dependency(a, f).args = a /\ Dependency(a, f).dep = f
              /\ SourceNeed(a, f).do = "source_need" /\ SourceNeed(a, f).args = a
              /\ SourceNeed(a, f).source = f
  BY DEF Dependency, SourceNeed
<1>15. /\ DecideInstall(a).do = "decide_install" /\ DecideInstall(a).args = a
       /\ \A b : AddSpec(b).do = "add_spec"
  BY DEF DecideInstall, AddSpec
<1>16. a.prim = "install" => u = Install(a.spec) BY <1>2, <1>10, ResultType
<1>17. ASSUME batch # <<>>
       PROVE  /\ a.prim = "install" /\ HasBuild(a.spec)
              /\ L[1].do = "add_spec" /\ L[2] = DecideInstall(a) /\ 2 \in 1..Len(L)
              /\ \A i \in 1..Len(batch) : i = 1 \/ i = 2
  <2>1. PICK b \in ArgType : /\ a.prim = "install" /\ HasBuild(a.spec)
                             /\ batch = <<AddSpec(b), DecideInstall(a)>>
    BY <1>11, <1>17
  <2>2. 1 \in 1..Len(batch) /\ 2 \in 1..Len(batch) /\ batch[1] = AddSpec(b) /\ batch[2] = DecideInstall(a)
        /\ \A i \in 1..Len(batch) : i = 1 \/ i = 2
    BY <2>1
  <2>3. QED BY <1>13, <1>15, <2>1, <2>2
<1>18. ASSUME NEW i \in 1..Len(L)
       PROVE  /\ FrameOK(L[i])
              /\ i # Len(L) => L[i].do # "return"
              /\ L[i].do \in Consumers => i = 2 /\ L[1].do = "add_spec" /\ L[2].do = "decide_install"
              /\ L[i].do = "add_spec" => i = 1 /\ L[2].do = "decide_install"
              /\ L[i].do = "decide_install" => Install(L[i].args.spec) = u
              /\ L[i].do \notin {"add_spec", "decide_install"} => Worker(L[i]) = u
              /\ L[i].do # "join"
  <2>1. CASE i \in 1..Len(batch) /\ L[i] = batch[i]
    <3>1. batch # <<>> /\ (i = 1 \/ i = 2) BY <1>17, <2>1
    <3>2. /\ L[1].do = "add_spec" /\ L[2].do = "decide_install" /\ L[2].args = a
          /\ HasBuild(a.spec) /\ Install(a.spec) = u
      BY <1>15, <1>16, <1>17, <3>1
    <3>3. QED BY <3>1, <3>2 DEF FrameOK, Consumers
  <2>2. CASE \E j \in DOMAIN deps : L[i] = Dependency(a, deps[j])
    <3>1. PICK j \in DOMAIN deps : L[i] = Dependency(a, deps[j]) BY <2>2
    <3>2. L[i].do = "dependency" /\ L[i].args = a /\ L[i].dep = deps[j] BY <1>14, <3>1
    <3>3. deps[j] \in ToSet(Def[a.spec].deps[a.prim])
      <4>1. deps[j] \in ToSet(deps) BY DEF ToSet
      <4>2. QED BY <4>1, <1>10
    <3>4. Worker(L[i]) = u
      <4>1. Worker(L[i]) = ResultOf(L[i].args) BY <3>2, WorkerFacts
      <4>2. QED BY <4>1, <3>2, <1>10
    <3>5. FrameOK(L[i]) BY <3>2, <3>3 DEF FrameOK
    <3>6. QED BY <3>2, <3>4, <3>5 DEF Consumers
  <2>3. CASE \E j \in DOMAIN needs : L[i] = SourceNeed(a, needs[j])
    <3>1. PICK j \in DOMAIN needs : L[i] = SourceNeed(a, needs[j]) BY <2>3
    <3>2. L[i].do = "source_need" /\ L[i].args = a /\ L[i].source = needs[j] BY <1>14, <3>1
    <3>3. needs[j] \in ToSet(Def[a.spec].needs[a.prim])
      <4>1. needs[j] \in ToSet(needs) BY DEF ToSet
      <4>2. QED BY <4>1, <1>10
    <3>4. Worker(L[i]) = u
      <4>1. Worker(L[i]) = ResultOf(L[i].args) BY <3>2, WorkerFacts
      <4>2. QED BY <4>1, <3>2, <1>10
    <3>5. FrameOK(L[i]) BY <3>2, <3>3 DEF FrameOK
    <3>6. QED BY <3>2, <3>4, <3>5 DEF Consumers
  <2>4. CASE i = Len(L) BY <1>6, <1>13, <2>4, WorkerFacts DEF FrameOK, Consumers
  <2>5. QED BY <1>13, <2>1, <2>2, <2>3, <2>4
<1>19. WorkList(u, L)
  <2>1. L[Len(L)].do = "return" BY <1>6, <1>13
  <2>2. QED BY <1>13, <1>18, <2>1 DEF WorkList
<1>20. BatchOK(L) BY <1>1, <1>3, <1>10, <1>19, ListBatch
<1>21. StepOK(W, E, L)
  <2>1. \A x, y : <<x, y>> \notin Promises(Now, returned) BY <1>2, PromisesFacts
  <2>2. AllHeed BY <1>3, HeedUnchanged
  <2>3. QED BY <1>2, <1>3, <1>8, <1>13, <1>20, <2>1, <2>2 DEF StepOK
<1>22. \A v \in W : v = u \/ ~Dependent(v) BY <1>10
<1>23. GetsAdded(W, E, L)
  <2>1. ASSUME NEW s \in Spec, Install(s) \in W \ DOMAIN tree
        PROVE  IF HasBuild(s)
               THEN \E i \in 1..Len(L) : L[i].do = "decide_install" /\ L[i].args.spec = s
               ELSE \E e \in E : e[1] = Install(s) /\ e[2] = DownloadBinary(s)
    <3>1. Install(s).kind = "install" /\ Install(s).spec = s BY TargetFacts
    <3>2. Install(s) = u BY <1>22, <2>1, <3>1 DEF Dependent, Prim
    <3>3. a.prim = "install" /\ a.spec = s BY <1>5, <3>1, <3>2
    <3>4. CASE HasBuild(s)
      <4>1. batch # <<>> BY <1>12, <3>3, <3>4
      <4>2. QED BY <1>15, <1>17, <3>3, <3>4, <4>1
    <3>5. CASE ~HasBuild(s) BY <1>12, <3>3, <3>5
    <3>6. QED BY <3>4, <3>5
  <2>2. QED BY <2>1 DEF GetsAdded
<1>24. AsksAdded(L)
  <2>1. ASSUME NEW s, a.spec = s, a.force, a.prim = "install" PROVE AskedFor(s)'
    <3>1. CASE ~HasBuild(s) BY <3>1 DEF AskedFor
    <3>2. CASE HasBuild(s)
      <4>1. batch # <<>> BY <1>12, <2>1, <3>2
      <4>2. L[2] = DecideInstall(a) /\ 2 \in 1..Len(L) BY <1>17, <4>1
      <4>3. 2 \in 1..Len(todo') /\ todo'[2] = L[2] BY <1>21, <4>2, StepCalls
      <4>4. QED BY <1>15, <2>1, <4>2, <4>3 DEF AskedFor
    <3>3. QED BY <3>1, <3>2
  <2>2. Now.do = "add_spec" /\ a = Now.args BY <1>2, <1>10
  <2>3. \A i \in 1..Len(L) : L[i].do # "join" BY <1>18
  <2>4. \A s : Now.args.spec = s /\ Now.args.force =>
             /\ Now.do = "decide_install" => Told(s)'
             /\ Now.do = "add_spec" /\ Now.args.prim = "install" /\ todo[2].do = "join" => AskedFor(s)'
    BY <2>1, <2>2
  <2>5. QED BY <2>3, <2>4 DEF AsksAdded
<1>25. HonourAdded(W, L)
  <2>1. ASSUME NEW f \in ToSet(Def[u.spec].deps[u.kind])
        PROVE  \E i \in 1..Len(L) : /\ L[i].do = "dependency" /\ L[i].dep = f
                                    /\ ResultOf(L[i].args) = u
    <3>1. PICK j \in DOMAIN deps : deps[j] = f BY <1>5, <1>10, <2>1 DEF ToSet
    <3>2. PICK i \in 1..Len(L) : L[i] = Dependency(a, deps[j]) BY <1>13
    <3>3. L[i].do = "dependency" /\ L[i].args = a /\ L[i].dep = f BY <1>14, <3>1, <3>2
    <3>4. ResultOf(L[i].args) = u BY <3>3, <1>10
    <3>5. QED BY <3>3, <3>4
  <2>2. QED BY <1>2, <1>5, <1>22, <2>1 DEF HonourAdded
<1>26. QED BY <1>21, <1>23, <1>24, <1>25, HonourStep

LEMMA AddBuildOrTestHonour ==
  ASSUME PlanInv, HonourInv, PlanInv', AddBuildOrTest
  PROVE  HonourInv'
<1>1. PICK V, E, batch : V = {} /\ E = {} /\ batch = <<>> OBVIOUS
<1>2. Now.args.prim \in {"build", "test"} /\ Expand(Now.args, V, E, batch)
  BY <1>1 DEF AddBuildOrTest
<1>3. (\A v \in V : ~Dependent(v)) /\ \A e \in E : FALSE BY <1>1
<1>4. Now.args.prim # "source" /\ Now.args.prim # "install" BY <1>2
<1>5. QED BY <1>1, <1>2, <1>3, <1>4, ExpandHonour

LEMMA AddInstallHonour ==
  ASSUME PlanInv, HonourInv, PlanInv', AddInstall
  PROVE  HonourInv'
<1> DEFINE a == Now.args
           get == DownloadBinary(a.spec)
           b == [Inner(a, a.spec, "build") EXCEPT !.expand = FALSE]
<1>1. pc = "adding" /\ Now.do = "add_spec" /\ a.prim = "install"
  BY DEF AddInstall, Doing, Now
<1>2. IF HasBuild(a.spec) THEN Expand(a, {get}, {}, <<AddSpec(b), DecideInstall(a)>>)
                          ELSE Expand(a, {get}, {<<Install(a.spec), get>>}, <<>>)
  BY DEF AddInstall, HasBuild
<1>3. a \in ArgType BY <1>1, NowFacts, CallFacts
<1>4. get.kind = "download_bin" BY UidFacts DEF DownloadBinary
<1>5. b \in ArgType
  <2>1. a.spec \in Spec /\ "build" \in Prim BY <1>3, ArgFacts DEF Prim
  <2>2. Inner(a, a.spec, "build") \in ArgType BY <1>3, <2>1, InnerFacts
  <2>3. QED BY <2>2 DEF ArgType
<1>6. a = Now.args /\ get = DownloadBinary(a.spec) OBVIOUS
<1> HIDE DEF a, get, b
<1>7. PICK V : V = {get} OBVIOUS
<1>8. \A v \in V : ~Dependent(v) BY <1>4, <1>7 DEF Dependent, Prim
<1>9. CASE HasBuild(a.spec)
  <2>1. PICK E, batch : E = {} /\ batch = <<AddSpec(b), DecideInstall(a)>> OBVIOUS
  <2>2. Expand(a, V, E, batch) BY <1>2, <1>7, <1>9, <2>1
  <2>3. batch # <<>> BY <2>1
  <2>4. \A e \in E : FALSE BY <2>1
  <2>5. QED BY <1>1, <1>5, <1>6, <1>8, <1>9, <2>1, <2>2, <2>3, <2>4, ExpandHonour
<1>10. CASE ~HasBuild(a.spec)
  <2>1. PICK E, batch : E = {<<Install(a.spec), get>>} /\ batch = <<>> OBVIOUS
  <2>2. Expand(a, V, E, batch) BY <1>2, <1>7, <1>10, <2>1
  <2>3. PICK e : e = <<Install(a.spec), get>> OBVIOUS
  <2>4. e \in E /\ e[1] = Install(a.spec) /\ e[2] = get /\ \A f \in E : f = e BY <2>1, <2>3
  <2>5. EdgeRight(Install(a.spec), get)
    <3>1. get \in Needs(Install(a.spec)) BY <1>6, <1>10, TargetFacts DEF Needs, HasBuild
    <3>2. QED BY <3>1 DEF EdgeRight
  <2>6. Install(a.spec) # Root BY TargetFacts, RootFacts
  <2>7. \A f \in E : IF f[1] = Root THEN Late(f[2]) ELSE EdgeRight(f[1], f[2])
    BY <2>4, <2>5, <2>6
  <2>8. QED BY <1>1, <1>6, <1>8, <1>10, <2>1, <2>2, <2>4, <2>7, ExpandHonour
<1>11. QED BY <1>9, <1>10

LEMMA AddSourceHonour ==
  ASSUME PlanInv, HonourInv, PlanInv', AddSource
  PROVE  HonourInv'
<1> DEFINE a == Now.args
           u == CreateSource(a.spec, a.source)
           C == CheckoutsOf(a.source)
           up == IF a.upload THEN {UploadSource(a.spec, a.source)} ELSE {}
<1>1. /\ pc = "adding" /\ Now.do = "add_spec" /\ a.source # NoItem
      /\ Expand(a, C \cup up, ({u} \X C) \cup ({Root} \X up) \cup (up \X {u}), <<>>)
  BY DEF AddSource, Doing, Now
<1>2. a \in ArgType /\ a.prim = "source" BY <1>1, NowFacts, CallFacts DEF CallOK
<1>3. u.kind = "source" BY UidFacts DEF CreateSource
<1>4. \A v \in up : v.kind = "upload_src" /\ v.spec = a.spec /\ v.item = a.source
  BY UidFacts DEF UploadSource
<1>5. \A v \in C : v.kind = "checkout" BY CheckoutFacts
<1>6. \A v \in up : u \in Needs(v) BY <1>4 DEF Needs
<1>7. a = Now.args OBVIOUS
<1> HIDE DEF a, u, C, up
<1>8. PICK V, E, batch : /\ V = C \cup up /\ batch = <<>>
                         /\ E = ({u} \X C) \cup ({Root} \X up) \cup (up \X {u})
  OBVIOUS
<1>9. Expand(a, V, E, batch) BY <1>1, <1>8
<1>10. \A v \in V : ~Dependent(v) BY <1>4, <1>5, <1>8 DEF Dependent, Prim
<1>11. ASSUME NEW e \in E PROVE IF e[1] = Root THEN Late(e[2]) ELSE EdgeRight(e[1], e[2])
  <2>1. CASE e[1] = u /\ e[2] \in C
    <3>1. EdgeRight(u, e[2]) BY <1>3, <1>5, <2>1 DEF EdgeRight
    <3>2. u # Root BY <1>3, RootFacts
    <3>3. QED BY <2>1, <3>1, <3>2
  <2>2. CASE e[1] = Root /\ e[2] \in up BY <1>4, <2>2 DEF Late, IsUpload
  <2>3. CASE e[1] \in up /\ e[2] = u
    <3>1. e[1] # Root BY <1>4, <2>3, RootFacts
    <3>2. EdgeRight(e[1], u) BY <1>6, <2>3 DEF EdgeRight
    <3>3. QED BY <2>3, <3>1, <3>2
  <2>4. QED BY <1>8, <2>1, <2>2, <2>3
<1>12. QED BY <1>1, <1>2, <1>7, <1>8, <1>9, <1>10, <1>11, ExpandHonour

\* add_spec keeps it all.
LEMMA AddSpecHonour ==
  ASSUME DecisionsFirst, PlanInv, HonourInv, PlanInv', AddSpecNext
  PROVE  HonourInv'
<1>1. CASE RejectSpec \/ RejectSource
  BY <1>1 DEF RejectSpec, RejectSource, Raise, HonourInv
<1>2. CASE HandOver BY <1>2, HandOverHonour
<1>3. CASE AddSources BY <1>3, AddSourcesHonour
<1>4. CASE BuildSource BY <1>4, BuildSourceHonour
<1>5. CASE MeetAgain BY <1>5, MeetAgainHonour
<1>6. CASE AddBuildOrTest BY <1>6, AddBuildOrTestHonour
<1>7. CASE AddInstall BY <1>7, AddInstallHonour
<1>8. CASE AddInstallDecision BY <1>8, AddInstallDecisionHonour
<1>9. CASE AddSource BY <1>9, AddSourceHonour
<1>10. CASE LoadSourceDependency BY <1>10, LoadSourceDependencyHonour
<1>11. CASE CallDependency BY <1>11, CallDependencyHonour
<1>12. CASE FinishDependency BY <1>12, FinishDependencyHonour
<1>13. CASE AddSourceInstall BY <1>13, AddSourceInstallHonour
<1>14. CASE AddSourceDecision BY <1>14, AddSourceDecisionHonour
<1>15. CASE ConnectSource BY <1>15, ConnectSourceHonour
<1>16. CASE ReturnResult BY <1>16, ReturnResultHonour
<1>17. QED BY <1>1, <1>2, <1>3, <1>4, <1>5, <1>6, <1>7, <1>8, <1>9, <1>10, <1>11, <1>12, <1>13,
              <1>14, <1>15, <1>16 DEF AddSpecNext

\* What is kept where no call is left, but for the end of a line.
LEMMA KeptHonour ==
  ASSUME PlannedTree, GetsOK, HonourOK, \A i \in 1..Len(todo) : todo[i].do = "end_line",
         Wider, AllHeed, \A u \in DOMAIN tree' \ DOMAIN tree : u.kind \in {"check_virus", "upload_bin"}
  PROVE  GetsOK' /\ HonourOK' /\ (InCircle => InCircle')
<1>1. ASSUME NEW u, NEW v, Leading(u, v) PROVE Leading(u, v)'
  <2>1. \A c, r : c.do = "end_line" => <<u, v>> \notin Promises(c, r) BY PromisesFacts
  <2>2. u \in DOMAIN tree /\ v \in tree[u] BY <1>1, <2>1 DEF Leading
  <2>3. u \in DOMAIN tree' /\ v \in tree'[u] BY <2>2 DEF Wider
  <2>4. QED BY <2>3 DEF Leading
<1>2. InCircle => InCircle' BY <1>1, CirclesStay
<1>3. ASSUME NEW s
      PROVE  /\ Told(s) => Told(s)'
             /\ BuildDecision(s) \in DOMAIN tree =>
                  /\ BuildDecision(s) \in DOMAIN tree'
                  /\ \A t : t \in decisions[BuildDecision(s)].triggers =>
                            t \in decisions'[BuildDecision(s)].triggers
  <2>1. PICK d : d = BuildDecision(s) OBVIOUS
  <2>2. IsDecision(d) BY <2>1, BelowFacts DEF BuildDecision
  <2>3. d \in DOMAIN tree => Heeds(d) /\ d \in DOMAIN tree' BY <2>2 DEF AllHeed, Wider
  <2>4. QED BY <2>1, <2>3 DEF Told, Heeds
<1>4. GetsOK'
  <2> SUFFICES ASSUME NEW s \in Spec, Install(s) \in DOMAIN tree'
               PROVE  IF HasBuild(s) THEN BuildDecision(s) \in DOMAIN tree'
                                     ELSE DownloadBinary(s) \in tree'[Install(s)]
    BY DEF GetsOK
  <2>1. Install(s) \in DOMAIN tree BY TargetFacts
  <2>2. ~DecisionPending(s) BY DEF DecisionPending
  <2>3. IF HasBuild(s) THEN BuildDecision(s) \in DOMAIN tree
                       ELSE DownloadBinary(s) \in tree[Install(s)]
    BY <2>1, <2>2 DEF GetsOK
  <2>4. QED BY <2>1, <2>3, <1>3 DEF Wider
<1>5. ASSUME NEW u \in DOMAIN tree, Dependent(u), NEW e \in ToSet(Def[u.spec].deps[u.kind])
      PROVE  Honoured(u, e)' \/ InCircle'
  <2>1. ~DependencyPending(u, e) BY DEF DependencyPending
  <2>2. CASE InCircle BY <1>2, <2>2
  <2>3. CASE Honoured(u, e)
    <3>1. e.kind # "source" => TargetOf(e.name, e.kind) \in tree'[u] BY <2>3 DEF Wider, Honoured
    <3>2. e.kind = "build" /\ Def[e.name].package =>
            /\ BuildDecision(e.name) \in DOMAIN tree'
            /\ <<u, LEFT>> \in decisions'[BuildDecision(e.name)].triggers
      BY <1>3, <2>3 DEF Honoured
    <3>3. e.kind = "download" /\ HasBuild(e.name) => Told(e.name)' BY <1>3, <2>3 DEF Honoured
    <3>4. QED BY <3>1, <3>2, <3>3 DEF Honoured
  <2>4. QED BY <1>5, <2>1, <2>2, <2>3 DEF HonourOK
<1>6. HonourOK'
  <2>1. ASSUME NEW u \in DOMAIN tree', Dependent(u) PROVE u \in DOMAIN tree /\ u \in Results
    <3>1. u \in DOMAIN tree BY <2>1 DEF Dependent, Prim
    <3>2. QED BY <2>1, <3>1 DEF HonourOK
  <2>2. QED BY <1>5, <2>1 DEF HonourOK
<1>7. QED BY <1>2, <1>4, <1>6

LEMMA AddLineHonour ==
  ASSUME PlanInv, HonourInv, NEW l \in Lines, AddLine(l)
  PROVE  HonourInv'
<1> DEFINE a == Arguments(l.spec, l.prim, l)
           e == EndLine(l)
<1>1. /\ pc \in {"plan", "scheduled", "error"} /\ pc' = "adding" /\ todo' = <<AddSpec(a), e>>
      /\ UNCHANGED <<tree, decisions, order>>
  BY DEF AddLine
<1>2. l.spec \in Spec /\ l.prim \in Prim /\ l.upload \in BOOLEAN BY ContextAssumption DEF Line, Prim
<1>3. /\ a \in ArgType /\ a.prim = l.prim /\ a.spec = l.spec /\ a.source = NoItem
      /\ a.expand /\ ~a.force
  BY <1>2 DEF Arguments, ArgType
<1>4. e.do = "end_line" /\ e.line = l BY DEF EndLine
<1>5. AddSpec(a).do = "add_spec" /\ AddSpec(a).args = a BY DEF AddSpec
<1> HIDE DEF a, e
<1>6. /\ Len(todo') = 2 /\ todo'[1] = AddSpec(a) /\ todo'[2] = e
      /\ \A i \in 1..Len(todo') : i = 1 \/ i = 2
      /\ \A i \in 1..(Len(todo') - 1) : i = 1
  BY <1>1
<1>7. PlannedTree /\ EdgesRight /\ GetsOK /\ HonourOK /\ order \in Orders /\ todo = <<>>
  BY <1>1 DEF PlanInv, HonourInv
<1>8. \A i \in 1..Len(todo) : FALSE
  <2>1. Len(todo) = 0 /\ 1..0 = {} BY <1>7
  <2>2. QED BY <2>1
<1>9. Wider /\ AllHeed BY <1>1, HeedUnchanged DEF Wider
<1>10. GetsOK' /\ HonourOK' BY <1>1, <1>7, <1>8, <1>9, KeptHonour
<1>11. EdgesRight' BY <1>1, <1>7 DEF EdgesRight
<1>12. AsksOK' BY <1>4, <1>5, <1>6 DEF AsksOK
<1>13. LinesOK'
  <2>1. FrameOK(AddSpec(a)) /\ FrameOK(e) BY <1>4, <1>5 DEF FrameOK
  <2>2. Worker(AddSpec(a)) = TargetOf(l.spec, l.prim) BY <1>3, <1>5, WorkerFacts, WillReturnFacts
  <2>3. NextTo(tree', AddSpec(a), e) BY <1>4, <1>5, <2>2 DEF NextTo, Gets, Consumers
  <2>4. 1 + 1 = 2 OBVIOUS
  <2>5. AddSpec(a).do \notin Consumers BY <1>5 DEF Consumers
  <2>6. \A i \in 1..Len(todo') : FrameOK(todo'[i]) BY <1>6, <2>1
  <2>7. \A i \in 1..(Len(todo') - 1) : NextTo(tree', todo'[i], todo'[i + 1]) BY <1>6, <2>3, <2>4
  <2>8. todo'[1].do \notin Consumers BY <1>6, <2>5
  <2>9. QED BY <2>6, <2>7, <2>8 DEF LinesOK
<1>14. QED BY <1>1, <1>7, <1>10, <1>11, <1>12, <1>13 DEF HonourInv

LEMMA UploadEdges ==
  ASSUME NEW l, NEW e \in UploadsOf(l)
  PROVE  IF e[1] = Root THEN Late(e[2]) ELSE EdgeRight(e[1], e[2])
<1> DEFINE s == l.spec
           up == UploadComponent(s)
           check == CheckVirus(s)
<1>1. UploadsOf(l) \subseteq {<<Root, check>>, <<check, up>>, <<Root, up>>, <<up, Build(s)>>}
  BY DEF UploadsOf
<1>2. /\ up.kind = "upload_bin" /\ up.spec = s /\ check.kind = "check_virus" /\ check.spec = s
      /\ Root.kind = "root"
  BY UidFacts DEF UploadComponent, CheckVirus, Root
<1>3. up = UploadComponent(s) OBVIOUS
<1> HIDE DEF up, check, s
<1>4. Late(up) /\ Late(check) /\ up # Root /\ check # Root BY <1>2 DEF Late, IsUpload
<1>5. EdgeRight(check, up) BY <1>2, <1>3 DEF EdgeRight, Needs
<1>6. EdgeRight(up, Build(s)) BY <1>2 DEF EdgeRight, Needs
<1>7. \/ e[1] = Root /\ e[2] = check
      \/ e[1] = check /\ e[2] = up
      \/ e[1] = Root /\ e[2] = up
      \/ e[1] = up /\ e[2] = Build(s)
  <2>1. e = <<Root, check>> \/ e = <<check, up>> \/ e = <<Root, up>> \/ e = <<up, Build(s)>> BY <1>1
  <2>2. PICK x, y, z, w : /\ x = <<Root, check>> /\ y = <<check, up>>
                         /\ z = <<Root, up>> /\ w = <<up, Build(s)>>
    OBVIOUS
  <2>3. /\ x[1] = Root /\ x[2] = check /\ y[1] = check /\ y[2] = up
        /\ z[1] = Root /\ z[2] = up /\ w[1] = up /\ w[2] = Build(s)
    BY <2>2
  <2>4. e = x \/ e = y \/ e = z \/ e = w BY <2>1, <2>2
  <2>5. QED BY <2>3, <2>4
<1>8. QED BY <1>4, <1>5, <1>6, <1>7

LEMMA FinishLineHonour ==
  ASSUME PlanInv, HonourInv, FinishLine
  PROVE  HonourInv'
<1> DEFINE l == Now.line
           U == UploadsOf(l)
           N == {e[1] : e \in U} \ {Root}
           d == DecisionBelow(returned)
           which == IF l.prim = "build" THEN LEFT ELSE RIGHT
           chosen == l.prim \in {"build", "install"} /\ d \in tree[returned]
           E == U \cup {<<Root, returned>>}
<1>1. /\ pc = "adding" /\ Now.do = "end_line" /\ pc' = "plan" /\ todo' = <<>> /\ UNCHANGED order
      /\ tree' = Extended(tree, N, E)
      /\ decisions' = IF chosen THEN [decisions EXCEPT ![d] = SetDecision(@, which)] ELSE decisions
  BY DEF FinishLine, Doing, Now
<1>2. PlannedTree /\ Len(todo) = 1 /\ todo[1] = Now BY <1>1, NowFacts
<1>3. /\ EdgesRight /\ GetsOK /\ HonourOK /\ Gets(Now, returned) /\ order \in Orders
  BY <1>1, NowLines DEF Consumers, HonourInv
<1>4. returned = TargetOf(l.spec, l.prim) /\ l.spec \in Spec /\ l.prim \in Prim
  <2>1. l \in Lines BY <1>1, NowFacts, CallFacts
  <2>2. l.spec \in Spec /\ l.prim \in Prim BY <2>1, ContextAssumption DEF Line, Prim
  <2>3. QED BY <1>1, <1>3, <2>2 DEF Gets
<1>5. AllHeed
  <2>1. CASE ~chosen BY <1>1, <2>1, HeedUnchanged
  <2>2. CASE chosen
    <3>1. which \in {LEFT, RIGHT} OBVIOUS
    <3> HIDE DEF d, which, chosen
    <3>2. QED BY <1>1, <1>2, <2>2, <3>1, HeedSet
  <2>3. QED BY <2>1, <2>2
<1>6. U = UploadsOf(l) /\ N = {e[1] : e \in U} \ {Root} OBVIOUS
<1>7. \A f : f \in E <=> f \in U \/ f = <<Root, returned>> OBVIOUS
<1> HIDE DEF l, U, N, d, which, chosen, E
<1>8. GrownBy(N, E) BY <1>1, ExtendedTree
<1>9. \A v \in N : v.kind \in {"check_virus", "upload_bin"}
  <2>1. ASSUME NEW v \in N PROVE v.kind \in {"check_virus", "upload_bin"}
    <3>1. PICK f \in U : f[1] = v BY <1>6
    <3>2. f \in UploadsOf(l) BY <1>6
    <3>3. N = {e[1] : e \in UploadsOf(l)} \ {Root} BY <1>6
    <3>4. QED BY <3>2, <3>3, UploadFacts
  <2>2. QED BY <2>1
<1>10. /\ Wider /\ DOMAIN tree' = DOMAIN tree \cup N
       /\ \A u \in DOMAIN tree' : \A p :
            p \in tree'[u] <=> \/ u \in DOMAIN tree /\ p \in tree[u]
                              \/ \E e \in E : e[1] = u /\ e[2] = p
  BY <1>8, GrownIsWider DEF GrownBy
<1>11. GetsOK' /\ HonourOK'
  <2>1. \A i \in 1..Len(todo) : todo[i].do = "end_line" BY <1>1, <1>2
  <2>2. QED BY <1>2, <1>3, <1>5, <1>9, <1>10, <2>1, KeptHonour
<1>12. EdgesRight'
  <2>1. ASSUME NEW u \in DOMAIN tree' \ {Root}, NEW v \in tree'[u] PROVE EdgeRight(u, v)
    <3>1. CASE u \in DOMAIN tree /\ v \in tree[u] BY <1>3, <2>1, <3>1 DEF EdgesRight
    <3>2. ASSUME NEW e \in E, e[1] = u, e[2] = v PROVE EdgeRight(u, v)
      <4>1. e # <<Root, returned>> BY <2>1, <3>2
      <4>2. e \in UploadsOf(l) BY <1>6, <1>7, <4>1
      <4>3. QED BY <2>1, <3>2, <4>2, UploadEdges
    <3>3. QED BY <1>10, <3>1, <3>2
  <2>2. ASSUME NEW v \in tree'[Root], IsPlain(v) PROVE \E s \in Spec, k \in Prim : v = TargetOf(s, k)
    <3>1. CASE Root \in DOMAIN tree /\ v \in tree[Root] BY <1>3, <2>2, <3>1 DEF EdgesRight
    <3>2. ASSUME NEW e \in E, e[1] = Root, e[2] = v PROVE v = returned
      <4>1. CASE e = <<Root, returned>> BY <3>2, <4>1
      <4>2. CASE e \in UploadsOf(l)
        <5>1. Late(v) BY <3>2, <4>2, UploadEdges
        <5>2. QED BY <2>2, <5>1, KindsApart
      <4>3. QED BY <1>6, <1>7, <4>1, <4>2
    <3>3. Root \in DOMAIN tree' BY <1>2, <1>10 DEF PlannedTree
    <3>4. QED BY <1>4, <1>10, <3>1, <3>2, <3>3
  <2>3. QED BY <2>1, <2>2 DEF EdgesRight
<1>13. AsksOK'
  <2>1. Len(todo') = 0 /\ 1..0 = {} BY <1>1
  <2>2. QED BY <2>1 DEF AsksOK
<1>14. QED BY <1>1, <1>3, <1>11, <1>12, <1>13 DEF HonourInv

\* An iteration over the tree leaves the plan's choices and the triggers alone.
LEMMA ScheduleHonour ==
  ASSUME PlanInv, HonourInv, TreeFinite, ScheduleNext, UNCHANGED contextVars
  PROVE  HonourInv'
<1>1. /\ pc \in {"plan", "iterate", "uploads"} /\ pc' \in {"error", "iterate", "uploads", "scheduled"}
      /\ UNCHANGED tree
      /\ pc = "plan" /\ pc' # "error" => ~Cyclic(tree)
      /\ pc = "plan" => pc' \in {"error", "iterate"}
      /\ \/ UNCHANGED decisions
         \/ \E u \in remaining : VisitDecision(u)
  <2>1. ASSUME NEW u \in remaining, Visit(u)
        PROVE  /\ pc = "iterate" /\ pc' \in {"iterate", "error"} /\ UNCHANGED tree
               /\ UNCHANGED decisions \/ VisitDecision(u)
    BY <2>1
    DEF Visit, VisitDecision, VisitUpload, VisitChoice, RaiseUndecided, VisitAction, NextVertex
  <2>2. QED BY <2>1 DEF ScheduleNext, StartSchedule, VisitRoot, NextVertex, EndIteration, AddUpload, Return
<1>2. UNCHANGED <<todo, order, returned>> BY DEF contextVars
<1>3. /\ todo = <<>> /\ PlannedTree /\ EdgesRight /\ GetsOK /\ HonourOK /\ order \in Orders
      /\ pc \in {"iterate", "uploads"} => ~InCircle
  BY <1>1 DEF PlanInv, HonourInv
<1>4. \A i \in 1..Len(todo) : FALSE
  <2>1. Len(todo) = 0 /\ 1..0 = {} BY <1>3
  <2>2. QED BY <2>1
<1>5. AllHeed
  <2>1. CASE UNCHANGED decisions BY <2>1, HeedUnchanged
  <2>2. ASSUME NEW u \in remaining, VisitDecision(u) PROVE AllHeed
    <3>1. decisions' = [decisions EXCEPT ![u] = ApplyTriggers(@, DOMAIN dag)]
      BY <2>2 DEF VisitDecision
    <3>2. ASSUME NEW d \in DOMAIN tree, IsDecision(d) PROVE Heeds(d)
      <4>1. PICK D : D = decisions[d] OBVIOUS
      <4>2. d \in DOMAIN decisions /\ D \in DecisionType BY <1>3, <3>2, <4>1 DEF PlannedTree, DecisionOK
      <4>3. CASE d # u
        <5>1. decisions'[d] = D BY <3>1, <4>1, <4>3
        <5>2. QED BY <4>1, <5>1 DEF Heeds
      <4>4. CASE d = u
        <5>1. decisions'[d] = ApplyTriggers(D, DOMAIN dag) BY <3>1, <4>1, <4>2, <4>4
        <5>2. PICK M : M = ApplyTriggers(D, DOMAIN dag) OBVIOUS
        <5>3. M.triggers = D.triggers /\ M.choice = D.choice
          BY <4>2, <5>2 DEF ApplyTriggers, DecisionType
        <5>4. QED BY <4>1, <5>1, <5>2, <5>3 DEF Heeds
      <4>5. QED BY <4>3, <4>4
    <3>3. QED BY <3>2 DEF AllHeed
  <2>3. QED BY <1>1, <2>1, <2>2
<1>6. Wider BY <1>1 DEF Wider
<1>7. GetsOK' /\ HonourOK' BY <1>1, <1>3, <1>4, <1>5, <1>6, KeptHonour
<1>8. EdgesRight' BY <1>1, <1>3 DEF EdgesRight
<1>9. AsksOK' BY <1>2, <1>4 DEF AsksOK
<1>10. InCircle' => InCircle BY <1>1, <1>2 DEF InCircle, Leading, Comes
<1>11. pc = "plan" /\ pc' # "error" => ~InCircle BY <1>1, <1>3, CircleCyclic DEF TreeFinite
<1>12. pc' \in {"iterate", "uploads", "scheduled"} => ~InCircle' BY <1>1, <1>3, <1>10, <1>11
<1>13. order' \in Orders BY <1>2, <1>3
<1>14. pc' # "adding" BY <1>1
<1>15. QED BY <1>7, <1>8, <1>9, <1>12, <1>13, <1>14 DEF HonourInv

LEMMA StillHonour ==
  ASSUME HonourInv, UNCHANGED vars
  PROVE  HonourInv'
<1>1. UNCHANGED <<tree, decisions, pc, todo, order, returned>>
  BY DEF vars, scheduleVars, contextVars
<1>2. LinesOK' <=> LinesOK BY <1>1 DEF LinesOK
<1>3. EdgesRight' <=> EdgesRight BY <1>1 DEF EdgesRight
<1>4. GetsOK' <=> GetsOK BY <1>1 DEF GetsOK, DecisionPending
<1>5. InCircle' <=> InCircle BY <1>1 DEF InCircle, Leading, Comes
<1>6. \A s : Told(s)' <=> Told(s) BY <1>1 DEF Told
<1>7. AsksOK' <=> AsksOK BY <1>1, <1>5, <1>6 DEF AsksOK, AskedFor
<1>8. HonourOK' <=> HonourOK BY <1>1, <1>5, <1>6 DEF HonourOK, Honoured, DependencyPending
<1>9. QED BY <1>1, <1>2, <1>3, <1>4, <1>5, <1>7, <1>8 DEF HonourInv

LEMMA HonourInvStep ==
  ASSUME DecisionsFirst, PlanInv, ScheduleInv, TreeFinite, HonourInv, [Next]_vars
  PROVE  HonourInv'
<1>0. PlanInv' BY PlanStep
<1>1. ASSUME NEW l \in Lines, AddLine(l) PROVE HonourInv' BY <1>1, AddLineHonour
<1>2. CASE AddSpecNext BY <1>0, <1>2, AddSpecHonour
<1>3. CASE FinishLine BY <1>3, FinishLineHonour
<1>4. CASE ScheduleNext /\ UNCHANGED contextVars BY <1>4, ScheduleHonour
<1>5. CASE UNCHANGED vars BY <1>5, StillHonour
<1>6. QED BY <1>1, <1>2, <1>3, <1>4, <1>5 DEF Next, Done

LEMMA HonourInitially == ContextInit => HonourInv
<1> SUFFICES ASSUME ContextInit PROVE HonourInv OBVIOUS
<1>1. /\ DOMAIN tree = {Root} /\ tree[Root] = {} /\ pc = "plan" /\ todo = <<>> /\ order \in Orders
  BY DEF ContextInit, ScheduleInit
<1>2. EdgesRight BY <1>1 DEF EdgesRight
<1>3. GetsOK
  <2>1. \A s : Install(s) # Root BY TargetFacts, RootFacts
  <2>2. QED BY <1>1, <2>1 DEF GetsOK
<1>4. AsksOK
  <2>1. Len(todo) = 0 /\ 1..0 = {} BY <1>1
  <2>2. QED BY <2>1 DEF AsksOK
<1>5. HonourOK
  <2>1. ~Dependent(Root) BY RootFacts DEF Dependent, Prim
  <2>2. QED BY <1>1, <2>1 DEF HonourOK
<1>6. QED BY <1>1, <1>2, <1>3, <1>4, <1>5 DEF HonourInv

----------------------------------------------------------------------------
(* What is scheduled honours its dependencies.                             *)

LEMMA DependentFacts ==
  ASSUME NEW u \in Results, Dependent(u)
  PROVE  /\ u.spec \in Spec /\ IsPlain(u)
         /\ \A e \in ToSet(Def[u.spec].deps[u.kind]) : e \in DepType
<1>1. u.spec \in Spec
  BY UidFacts DEF Results, Build, Install, Test, CreateSources, CreateSource
<1>2. Def[u.spec].deps[u.kind] \in Seq(DepType)
  <2>1. Def[u.spec] \in Definition BY <1>1, ContextAssumption
  <2>2. QED BY <2>1 DEF Definition, Dependent, Prim, DepType
<1>3. ASSUME NEW e \in ToSet(Def[u.spec].deps[u.kind]) PROVE e \in DepType
  <2>1. PICK q \in Seq(DepType) : q = Def[u.spec].deps[u.kind] BY <1>2
  <2>2. PICK i \in DOMAIN q : q[i] = e BY <2>1 DEF ToSet
  <2>3. DOMAIN q = 1..Len(q) BY <2>1
  <2>4. QED BY <2>1, <2>2, <2>3
<1>4. QED BY <1>1, <1>3, ResultFacts

\* Nothing wants a download, and nothing wants the build of a package.
LEMMA WantsFacts ==
  ASSUME NEW u \in Results, Dependent(u), NEW s
  PROVE  /\ DownloadBinary(s) \notin Wants(u.spec, u.kind)
         /\ Def[s].package => Build(s) \notin Wants(u.spec, u.kind)
         /\ \A v \in Wants(u.spec, u.kind) : ~IsDecision(v)
<1>1. /\ \A x, y : InstallSource(x, y).kind = "source_install"
      /\ DownloadBinary(s).kind = "download_bin"
  BY UidFacts DEF InstallSource, DownloadBinary
<1>2. ASSUME NEW e \in ToSet(Def[u.spec].deps[u.kind]), NEW v, v = TargetOf(e.name, e.kind)
      PROVE  /\ v.kind \in {"build", "install", "test", "sources"}
             /\ v.kind = "build" => v.spec = e.name /\ ~Def[e.name].package
  <2>1. e.kind \in {"build", "install", "download", "test", "source"}
    BY DependentFacts DEF DepType
  <2>2. QED BY <1>2, <2>1, TargetFacts
<1>3. ASSUME NEW v \in Wants(u.spec, u.kind)
      PROVE  /\ v.kind \in {"build", "install", "test", "sources", "source_install"}
             /\ v.kind = "build" => ~Def[v.spec].package
  <2>1. CASE \E e \in ToSet(Def[u.spec].deps[u.kind]) : v = TargetOf(e.name, e.kind)
    BY <1>2, <2>1
  <2>2. CASE \E x : v = InstallSource(u.spec, x) BY <1>1, <2>2
  <2>3. QED BY <2>1, <2>2 DEF Wants
<1>4. Build(s).kind = "build" /\ Build(s).spec = s BY TargetFacts
<1>5. QED BY <1>1, <1>3, <1>4 DEF IsDecision

\* What is decided about a source is no action of its own.
LEMMA DecisionBelowGet ==
  ASSUME NEW v, v.kind = "source_get", NEW k, NEW s, DecisionBelow(v) = Uid(k, s, NoItem)
  PROVE  k = "create_or_download"
<1>1. DOMAIN DecisionBelow(v) = DOMAIN v BY DEF DecisionBelow
<1>2. "kind" \in DOMAIN v BY <1>1 DEF Uid
<1>3. DecisionBelow(v)["kind"] = "create_or_download" BY <1>2 DEF DecisionBelow
<1>4. QED BY <1>3 DEF Uid

\* A decision is the only one about its download, and about the build of a
\* package.
LEMMA BinaryDecision ==
  ASSUME PlannedTree, EdgesRight, HonourOK, NEW s \in Spec, NEW d, d = BuildDecision(s),
         d \in DOMAIN tree
  PROVE  /\ decisions[d].initiator = Install(s) /\ decisions[d].left = Build(s)
         /\ decisions[d].right = DownloadBinary(s)
         /\ Parents(DownloadBinary(s)) = {d}
         /\ Def[s].package => Parents(Build(s)) = {d}
<1>1. d.kind = "build_or_download" /\ d.spec = s /\ IsDecision(d) BY TargetFacts DEF IsDecision
<1>2. DecisionOK(d) BY <1>1 DEF PlannedTree
<1>3. PICK l, r : l = decisions[d].left /\ r = decisions[d].right OBVIOUS
<1>4. /\ decisions[d].initiator = Install(s) /\ l.kind = "build" /\ r.kind = "download_bin"
      /\ tree[d] = {l, r} /\ Dependents(tree, d) = {Install(s)}
  BY <1>1, <1>2, <1>3 DEF DecisionOK
<1>5. /\ Build(s).kind = "build" /\ DownloadBinary(s).kind = "download_bin"
      /\ Install(s).kind = "install" /\ Install(s).spec = s
  BY TargetFacts, UidFacts DEF DownloadBinary
<1>6. ASSUME NEW u \in DOMAIN tree \ {Root}, NEW v \in tree[u],
             u.kind \notin {"sources", "source", "source_get", "create_or_download"}
             \/ v.kind \in {"build", "download_bin"}
      PROVE  v \in Needs(u)
  BY <1>6 DEF EdgesRight, EdgeRight
<1>7. l = Build(s) /\ r = DownloadBinary(s)
  <2>1. d # Root BY <1>1, RootFacts
  <2>2. Needs(d) = {Build(s), DownloadBinary(s)} BY <1>1 DEF Needs
  <2>3. l \in Needs(d) /\ r \in Needs(d) BY <1>4, <1>6, <2>1
  <2>4. QED BY <1>4, <1>5, <2>2, <2>3
<1>8. /\ Install(s) \in DOMAIN tree /\ Install(s) # Root /\ Dependent(Install(s))
      /\ Install(s) \in Results
  <2>1. Install(s) \in DOMAIN tree BY <1>4, DependentsMember
  <2>2. QED BY <1>5, <2>1, RootFacts DEF Dependent, Prim, Results
<1>9. /\ HasBuild(s) /\ \A v \in tree[Install(s)] : IsDecision(v) => v = d
  <2>1. Needs(Install(s)) = Wants(s, "install") \cup {IF HasBuild(s) THEN d ELSE DownloadBinary(s)}
    BY <1>5 DEF Needs, HasBuild, BuildDecision
  <2>2. \A v \in tree[Install(s)] : v \in Needs(Install(s)) BY <1>5, <1>6, <1>8
  <2>3. \A v \in Wants(s, "install") : ~IsDecision(v) BY <1>5, <1>8, WantsFacts
  <2>4. ~IsDecision(DownloadBinary(s)) BY <1>5 DEF IsDecision
  <2>5. d \in tree[Install(s)] BY <1>4, DependentsMember
  <2>6. QED BY <1>1, <2>1, <2>2, <2>3, <2>4, <2>5
<1>10. ASSUME NEW c \in {Build(s), DownloadBinary(s)}, c = Build(s) => Def[s].package
       PROVE  Parents(c) = {d}
  <2>1. c.kind \in {"build", "download_bin"} /\ IsPlain(c) BY <1>5, RootFacts DEF IsPlain, IsDecision, Late, IsUpload
  <2>2. d \in Parents(c)
    BY <1>1, <1>4, <1>7, DependentsMember DEF Parents, IsUpload
  <2>3. ASSUME NEW v \in Parents(c) PROVE v = d
    <3>1. v \in DOMAIN tree /\ c \in tree[v] /\ ~IsUpload(v) BY DependentsMember DEF Parents
    <3>2. v # Root
      <4> SUFFICES ASSUME v = Root PROVE FALSE OBVIOUS
      <4>1. PICK n \in Spec, k \in Prim : c = TargetOf(n, k) BY <2>1, <3>1 DEF EdgesRight
      <4>2. c.kind = "build" /\ c.spec = n /\ ~Def[n].package BY <2>1, <4>1, TargetFacts DEF Prim
      <4>3. QED BY <1>5, <1>10, <4>2, TargetFacts
    <3>3. c \in Needs(v) BY <1>6, <2>1, <3>1, <3>2
    <3>4. ~Dependent(v)
      <4> SUFFICES ASSUME Dependent(v) PROVE FALSE OBVIOUS
      <4>1. v \in Results BY <3>1 DEF HonourOK
      <4>2. c \notin Wants(v.spec, v.kind) BY <1>10, <4>1, WantsFacts
      <4>3. v.kind # "source"
        <5>1. \A x : Checkout(x).kind = "checkout" BY UidFacts DEF Checkout
        <5>2. QED BY <2>1, <3>3, <4>2, <5>1 DEF Needs
      <4>4. v.kind = "install" BY <3>3, <4>2, <4>3 DEF Needs, Dependent, Prim
      <4>5. c = IF HasBuild(v.spec) THEN DecisionBelow(v) ELSE DownloadBinary(v.spec)
        BY <3>3, <4>2, <4>4 DEF Needs, HasBuild
      <4>6. v = Install(v.spec)
        BY <4>1, <4>4, UidFacts DEF Results, Build, Install, Test, CreateSources, CreateSource
      <4>7. HasBuild(v.spec) => IsDecision(c) BY <4>5, <4>6, BelowFacts
      <4>8. ~HasBuild(v.spec) /\ c = DownloadBinary(v.spec) BY <2>1, <4>5, <4>7, KindsApart
      <4>9. c.kind = "download_bin" /\ c.spec = v.spec BY <4>8, UidFacts DEF DownloadBinary
      <4>10. c.spec = s BY TargetFacts, UidFacts DEF DownloadBinary
      <4>11. QED BY <1>9, <4>8, <4>9, <4>10
    <3>5. v.kind = "build_or_download"
      <4>1. /\ \A x, y : CreateSource(x, y).kind = "source"
            /\ \A x : GetSource(x).kind = "source_get" /\ DownloadSource(x).kind = "download"
            /\ \A x : UploadComponent(x).kind = "upload_bin"
        BY UidFacts DEF CreateSource, GetSource, DownloadSource, UploadComponent
      <4>2. v.kind \notin {"build", "test", "install", "source", "upload_bin", "upload_src"}
        BY <3>1, <3>4 DEF Dependent, Prim, IsUpload
      <4>3. v.kind # "source_get"
        <5> SUFFICES ASSUME v.kind = "source_get" PROVE FALSE OBVIOUS
        <5>1. c = DownloadSource(v.item) \/ c = DecisionBelow(v) BY <3>3 DEF Needs
        <5>2. c = DecisionBelow(v) BY <2>1, <4>1, <5>1
        <5>3. PICK k \in {"build", "download_bin"} : c = Uid(k, s, NoItem)
          BY DEF Build, DownloadBinary
        <5>4. QED BY <5>2, <5>3, DecisionBelowGet
      <4>4. v.kind \notin {"sources", "create_or_download", "check_virus", "source_install"}
        <5>1. v.kind = "sources" => c.kind = "source" BY <3>3, <4>1 DEF Needs
        <5>2. v.kind = "create_or_download" => c.kind \in {"source", "download"}
          BY <3>3, <4>1 DEF Needs
        <5>3. v.kind = "check_virus" => c.kind = "upload_bin" BY <3>3, <4>1 DEF Needs
        <5>4. v.kind = "source_install" => c.kind = "source_get" BY <3>3, <4>1 DEF Needs
        <5>5. QED BY <2>1, <5>1, <5>2, <5>3, <5>4
      <4>5. QED BY <3>3, <4>2, <4>3, <4>4 DEF Needs
    <3>6. v.spec = s
      <4>1. c \in {Build(v.spec), DownloadBinary(v.spec)} BY <3>3, <3>5 DEF Needs
      <4>2. c.spec = v.spec BY <4>1, TargetFacts, UidFacts DEF DownloadBinary
      <4>3. c.spec = s BY TargetFacts, UidFacts DEF DownloadBinary
      <4>4. QED BY <4>2, <4>3
    <3>7. v \in tree[Install(s)]
      <4>1. DecisionOK(v) BY <3>1, <3>5 DEF PlannedTree, IsDecision
      <4>2. Install(s) \in Dependents(tree, v) BY <3>5, <3>6, <4>1 DEF DecisionOK
      <4>3. QED BY <4>2, DependentsMember
    <3>8. QED BY <1>9, <3>5, <3>7 DEF IsDecision
  <2>4. QED BY <2>2, <2>3
<1>11. QED BY <1>3, <1>4, <1>5, <1>7, <1>10

\* The plan has chosen the side of a decision that is met.
LEMMA ChosenSide ==
  ASSUME ScheduleInv, pc = "scheduled", NEW d \in DOMAIN tree, d.kind = "build_or_download",
         decisions[d].initiator \in DOMAIN dag,
         NEW c \in {decisions[d].left, decisions[d].right}, Parents(c) = {d}
  PROVE  /\ PlanChoice(decisions[d]) # {}
         /\ PlanChoice(decisions[d]) = {c} => c \in DOMAIN dag
<1>1. /\ PlannedTree /\ VoicesOK /\ DagOK /\ DecidedOK
      /\ Seen = DOMAIN tree /\ Handled = DOMAIN tree
  BY ScheduledFacts
<1>2. IsDecision(d) BY DEF IsDecision
<1>3. /\ c \in DOMAIN tree /\ IsPlain(c) /\ DecisionDriven(c) /\ DecisionOf(c) = decisions[d]
  BY <1>1, <1>2, SidesFacts
<1>4. c.kind \in {"build", "download_bin"} BY <1>1, <1>2 DEF PlannedTree, DecisionOK
<1>5. Resolve(c) = {} BY <1>4 DEF Resolve
<1>6. GetDecision(decisions[d]) # {} BY <1>1, <1>3, <1>5 DEF DecidedOK, Undecided
<1>7. GetDecision(decisions[d]) = PlanChoice(decisions[d]) BY <1>1, <1>2, <1>6 DEF VoicesOK
<1>8. ASSUME PlanChoice(decisions[d]) = {c} PROVE c \in DOMAIN dag
  <2>1. Wanted(c) BY <1>3, <1>8 DEF Wanted
  <2>2. QED BY <1>1, <1>3, <2>1 DEF DagOK
<1>9. QED BY <1>6, <1>7, <1>8

LEMMA PlanChoiceFacts ==
  ASSUME NEW d, PlanChoice(d) # {}
  PROVE  /\ d.choice \in {RIGHT, BOTH} => PlanChoice(d) = {d.right}
         /\ \A t \in d.triggers : t[1] \in DOMAIN dag /\ t[2] = LEFT => PlanChoice(d) = {d.left}
<1>1. PICK V : V = {t[2] : t \in {t \in d.triggers : t[1] \in DOMAIN dag}} OBVIOUS
<1>2. /\ d.choice \in {LEFT, RIGHT} /\ V \subseteq {d.choice}
      /\ PlanChoice(d) = {IF d.choice = LEFT THEN d.left ELSE d.right}
  BY <1>1 DEF PlanChoice
<1>3. LEFT # RIGHT /\ BOTH # LEFT /\ BOTH # RIGHT BY DEF LEFT, RIGHT, BOTH
<1>4. \A t \in d.triggers : t[1] \in DOMAIN dag => t[2] \in V BY <1>1
<1>5. QED BY <1>2, <1>3, <1>4

LEMMA HonouredOnceScheduled == PlanInv /\ ScheduleInv /\ HonourInv => DependenciesHonoured
<1> SUFFICES ASSUME PlanInv, ScheduleInv, HonourInv, pc = "scheduled", NEW u \in DOMAIN dag,
                    Dependent(u), NEW e \in ToSet(Def[u.spec].deps[u.kind])
             PROVE  /\ e.kind = "build" => Build(e.name) \in DOMAIN dag
                    /\ e.kind = "download" => DownloadBinary(e.name) \in DOMAIN dag
  BY DEF DependenciesHonoured, Dependent, Prim
<1>1. /\ PlannedTree /\ DagOK /\ Handled = DOMAIN tree /\ NeedsScheduled
  BY ScheduledFacts, NeededOnceScheduled
<1>2. EdgesRight /\ GetsOK /\ HonourOK /\ ~InCircle /\ todo = <<>> BY DEF HonourInv, PlanInv
<1>3. u \in DOMAIN tree /\ u \in Results BY <1>1, <1>2 DEF DagOK, HonourOK
<1>4. e \in DepType /\ IsPlain(u) BY <1>3, DependentFacts
<1>5. PICK s \in Spec : s = e.name BY <1>4 DEF DepType
<1>6. \A i \in 1..Len(todo) : FALSE
  <2>1. Len(todo) = 0 /\ 1..0 = {} BY <1>2
  <2>2. QED BY <2>1
<1>7. Honoured(u, e) BY <1>2, <1>3, <1>6 DEF HonourOK, DependencyPending
<1>8. ASSUME NEW v \in DOMAIN dag, v # Root, NEW p \in tree[v], ~IsDecision(p)
      PROVE  p \in DOMAIN dag
  BY <1>1, <1>8 DEF NeedsScheduled, DagOK
<1>9. PICK d : d = BuildDecision(s) OBVIOUS
<1>10. d.kind = "build_or_download" BY <1>9, TargetFacts
<1>11. ASSUME e.kind = "build" PROVE Build(s) \in DOMAIN dag
  <2>1. TargetOf(s, "build") \in tree[u] BY <1>5, <1>7, <1>11 DEF Honoured
  <2>2. TargetOf(s, "build") \in DOMAIN dag
    <3>1. ~IsDecision(TargetOf(s, "build")) BY TargetFacts DEF IsDecision
    <3>2. u # Root BY <1>4, KindsApart
    <3>3. QED BY <1>8, <2>1, <3>1, <3>2
  <2>3. CASE ~Def[s].package BY <2>2, <2>3, TargetFacts
  <2>4. CASE Def[s].package
    <3>1. Install(s) \in DOMAIN dag BY <2>2, <2>4, TargetFacts
    <3>2. d \in DOMAIN tree /\ <<u, LEFT>> \in decisions[d].triggers
      BY <1>5, <1>7, <1>9, <1>11, <2>4 DEF Honoured
    <3>3. /\ decisions[d].initiator = Install(s) /\ decisions[d].left = Build(s)
          /\ Parents(Build(s)) = {d}
      BY <1>1, <1>2, <1>9, <2>4, <3>2, BinaryDecision
    <3>4. /\ PlanChoice(decisions[d]) # {}
          /\ PlanChoice(decisions[d]) = {Build(s)} => Build(s) \in DOMAIN dag
      BY <1>10, <3>1, <3>2, <3>3, ChosenSide
    <3>5. PlanChoice(decisions[d]) = {decisions[d].left}
      <4>1. PICK t : t = <<u, LEFT>> OBVIOUS
      <4>2. t[1] = u /\ t[2] = LEFT BY <4>1
      <4>3. QED BY <3>2, <3>4, <4>1, <4>2, PlanChoiceFacts
    <3>6. QED BY <3>3, <3>4, <3>5
  <2>5. QED BY <2>3, <2>4
<1>12. ASSUME e.kind = "download" PROVE DownloadBinary(s) \in DOMAIN dag
  <2>1. Install(s) \in tree[u] BY <1>5, <1>7, <1>12, TargetFacts DEF Honoured
  <2>2. Install(s) \in DOMAIN dag
    <3>1. ~IsDecision(Install(s)) BY TargetFacts DEF IsDecision
    <3>2. u # Root BY <1>4, KindsApart
    <3>3. QED BY <1>8, <2>1, <3>1, <3>2
  <2>3. CASE HasBuild(s)
    <3>1. d \in DOMAIN tree /\ decisions[d].choice \in {RIGHT, BOTH}
      BY <1>5, <1>7, <1>9, <1>12, <2>3 DEF Honoured, Told
    <3>2. /\ decisions[d].initiator = Install(s) /\ decisions[d].right = DownloadBinary(s)
          /\ Parents(DownloadBinary(s)) = {d}
      BY <1>1, <1>2, <1>9, <3>1, BinaryDecision
    <3>3. /\ PlanChoice(decisions[d]) # {}
          /\ PlanChoice(decisions[d]) = {DownloadBinary(s)} => DownloadBinary(s) \in DOMAIN dag
      BY <1>10, <2>2, <3>1, <3>2, ChosenSide
    <3>4. PlanChoice(decisions[d]) = {decisions[d].right} BY <3>1, <3>3, PlanChoiceFacts
    <3>5. QED BY <3>2, <3>3, <3>4
  <2>4. CASE ~HasBuild(s)
    <3>1. Install(s) \in DOMAIN tree BY <1>1, <2>2 DEF DagOK
    <3>2. DownloadBinary(s) \in tree[Install(s)] BY <1>2, <2>4, <3>1 DEF GetsOK
    <3>3. ~IsDecision(DownloadBinary(s)) BY UidFacts DEF DownloadBinary, IsDecision
    <3>4. Install(s) # Root BY TargetFacts, RootFacts
    <3>5. QED BY <1>8, <2>2, <3>2, <3>3, <3>4
  <2>5. QED BY <2>3, <2>4
<1>13. QED BY <1>5, <1>11, <1>12

\* A scheduled action that depends on the build tree of a packaged spec comes
\* with its build, and one that depends on its download with the download,
\* whatever the lines and the schedules before: add_dep tells the decision
\* below the install, now or when it is added.  It looks for that decision in
\* the first predecessor, hence the premise.
THEOREM DependenciesHonouredHolds ==
  ASSUME DecisionsFirst PROVE PlanSpec => []DependenciesHonoured
<1>1. ContextInit => HonourInv /\ TreeFinite
  <2>1. ContextInit => TreeFinite BY FewFinite DEF ContextInit, ScheduleInit, TreeFinite
  <2>2. QED BY <2>1, HonourInitially
<1>2. (HonourInv /\ TreeFinite) /\ (PlanInv /\ ScheduleInv) /\ [Next]_vars => (HonourInv /\ TreeFinite)'
  BY HonourInvStep, FiniteStep
<1>3. HonourInv /\ PlanInv /\ ScheduleInv => DependenciesHonoured BY HonouredOnceScheduled
<1>4. QED BY <1>1, <1>2, <1>3, PlanInvHolds, PTL DEF PlanSpec

=============================================================================
