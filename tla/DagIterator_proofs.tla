------------------------ MODULE DagIterator_proofs -------------------------
(***************************************************************************)
(* Theorems about DagIterator, for every finite set of vertices and every  *)
(* graph over it.                                                          *)
(*                                                                         *)
(* The counters are the heart of the argument: CountsExact turns the test  *)
(* pred_number[v] = 0 of next_element into "every predecessor is VISITED". *)
(* It needs the type invariant only.  TopologicalOrder follows from it.    *)
(* The verdict on cycles needs one more fact, ReturnedAcyclic: no cycle    *)
(* can hide among the vertices already returned, because a vertex is       *)
(* returned after all of its predecessors.                                 *)
(***************************************************************************)
EXTENDS DagIterator, FiniteSetTheorems, WellFoundedInduction, TLAPS

\* The predecessors v still waits for.
Waiting(v) == {p \in dag[v] : states[p] # VISITED}

\* A vertex not returned yet is NOT_VISITED, and conversely.
NonVisitedExact ==
  \A v \in Vertex : v \in non_visited <=> states[v] = NOT_VISITED

\* No cycle hides among the vertices already returned.
ReturnedAcyclic == AcyclicOn(dag, Vertex \ non_visited)

\* The inductive invariant.
IterInv ==
  /\ IterTypeOK
  /\ NonVisitedExact
  /\ CountsExact
  /\ TopologicalOrder
  /\ ReturnedAcyclic

----------------------------------------------------------------------------

LEMMA StatesDiffer == /\ NOT_VISITED # BUSY
                      /\ NOT_VISITED # VISITED
                      /\ BUSY # VISITED
BY DEF NOT_VISITED, BUSY, VISITED

LEMMA WaitingFinite ==
  ASSUME IterTypeOK, NEW v \in Vertex
  PROVE  /\ IsFiniteSet(Waiting(v))
         /\ Cardinality(Waiting(v)) \in Nat
         /\ Cardinality(Waiting(v)) = 0 <=> Waiting(v) = {}
<1>1. Waiting(v) \in SUBSET Vertex
  BY DEF Waiting, IterTypeOK
<1>2. IsFiniteSet(Waiting(v))
  BY <1>1, VertexAssumption, FS_Subset
<1>3. QED
  BY <1>2, FS_CardinalityType, FS_EmptySet

\* A ready vertex has only VISITED predecessors.
LEMMA ReadyMeansVisited ==
  ASSUME IterTypeOK, CountsExact, NEW v \in Ready
  PROVE  /\ v \in Vertex
         /\ \A p \in dag[v] : states[p] = VISITED
<1>1. v \in Vertex /\ pred_number[v] = 0
  BY DEF Ready, IterTypeOK
<1>2. Waiting(v) = {}
  BY <1>1, WaitingFinite DEF CountsExact, Waiting
<1>3. QED
  BY <1>1, <1>2 DEF Waiting

LEMMA IterInitInv == IterInit => IterInv
<1> SUFFICES ASSUME IterInit PROVE IterInv
  OBVIOUS
<1> USE DEF IterInit
<1>1. dag \in [Vertex -> SUBSET Vertex]
  BY GraphsAssumption
<1>2. \A v \in Vertex : IsFiniteSet(dag[v]) /\ Cardinality(dag[v]) \in Nat
  BY <1>1, VertexAssumption, FS_Subset, FS_CardinalityType
<1>3. IterTypeOK
  BY <1>1, <1>2 DEF IterTypeOK
<1>4. NonVisitedExact
  BY DEF NonVisitedExact
<1>5. CountsExact
  <2>1. ASSUME NEW v \in Vertex
        PROVE  dag[v] = {p \in dag[v] : states[p] # VISITED}
    BY <1>1, StatesDiffer
  <2>2. QED
    BY <2>1 DEF CountsExact
<1>6. TopologicalOrder
  BY DEF TopologicalOrder
<1>7. ReturnedAcyclic
  BY DEF ReturnedAcyclic, AcyclicOn
<1>8. QED
  BY <1>3, <1>4, <1>5, <1>6, <1>7 DEF IterInv

\* Returning a vertex whose predecessors are all VISITED closes no cycle: no
\* vertex returned before can have it among its predecessors.
LEMMA ReturningKeepsAcyclic ==
  ASSUME IterInv, NEW v \in non_visited, \A p \in dag[v] : states[p] = VISITED
  PROVE  AcyclicOn(dag, Vertex \ (non_visited \ {v}))
<1> DEFINE Old == Vertex \ non_visited
           New == Vertex \ (non_visited \ {v})
<1> SUFFICES ASSUME NEW T \in SUBSET New, T # {}
             PROVE  \E w \in T : dag[w] \cap T = {}
  BY DEF AcyclicOn
<1>1. v \in Vertex /\ states[v] # VISITED
  BY StatesDiffer DEF IterInv, IterTypeOK, NonVisitedExact
<1>2. \A w \in Old : v \notin dag[w]
  BY <1>1 DEF IterInv, NonVisitedExact, TopologicalOrder
<1>3. v \notin dag[v]
  BY <1>1
<1>4. CASE T = {v}
  BY <1>3, <1>4
<1>5. CASE T # {v}
  <2>1. T \ {v} \in (SUBSET Old) \ {{}}
    BY <1>5
  <2>2. PICK w \in T \ {v} : dag[w] \cap (T \ {v}) = {}
    BY <2>1 DEF IterInv, ReturnedAcyclic, AcyclicOn
  <2>3. dag[w] \cap T = {}
    BY <1>2, <2>1, <2>2
  <2>4. QED
    BY <2>3
<1>6. QED
  BY <1>4, <1>5

\* What marking v as VISITED does to the counters: whoever was waiting for
\* v waits for one predecessor less.
LEMMA MarkVisitedCounts ==
  ASSUME IterTypeOK, CountsExact, NEW v \in Vertex, states[v] # VISITED,
         MarkVisited(v), dag' = dag
  PROVE  CountsExact'
<1> SUFFICES ASSUME NEW w \in Vertex
             PROVE  pred_number'[w] = Cardinality(Waiting(w)')
  BY DEF CountsExact, Waiting
<1>1. Waiting(w)' = Waiting(w) \ {v}
  BY DEF Waiting, MarkVisited, IterTypeOK, VISITED
<1>2. v \in Waiting(w) <=> v \in dag[w]
  BY DEF Waiting
<1>3. /\ IsFiniteSet(Waiting(w))
      /\ Cardinality(Waiting(w)) \in Nat
  BY WaitingFinite
<1>4. Cardinality(Waiting(w) \ {v}) =
        IF v \in Waiting(w) THEN Cardinality(Waiting(w)) - 1
                            ELSE Cardinality(Waiting(w))
  BY <1>3, FS_RemoveElement
<1>5. pred_number[w] = Cardinality(Waiting(w))
  BY DEF CountsExact, Waiting
<1>6. pred_number'[w] = pred_number[w] - (IF v \in dag[w] THEN 1 ELSE 0)
  BY DEF MarkVisited
<1>7. QED
  BY <1>1, <1>2, <1>3, <1>4, <1>5, <1>6

\* Exact counters are naturals.
LEMMA CountsNaturalNext ==
  ASSUME dag' \in [Vertex -> SUBSET Vertex], CountsExact', NEW v \in Vertex
  PROVE  pred_number'[v] \in Nat
<1>1. IsFiniteSet({p \in dag'[v] : states'[p] # VISITED})
  <2>1. {p \in dag'[v] : states'[p] # VISITED} \subseteq Vertex
    OBVIOUS
  <2>2. QED
    BY <2>1, VertexAssumption, FS_Subset
<1>2. QED
  BY <1>1, FS_CardinalityType DEF CountsExact

LEMMA NextVisitedInv ==
  ASSUME IterInv, NEW v \in Vertex, NextVisited(v)
  PROVE  IterInv'
<1> USE DEF NextVisited
<1>1. v \in non_visited /\ states[v] = NOT_VISITED /\ \A p \in dag[v] : states[p] = VISITED
  BY ReadyMeansVisited DEF Ready, IterInv, NonVisitedExact
<1>2. CountsExact'
  BY <1>1, StatesDiffer, MarkVisitedCounts DEF IterInv
<1>3. IterTypeOK'
  BY <1>2, CountsNaturalNext DEF IterTypeOK, IterInv, MarkVisited
<1>4. NonVisitedExact'
  BY <1>1, StatesDiffer DEF NonVisitedExact, IterInv, IterTypeOK, MarkVisited
<1>5. TopologicalOrder'
  BY <1>1 DEF TopologicalOrder, IterInv, IterTypeOK, MarkVisited
<1>6. ReturnedAcyclic'
  BY <1>1, ReturningKeepsAcyclic DEF ReturnedAcyclic, AcyclicOn
<1>7. QED
  BY <1>6, <1>2, <1>3, <1>4, <1>5 DEF IterInv

LEMMA NextBusyInv ==
  ASSUME IterInv, NEW v \in Vertex, NextBusy(v)
  PROVE  IterInv'
<1> USE DEF NextBusy
<1>1. v \in non_visited /\ states[v] = NOT_VISITED /\ \A p \in dag[v] : states[p] = VISITED
  BY ReadyMeansVisited DEF Ready, IterInv, NonVisitedExact
<1>2. \A p \in Vertex : states'[p] = VISITED <=> states[p] = VISITED
  BY <1>1, StatesDiffer DEF IterInv, IterTypeOK
<1>3. CountsExact'
  <2>1. ASSUME NEW w \in Vertex PROVE Waiting(w)' = Waiting(w)
    BY <1>2 DEF Waiting, IterInv, IterTypeOK
  <2>2. QED
    BY <2>1 DEF CountsExact, IterInv, Waiting
<1>4. IterTypeOK'
  BY DEF IterTypeOK, IterInv
<1>5. NonVisitedExact'
  BY <1>1, StatesDiffer DEF NonVisitedExact, IterInv, IterTypeOK
<1>6. TopologicalOrder'
  BY <1>1, <1>2, StatesDiffer DEF TopologicalOrder, IterInv, IterTypeOK
<1>7. ReturnedAcyclic'
  BY <1>1, ReturningKeepsAcyclic DEF ReturnedAcyclic, AcyclicOn
<1>8. QED
  BY <1>7, <1>3, <1>4, <1>5, <1>6 DEF IterInv

LEMMA LeaveInv ==
  ASSUME IterInv, NEW v \in Vertex, Leave(v)
  PROVE  IterInv'
<1> USE DEF Leave
<1>1. CountsExact'
  BY StatesDiffer, MarkVisitedCounts DEF IterInv
<1>2. IterTypeOK'
  BY <1>1, CountsNaturalNext DEF IterTypeOK, IterInv, MarkVisited
<1>3. NonVisitedExact'
  BY StatesDiffer DEF NonVisitedExact, IterInv, IterTypeOK, MarkVisited
<1>4. TopologicalOrder'
  BY StatesDiffer DEF TopologicalOrder, IterInv, IterTypeOK, MarkVisited
<1>5. ReturnedAcyclic'
  BY DEF IterInv, ReturnedAcyclic, AcyclicOn
<1>6. QED
  BY <1>1, <1>2, <1>3, <1>4, <1>5 DEF IterInv

LEMMA StutterInv ==
  ASSUME IterInv, UNCHANGED iterVars
  PROVE  IterInv'
BY DEF iterVars, IterInv, IterTypeOK, NonVisitedExact, CountsExact, TopologicalOrder,
       ReturnedAcyclic, AcyclicOn

LEMMA PlainInv == PlainSpec => []IterInv
<1>1. IterInv /\ [PlainNext]_iterVars => IterInv'
  BY NextVisitedInv, StutterInv DEF PlainNext
<1>2. QED
  BY <1>1, IterInitInv, PTL DEF PlainSpec

LEMMA BusyInv == BusySpec => []IterInv
<1>1. IterInv /\ [BusyNext]_iterVars => IterInv'
  BY NextBusyInv, LeaveInv, StutterInv DEF BusyNext
<1>2. QED
  BY <1>1, IterInitInv, PTL DEF BusySpec

----------------------------------------------------------------------------

\* The type invariant of the iterator with busy states.
THEOREM BusyTypeCorrect == BusySpec => []IterTypeOK
<1>1. IterInv => IterTypeOK
  BY DEF IterInv
<1>2. QED
  BY <1>1, BusyInv, PTL

\* The counters stay exact: next_element() and leave() never lose or repeat
\* a decrement, in whatever order the BUSY vertices are left.
THEOREM BusyCountsExact == BusySpec => []CountsExact
<1>1. IterInv => CountsExact
  BY DEF IterInv
<1>2. QED
  BY <1>1, BusyInv, PTL

\* next_element() with busy states returns the vertices in topological order.
THEOREM BusyTopologicalOrder == BusySpec => []TopologicalOrder
<1>1. IterInv => TopologicalOrder
  BY DEF IterInv
<1>2. QED
  BY <1>1, BusyInv, PTL

LEMMA CycleVerdict ==
  ASSUME IterInv
  PROVE  CycleVerdictExact
<1>1. ASSUME CycleDetected, Acyclic(dag)
      PROVE  FALSE
  <2>1. non_visited \in (SUBSET Vertex) \ {{}}
    BY <1>1 DEF CycleDetected, NoneReady, IterInv, IterTypeOK
  <2>2. PICK v \in non_visited : dag[v] \cap non_visited = {}
    BY <1>1, <2>1 DEF Acyclic, AcyclicOn
  <2>3. v \in Vertex
    BY <2>1
  <2>4. \A p \in dag[v] : states[p] = VISITED
    BY <1>1, <2>2, <2>3 DEF CycleDetected, IterInv, IterTypeOK, NonVisitedExact
  <2>5. Waiting(v) = {}
    BY <2>4 DEF Waiting
  <2>6. pred_number[v] = 0
    BY <2>3, <2>5, FS_EmptySet DEF IterInv, CountsExact, Waiting
  <2>7. QED
    BY <1>1, <2>6 DEF CycleDetected, NoneReady, Ready
<1>2. ASSUME Exhausted
      PROVE  Acyclic(dag)
  BY <1>2 DEF Exhausted, Acyclic, IterInv, ReturnedAcyclic
<1>3. QED
  BY <1>1, <1>2 DEF CycleVerdictExact

\* DAG.check is right about cycles: the plain iteration gets stuck on graphs
\* with a cycle only, and gets to the end on graphs without cycle only.
THEOREM PlainCycleVerdict == PlainSpec => []CycleVerdictExact
<1>1. IterInv => CycleVerdictExact
  BY CycleVerdict
<1>2. QED
  BY <1>1, PlainInv, PTL

(* The predecessors of a vertex are its ancestors, and their ancestors too. *)
LEMMA AncestorsOfPredecessor ==
  ASSUME NEW g \in [Vertex -> SUBSET Vertex], NEW v \in Vertex, NEW p \in g[v]
  PROVE  p \in Ancestors(g, v) /\ Ancestors(g, p) \subseteq Ancestors(g, v)
<1>1. p \in Ancestors(g, v)
  BY DEF Ancestors
<1>2. ASSUME NEW a \in Ancestors(g, p)
      PROVE  a \in Ancestors(g, v)
  <2>1. SUFFICES ASSUME NEW S \in SUBSET Vertex,
                        g[v] \cup UNION {g[s] : s \in S} \subseteq S
                 PROVE  a \in S
    BY <1>2 DEF Ancestors
  <2>2. p \in S
    BY <2>1
  <2>3. g[p] \cup UNION {g[s] : s \in S} \subseteq S
    BY <2>1, <2>2
  <2>4. QED
    BY <1>2, <2>3 DEF Ancestors
<1>3. QED
  BY <1>1, <1>2

(* Where every vertex of T has a predecessor in T, one of T is its own      *)
(* ancestor: any whose ancestors in T are fewest.                           *)
LEMMA OwnAncestor ==
  ASSUME NEW g \in [Vertex -> SUBSET Vertex],
         NEW T \in SUBSET Vertex, T # {},
         \A v \in T : g[v] \cap T # {}
  PROVE  \E v \in T : v \in Ancestors(g, v)
<1> DEFINE In(v) == Ancestors(g, v) \cap T
<1> DEFINE Family == {In(v) : v \in T}
<1>1. Family \subseteq FiniteSubsetsOf(T) /\ Family # {}
  <2>1. IsFiniteSet(T)
    BY VertexAssumption, FS_Subset
  <2>2. \A v \in T : In(v) \in SUBSET T
    OBVIOUS
  <2> HIDE DEF In
  <2>3. Family \subseteq SUBSET T
    BY <2>2
  <2>4. FiniteSubsetsOf(T) = SUBSET T
    BY <2>1, FS_FiniteSubsetsOfFinite
  <2>5. QED
    BY <2>3, <2>4
<1>2. \E A \in Family : \A B \in Family : <<B, A>> \notin StrictSubsetOrdering(T)
  <2> HIDE DEF Family
  <2>1. IsWellFoundedOn(StrictSubsetOrdering(T), FiniteSubsetsOf(T))
    BY FS_StrictSubsetOrderingWellFounded
  <2>2. QED
    BY <1>1, <2>1, WFMin
<1>3. PICK v \in T : \A w \in T : <<In(w), In(v)>> \notin StrictSubsetOrdering(T)
  BY <1>2
<1>4. PICK p \in T : p \in g[v]
  OBVIOUS
<1>5. p \in In(v) /\ In(p) \subseteq In(v)
  BY <1>4, AncestorsOfPredecessor
<1>6. In(p) = In(v)
  BY <1>3, <1>5 DEF StrictSubsetOrdering
<1>7. QED
  BY <1>5, <1>6

\* When the plain iteration gets stuck the search for a minimal cycle that
\* follows has a vertex to find: one that is its own ancestor.
LEMMA CycleIsThere ==
  ASSUME IterInv
  PROVE  CycleFound
<1> SUFFICES ASSUME CycleDetected
             PROVE  \E v \in non_visited : v \in Ancestors(dag, v)
  BY DEF CycleFound
<1>1. non_visited \in SUBSET Vertex /\ non_visited # {}
  BY DEF CycleDetected, NoneReady, IterInv, IterTypeOK
<1>2. ASSUME NEW v \in non_visited, dag[v] \cap non_visited = {}
      PROVE  FALSE
  <2>1. v \in Vertex
    BY <1>1
  <2>2. \A p \in dag[v] : states[p] = VISITED
    BY <1>2, <2>1 DEF CycleDetected, IterInv, IterTypeOK, NonVisitedExact
  <2>3. Waiting(v) = {}
    BY <2>2 DEF Waiting
  <2>4. pred_number[v] = 0
    BY <2>1, <2>3, FS_EmptySet DEF IterInv, CountsExact, Waiting
  <2>5. QED
    BY <2>4 DEF CycleDetected, NoneReady, Ready
<1>3. QED
  BY <1>1, <1>2, OwnAncestor DEF IterInv, IterTypeOK

\* DAG.check diagnoses cycles rightly: it raises for graphs with a cycle and
\* for no other, and then always has a cycle to print.
THEOREM CycleDiagnosedHolds == PlainSpec => []CycleDiagnosed
<1>1. IterInv => CycleDiagnosed
  BY CycleVerdict, CycleIsThere DEF CycleDiagnosed
<1>2. QED
  BY <1>1, PlainInv, PTL

\* On an acyclic graph the iteration with busy states is never stuck: when
\* no vertex is ready, some vertex is BUSY and will be left.
THEOREM BusyNeverStuck == BusySpec => []NeverStuck
<1>1. IterInv => NeverStuck
  <2> SUFFICES ASSUME IterInv, Acyclic(dag), NoneReady
               PROVE  \E v \in Vertex : states[v] = BUSY
    BY DEF NeverStuck
  <2>1. ~CycleDetected
    BY CycleVerdict DEF CycleVerdictExact
  <2>2. QED
    BY <2>1 DEF CycleDetected
<1>2. QED
  BY <1>1, BusyInv, PTL

=============================================================================
