-------------------------- MODULE Sandbox_proofs ---------------------------
(***************************************************************************)
(* Theorems about what works on a sandbox: Walk, Electrolyt, Checkouts,    *)
(* Events and PyPIClosure, for every finite or infinite set of actions and *)
(* every graph over it, any repositories, files, handlers, servers,        *)
(* recipients and registries, and any series of calls that fail, crash or  *)
(* are interrupted.                                                        *)
(*                                                                         *)
(* Walk: a fingerprint on disk is the content of the output, as long as no *)
(* predecessor is untracked, because it is erased before the output may    *)
(* change and saved after.  So a job that is skipped has the output its    *)
(* prediction says, and the prediction is made of fingerprints that are    *)
(* right already.                                                          *)
(*                                                                         *)
(* Electrolyt: when the predecessors of an action have succeeded all that  *)
(* is above it has, as that is so for each of them.  A revision is where   *)
(* the actions that succeeded have brought it, from the repository to the  *)
(* installed sources.                                                      *)
(*                                                                         *)
(* Checkouts: HEAD and .svn tell the truth of the directory between two    *)
(* calls, so what is compared with them at the end of update is right.     *)
(*                                                                         *)
(* Events: a handler that is called has what it has gone through.          *)
(*                                                                         *)
(* PyPIClosure: the identifiers that are pinned are those that every set   *)
(* has which is closed under what is required; when nothing is left to pin *)
(* that is what is needed with the pins installed.                         *)
(***************************************************************************)
EXTENDS Walk, Electrolyt, Checkouts, Events, PyPIClosure, FiniteSetTheorems, SequenceTheorems, TLAPS

\* No action has an untracked one two steps before it.  Where one has, its own
\* predecessor is executed although its fingerprint stays the same, and the
\* action is skipped.
UntrackedNear ==
  \A c \in Campaigns : \A u \in Vertex : \A p \in c.dag[u] :
    c.dag[p] \cap c.untracked = {}

Content == SUBSET (Vertex \X Version)
Statuses == {"success", "unchanged", "failure", "notready", "skip", "force_fail", NoStatus}

\* The fingerprint of u covers all that its output depends on.
Tracked(u) == u \notin campaign.untracked /\ dag[u] \cap campaign.untracked = {}

----------------------------------------------------------------------------
(* The inductive invariant.                                                *)

WalkTypeOK ==
  /\ campaign \in Campaigns /\ dag = campaign.dag
  /\ over \in BOOLEAN
  /\ status \in [Vertex -> {"waiting", "running", "done"}]
  /\ job \in [Vertex -> {"none", "skipped", "created"}]
  /\ result \in [Vertex -> Statuses]
  /\ job_status \in [Vertex -> Statuses]
  /\ executing \in SUBSET Vertex
  /\ source \in [Vertex -> Version]
  /\ prev_fingerprints \in [Vertex -> Content]
  /\ new_fingerprints \in [Vertex -> Content]
  /\ saved \in [Vertex -> Content]
  /\ output \in [Vertex -> Content]
  /\ failure_source \in [Vertex -> SUBSET Vertex]
  /\ untold \in SUBSET Vertex

\* Where a job is, and what its result says of it.
PlaceOK(u) ==
  /\ status[u] # "waiting" => job[u] # "none"
  /\ status[u] = "running" => job[u] = "created"
  /\ u \in executing => status[u] = "running" /\ result[u] = NoStatus
  /\ job[u] = "none" => result[u] = NoStatus
  /\ job[u] = "skipped" => result[u] \in {"skip", "force_fail"}
  /\ job[u] = "created" => result[u] \notin {"skip", "force_fail"}
  /\ job[u] = "skipped" /\ status[u] = "done" => job_status[u] = result[u]

\* A job is made when its predecessors are done, and fails if one of them did.
BeforeOK(u) ==
  /\ job[u] # "none" => \A p \in dag[u] : status[p] = "done"
  /\ job[u] = "created" \/ result[u] = "skip" =>
       \A p \in dag[u] : job_status[p] \in Good

\* The job u is through, with this fingerprint.
PrintOK(u) ==
  status[u] = "done" /\ job_status[u] \in Good =>
    /\ new_fingerprints[u] \subseteq UpToDate(u)
    /\ u \in campaign.untracked => new_fingerprints[u] = NoFingerprint
    /\ Tracked(u) => new_fingerprints[u] = UpToDate(u)

\* What a fingerprint on disk says, whatever the sources are now.
SavedOK(u) ==
  /\ u \notin executing /\ u \notin campaign.untracked
  /\ output[u] # Broken /\ saved[u] \subseteq output[u]
  /\ Tracked(u) => saved[u] = output[u]

\* What the output of u is, when all it is made of was reported as it was.
OutputOK(u) ==
  /\ status[u] = "done" /\ job_status[u] \in Good => output[u] = UpToDate(u)
  /\ result[u] = "skip" => Tracked(u) /\ output[u] = UpToDate(u)
  /\ status[u] = "running" /\ result[u] \in Good => output[u] = UpToDate(u)
  /\ saved[u] # NoFingerprint => SavedOK(u)
  /\ ~over /\ job[u] = "created" /\ status[u] # "done" => saved[u] = NoFingerprint

JobOK(u) == PlaceOK(u) /\ BeforeOK(u) /\ PrintOK(u) /\ (Told(u) => OutputOK(u))

WalkInv ==
  /\ WalkTypeOK
  /\ \A u \in Vertex : JobOK(u)

----------------------------------------------------------------------------
(* What is up to date.                                                     *)

\* The ancestors of u are its predecessors and theirs.
LEMMA AncestorsStep ==
  ASSUME dag \in [Vertex -> SUBSET Vertex], NEW u \in Vertex
  PROVE  Ancestors(u) = dag[u] \cup UNION {Ancestors(p) : p \in dag[u]}
<1> DEFINE A == dag[u] \cup UNION {Ancestors(p) : p \in dag[u]}
<1>1. ASSUME NEW v \in Vertex
      PROVE  /\ dag[v] \subseteq Ancestors(v)
             /\ \A a \in Ancestors(v) : dag[a] \subseteq Ancestors(v)
  BY DEF Ancestors
<1>2. dag[u] \subseteq Vertex
  OBVIOUS
<1>3. A \subseteq Ancestors(u)
  <2>1. ASSUME NEW p \in dag[u] PROVE Ancestors(p) \subseteq Ancestors(u)
    <3>1. dag[p] \cup UNION {dag[s] : s \in Ancestors(u)} \subseteq Ancestors(u)
      BY <1>1, <1>2
    <3>2. Ancestors(u) \in SUBSET Vertex
      BY DEF Ancestors
    <3>3. QED
      BY <3>1, <3>2 DEF Ancestors
  <2>2. QED
    BY <1>1, <2>1
<1>4. Ancestors(u) \subseteq A
  <2>1. \A s \in A : dag[s] \subseteq A
    BY <1>1, <1>2
  <2>2. A \in SUBSET Vertex
    BY <1>2 DEF Ancestors
  <2>3. dag[u] \cup UNION {dag[s] : s \in A} \subseteq A
    BY <2>1
  <2> HIDE DEF A
  <2>4. QED
    BY <2>2, <2>3 DEF Ancestors
<1>5. QED
  BY <1>3, <1>4

\* An output is up to date when it is made of outputs that are.
LEMMA UpToDateStep ==
  ASSUME dag \in [Vertex -> SUBSET Vertex], NEW u \in Vertex
  PROVE  UpToDate(u) = {<<u, source[u]>>} \cup UNION {UpToDate(p) : p \in dag[u]}
<1>1. Ancestors(u) = dag[u] \cup UNION {Ancestors(p) : p \in dag[u]}
  BY AncestorsStep
<1>2. {<<a, source[a]>> : a \in Ancestors(u)} = UNION {UpToDate(p) : p \in dag[u]}
  <2>1. ASSUME NEW p \in dag[u]
        PROVE  UpToDate(p) \subseteq {<<a, source[a]>> : a \in Ancestors(u)}
    BY <1>1 DEF UpToDate
  <2>2. ASSUME NEW a \in Ancestors(u)
        PROVE  \E p \in dag[u] : <<a, source[a]>> \in UpToDate(p)
    <3>1. PICK p \in dag[u] : a = p \/ a \in Ancestors(p)
      BY <1>1
    <3>2. QED
      BY <3>1 DEF UpToDate
  <2>3. QED
    BY <2>1, <2>2
<1>3. QED
  BY <1>2 DEF UpToDate

\* What u depends on was reported as it was, if u was.
LEMMA ToldStep ==
  ASSUME dag \in [Vertex -> SUBSET Vertex], NEW u \in Vertex, Told(u), NEW p \in dag[u]
  PROVE  Told(p)
BY AncestorsStep DEF Told

----------------------------------------------------------------------------
(* Steps.                                                                  *)

LEMMA WalkInvInit == WalkInit => WalkInv
<1> SUFFICES ASSUME WalkInit PROVE WalkInv
  OBVIOUS
<1>1. WalkTypeOK
  BY DEF WalkInit, WalkTypeOK, ForAll, Statuses, NoStatus, NoFingerprint, Broken, Content
<1>2. ASSUME NEW u \in Vertex PROVE JobOK(u)
  BY DEF WalkInit, ForAll, NoStatus, NoFingerprint, Good, JobOK, PlaceOK, BeforeOK, PrintOK,
         OutputOK
<1>3. QED
  BY <1>1, <1>2 DEF WalkInv

LEMMA DagType == WalkInv => dag \in [Vertex -> SUBSET Vertex]
BY WalkAssumption DEF WalkInv, WalkTypeOK, Campaign

\* The fingerprint that is computed when all predecessors went well.
LEMMA ComputeRight ==
  ASSUME WalkInv, UntrackedNear, NEW u \in Vertex,
         \A p \in dag[u] : status[p] = "done" /\ job_status[p] \in Good
  PROVE  LET new == Compute(u, FALSE, new_fingerprints)
         IN  /\ new \in Content /\ new \subseteq UpToDate(u)
             /\ u \in campaign.untracked <=> new = NoFingerprint
             /\ Tracked(u) => new = UpToDate(u)
<1> DEFINE new == Compute(u, FALSE, new_fingerprints)
<1>1. dag[u] \subseteq Vertex
  BY DagType
<1>2. \A p \in dag[u] : PrintOK(p)
  BY <1>1 DEF WalkInv, JobOK
<1>3. UpToDate(u) = {<<u, source[u]>>} \cup UNION {UpToDate(p) : p \in dag[u]}
  BY DagType, UpToDateStep
<1>4. new = IF u \in campaign.untracked THEN {}
            ELSE {<<u, source[u]>>} \cup UNION {new_fingerprints[p] : p \in dag[u]}
  BY DEF Compute, NoFingerprint
<1>5. \A p \in dag[u] : new_fingerprints[p] \subseteq UpToDate(p)
  BY <1>2 DEF PrintOK
<1>6. ASSUME Tracked(u), NEW p \in dag[u] PROVE new_fingerprints[p] = UpToDate(p)
  <2>1. dag[p] \cap campaign.untracked = {}
    BY DEF UntrackedNear, WalkInv, WalkTypeOK
  <2>2. Tracked(p)
    BY <1>6, <2>1 DEF Tracked
  <2>3. QED
    BY <1>2, <2>2 DEF PrintOK
<1>7. new \in Content
  <2>1. \A p \in dag[u] : new_fingerprints[p] \in Content
    BY <1>1 DEF WalkInv, WalkTypeOK
  <2>2. <<u, source[u]>> \in Vertex \X Version
    BY DEF WalkInv, WalkTypeOK
  <2>3. UNION {new_fingerprints[p] : p \in dag[u]} \subseteq Vertex \X Version
    BY <2>1 DEF Content
  <2> HIDE DEF new
  <2>4. new \subseteq Vertex \X Version
    BY <1>4, <2>2, <2>3
  <2>5. QED
    BY <2>4 DEF Content
<1>8. new \subseteq UpToDate(u)
  <2>1. UNION {new_fingerprints[p] : p \in dag[u]} \subseteq UNION {UpToDate(p) : p \in dag[u]}
    BY <1>5
  <2> HIDE DEF new
  <2>2. QED
    BY <1>3, <1>4, <2>1
<1>9. Tracked(u) => new = UpToDate(u)
  BY <1>3, <1>4, <1>6 DEF Tracked
<1>10. u \in campaign.untracked <=> new = NoFingerprint
  BY <1>4 DEF NoFingerprint
<1>11. QED
  BY <1>7, <1>8, <1>9, <1>10

\* An output that was produced from outputs that are up to date.
LEMMA ProducedRight ==
  ASSUME WalkInv, NEW u \in Vertex, Told(u),
         \A p \in dag[u] : status[p] = "done" /\ job_status[p] \in Good
  PROVE  Produced(u) = UpToDate(u)
<1>1. \A p \in dag[u] : output[p] = UpToDate(p)
  BY DagType, ToldStep DEF WalkInv, JobOK, OutputOK
<1>2. UpToDate(u) = {<<u, source[u]>>} \cup UNION {UpToDate(p) : p \in dag[u]}
  BY DagType, UpToDateStep
<1>3. QED
  BY <1>1, <1>2 DEF Produced

LEMMA SameUpToDate ==
  ASSUME UNCHANGED <<dag, source>>
  PROVE  \A u \in Vertex : UpToDate(u)' = UpToDate(u)
BY DEF UpToDate, Ancestors

LEMMA ToldBefore ==
  ASSUME UNCHANGED dag, untold \subseteq untold'
  PROVE  \A u \in Vertex : Told(u)' => Told(u)
BY DEF Told, Ancestors

\* The variables the invariant is about.
coreVars == <<campaign, dag, over, status, job, result, executing, source,
              prev_fingerprints, new_fingerprints, job_status, failure_source, saved, output, untold>>

LEMMA WalkInvStutter ==
  ASSUME WalkInv, UNCHANGED coreVars
  PROVE  WalkInv'
<1> USE DEF coreVars
<1>1. WalkTypeOK'
  BY DEF WalkInv, WalkTypeOK
<1>2. ASSUME NEW u \in Vertex PROVE JobOK(u)'
  <2>1. UpToDate(u)' = UpToDate(u) /\ (Told(u)' => Told(u))
    BY SameUpToDate, ToldBefore
  <2>2. PlaceOK(u) /\ BeforeOK(u) /\ PrintOK(u) /\ (Told(u) => OutputOK(u))
    BY DEF WalkInv, JobOK
  <2>3. PlaceOK(u)' /\ BeforeOK(u)'
    BY <2>2 DEF PlaceOK, BeforeOK
  <2>4. PrintOK(u)'
    BY <2>1, <2>2 DEF PrintOK, Tracked
  <2>5. OutputOK(u) => OutputOK(u)'
    BY <2>1 DEF OutputOK, SavedOK, Tracked
  <2>6. QED
    BY <2>1, <2>2, <2>3, <2>4, <2>5 DEF JobOK
<1>3. QED
  BY <1>1, <1>2 DEF WalkInv

LEMMA ComputeType ==
  ASSUME WalkInv, NEW u \in Vertex, NEW is_prediction \in BOOLEAN
  PROVE  Compute(u, is_prediction, new_fingerprints) \in Content
<1> DEFINE U == UNION {new_fingerprints[p] : p \in dag[u]}
<1>1. \A p \in dag[u] : new_fingerprints[p] \in Content
  BY DagType DEF WalkInv, WalkTypeOK
<1>2. U \subseteq Vertex \X Version
  BY <1>1 DEF Content
<1>3. <<u, source[u]>> \in Vertex \X Version
  BY DEF WalkInv, WalkTypeOK
<1> HIDE DEF U
<1>4. {<<u, source[u]>>} \cup U \in Content /\ {} \in Content
  BY <1>2, <1>3 DEF Content
<1>5. QED
  BY <1>4 DEF Compute, NoFingerprint, U

\* What is skipped has the output that is predicted.
LEMMA SkipRight ==
  ASSUME WalkInv, UntrackedNear, NEW u \in Vertex, Told(u), Runnable(u),
         FailedPredecessors(u) = {},
         ~ShouldExecute(u, saved[u], Compute(u, TRUE, new_fingerprints))
  PROVE  Tracked(u) /\ output[u] = UpToDate(u)
<1> DEFINE new == Compute(u, TRUE, new_fingerprints)
<1>1. \A p \in dag[u] : status[p] = "done" /\ job_status[p] \in Good
  BY DEF Runnable, FailedPredecessors
<1>2. saved[u] # NoFingerprint /\ new # NoFingerprint /\ saved[u] = new
      /\ \A p \in dag[u] : new_fingerprints[p] # NoFingerprint
  BY DEF ShouldExecute
<1>3. new = Compute(u, FALSE, new_fingerprints) /\ u \notin campaign.untracked
  BY <1>2 DEF Compute
<1>4. \A p \in dag[u] : p \notin campaign.untracked
  BY <1>1, <1>2, DagType DEF WalkInv, JobOK, PrintOK
<1>5. Tracked(u)
  BY <1>3, <1>4 DEF Tracked
<1>6. new = UpToDate(u)
  BY <1>1, <1>3, <1>5, ComputeRight
<1>7. saved[u] = output[u]
  BY <1>2, <1>5 DEF WalkInv, JobOK, OutputOK, SavedOK
<1>8. QED
  BY <1>2, <1>5, <1>6, <1>7

LEMMA GetJobStep ==
  ASSUME WalkInv, UntrackedNear, NEW u \in Vertex, GetJob(u)
  PROVE  WalkInv'
<1> DEFINE new == Compute(u, TRUE, new_fingerprints)
           verdict == IF FailedPredecessors(u) # {} THEN "force_fail"
                      ELSE IF ~ShouldExecute(u, saved[u], new) THEN "skip"
                      ELSE NoStatus
<1>1. /\ ~over /\ Runnable(u) /\ job[u] = "none"
      /\ saved' = [saved EXCEPT ![u] = {}]
      /\ prev_fingerprints' = [prev_fingerprints EXCEPT ![u] = saved[u]]
      /\ new_fingerprints' = [new_fingerprints EXCEPT ![u] = new]
      /\ job' = [job EXCEPT ![u] = IF verdict = NoStatus THEN "created" ELSE "skipped"]
      /\ result' = [result EXCEPT ![u] = verdict]
      /\ failure_source' = IF verdict = "force_fail"
                              THEN [failure_source EXCEPT ![u] = Origins(u)]
                              ELSE failure_source
      /\ UNCHANGED <<campaign, dag, over, status, executing, job_status, source, output, untold>>
  BY DEF GetJob, Erased, NoFingerprint, execVars
<1>2. verdict \in {"force_fail", "skip", NoStatus}
      /\ (verdict = "skip" /\ Told(u) => Tracked(u) /\ output[u] = UpToDate(u))
      /\ (verdict # "force_fail" => \A p \in dag[u] : job_status[p] \in Good)
  <2>1. CASE FailedPredecessors(u) # {}
    BY <2>1 DEF NoStatus
  <2>2. CASE FailedPredecessors(u) = {} /\ ~ShouldExecute(u, saved[u], new)
    <3>1. Told(u) => Tracked(u) /\ output[u] = UpToDate(u)
      BY <1>1, <2>2, SkipRight
    <3>2. QED
      BY <2>2, <3>1 DEF FailedPredecessors, NoStatus
  <2>3. CASE FailedPredecessors(u) = {} /\ ShouldExecute(u, saved[u], new)
    <3>1. verdict = NoStatus
      BY <2>3
    <3> HIDE DEF new, verdict
    <3>2. QED
      BY <2>3, <3>1 DEF FailedPredecessors, NoStatus
  <2>4. QED
    BY <2>1, <2>2, <2>3
<1>3. new \in Content
  BY ComputeType
<1>4. Origins(u) \in SUBSET Vertex
  BY DagType DEF Origins, FailedPredecessors, WalkInv, WalkTypeOK
<1> HIDE DEF new, verdict
<1>5. WalkTypeOK'
  BY <1>1, <1>2, <1>3, <1>4 DEF WalkInv, WalkTypeOK, Statuses, Content
<1>6. ASSUME NEW w \in Vertex PROVE JobOK(w)'
  <2>1. UpToDate(w)' = UpToDate(w) /\ (Told(w)' => Told(w)) /\ Tracked(w)' = Tracked(w)
    BY <1>1, SameUpToDate, ToldBefore DEF Tracked
  <2>2. PlaceOK(w) /\ BeforeOK(w) /\ PrintOK(w) /\ (Told(w) => OutputOK(w))
    BY DEF WalkInv, JobOK
  <2>3. status[u] = "waiting" /\ \A p \in dag[u] : status[p] = "done"
    BY <1>1 DEF Runnable
  <2>4. PlaceOK(w)'
    BY <1>1, <1>2, <2>2, <2>3 DEF PlaceOK, WalkInv, WalkTypeOK, NoStatus
  <2>5. BeforeOK(w)'
    BY <1>1, <1>2, <2>2, <2>3 DEF BeforeOK, WalkInv, WalkTypeOK, NoStatus
  <2>6. CASE w = u
    <3>1. saved'[u] = {} /\ result'[u] = verdict /\ status'[u] = "waiting"
          /\ output'[u] = output[u]
      BY <1>1, <2>3 DEF WalkInv, WalkTypeOK
    <3>2. PrintOK(w)'
      BY <2>6, <3>1 DEF PrintOK
    <3>3. Told(w)' => OutputOK(w)'
      BY <1>2, <2>1, <2>6, <3>1 DEF OutputOK, NoFingerprint
    <3>4. QED
      BY <2>4, <2>5, <3>2, <3>3 DEF JobOK
  <2>7. CASE w # u
    <3>1. saved'[w] = saved[w] /\ result'[w] = result[w] /\ job'[w] = job[w]
          /\ new_fingerprints'[w] = new_fingerprints[w]
      BY <1>1, <2>7 DEF WalkInv, WalkTypeOK
    <3>2. SavedOK(w)' = SavedOK(w)
      BY <1>1, <2>1, <3>1 DEF SavedOK
    <3>3. PrintOK(w)'
      BY <1>1, <2>1, <2>2, <3>1 DEF PrintOK
    <3>4. OutputOK(w) => OutputOK(w)'
      BY <1>1, <2>1, <3>1, <3>2 DEF OutputOK
    <3>5. QED
      BY <2>1, <2>2, <2>4, <2>5, <3>3, <3>4 DEF JobOK
  <2>8. QED
    BY <2>6, <2>7
<1>7. QED
  BY <1>5, <1>6 DEF WalkInv

\* What CollectAll does to each job.
LEMMA CollectAllOf ==
  ASSUME WalkInv, NEW S \in SUBSET Vertex, NEW statusOf \in [Vertex -> Statuses],
         CollectAll(S, statusOf)
  PROVE  /\ new_fingerprints' \in [Vertex -> Content]
         /\ saved' \in [Vertex -> Content]
         /\ job_status' \in [Vertex -> Statuses]
         /\ \A u \in Vertex \ S : job_status'[u] = job_status[u]
         /\ \A u \in S : job_status'[u] = statusOf[u]
         /\ \A u \in Vertex : u \notin S \/ statusOf[u] \notin Good =>
              new_fingerprints'[u] = new_fingerprints[u] /\ saved'[u] = saved[u]
         /\ \A u \in S : statusOf[u] \in Good =>
              /\ new_fingerprints'[u] = Compute(u, FALSE, new_fingerprints)
              /\ saved'[u] = Compute(u, FALSE, new_fingerprints)
<1> DEFINE fine == {u \in S : statusOf[u] \in Good}
           final == [u \in Vertex |-> IF u \in fine
                                        THEN Compute(u, FALSE, new_fingerprints)
                                        ELSE new_fingerprints[u]]
<1>1. /\ new_fingerprints' = final
      /\ saved' = [u \in Vertex |-> IF u \in fine THEN final[u] ELSE saved[u]]
      /\ job_status' = [u \in Vertex |-> IF u \in S THEN statusOf[u] ELSE job_status[u]]
  BY DEF CollectAll
<1>2. \A u \in Vertex : Compute(u, FALSE, new_fingerprints) \in Content
  BY ComputeType
<1>3. final \in [Vertex -> Content]
  BY <1>2 DEF WalkInv, WalkTypeOK
<1>4. \A u \in Vertex : final[u] = IF u \in fine THEN Compute(u, FALSE, new_fingerprints)
                                    ELSE new_fingerprints[u]
  OBVIOUS
<1> HIDE DEF final
<1>5. QED
  BY <1>1, <1>3, <1>4 DEF WalkInv, WalkTypeOK

\* The collect of the jobs of S, by whatever thread.  While the walk goes on
\* what went well is done; otherwise all jobs stop.
LEMMA CollectStep ==
  ASSUME WalkInv, UntrackedNear,
         NEW S \in SUBSET Vertex, NEW statusOf \in [Vertex -> Statuses],
         CollectAll(S, statusOf),
         \A u \in S :
           /\ status[u] # "done" /\ job[u] # "none"
           /\ job[u] = "skipped" => statusOf[u] = result[u]
           /\ statusOf[u] \in Good =>
                /\ Told(u)' => u \notin executing /\ output[u] = UpToDate(u)
                /\ \A p \in dag[u] : status[p] = "done" /\ job_status[p] \in Good,
         UNCHANGED <<campaign, dag, job, result, prev_fingerprints, failure_source, source>>,
         \/ executing' = executing /\ over' = over
         \/ executing' \subseteq executing /\ over' = TRUE,
         untold \subseteq untold' /\ untold' \subseteq Vertex,
         output' = [u \in Vertex |-> IF u \in executing \ executing' THEN Broken ELSE output[u]],
         status' \in [Vertex -> {"waiting", "running", "done"}],
         \A u \in Vertex :
           \/ status'[u] = status[u]
           \/ u \in S \ executing /\ status'[u] \in {"waiting", "done"},
         \A u \in S : ~over' /\ statusOf[u] \in Good => status'[u] = "done"
  PROVE  WalkInv'
<1>0. /\ new_fingerprints' \in [Vertex -> Content]
      /\ saved' \in [Vertex -> Content]
      /\ job_status' \in [Vertex -> Statuses]
      /\ \A u \in Vertex \ S : job_status'[u] = job_status[u]
      /\ \A u \in S : job_status'[u] = statusOf[u]
      /\ \A u \in Vertex : u \notin S \/ statusOf[u] \notin Good =>
           new_fingerprints'[u] = new_fingerprints[u] /\ saved'[u] = saved[u]
      /\ \A u \in S : statusOf[u] \in Good =>
           /\ new_fingerprints'[u] = Compute(u, FALSE, new_fingerprints)
           /\ saved'[u] = Compute(u, FALSE, new_fingerprints)
  BY CollectAllOf
<1>1. WalkTypeOK'
  <2>1. {} \in Content
    BY DEF Content
  <2>2. output' \in [Vertex -> Content]
    BY <2>1 DEF WalkInv, WalkTypeOK, Broken
  <2>3. QED
    BY <2>2, <1>0 DEF WalkInv, WalkTypeOK
<1>2. ASSUME NEW w \in Vertex PROVE JobOK(w)'
  <2>1. UpToDate(w)' = UpToDate(w) /\ (Told(w)' => Told(w)) /\ Tracked(w)' = Tracked(w)
    BY SameUpToDate, ToldBefore DEF Tracked
  <2>2. PlaceOK(w) /\ BeforeOK(w) /\ PrintOK(w) /\ (Told(w) => OutputOK(w))
    BY DEF WalkInv, JobOK
  <2>3. \A v \in Vertex : status[v] = "done" =>
          v \notin S /\ status'[v] = "done" /\ job_status'[v] = job_status[v]
    BY <1>0
  <2>4. PlaceOK(w)'
    BY <2>2, <2>3, <1>0 DEF PlaceOK
  <2>5. BeforeOK(w)'
    <3>1. result[w] = "skip" => job[w] # "none"
      BY <2>2 DEF PlaceOK, NoStatus
    <3>2. dag[w] \subseteq Vertex
      BY DagType
    <3>3. QED
      BY <2>2, <2>3, <3>1, <3>2 DEF BeforeOK
  <2>6. w \notin executing => output'[w] = output[w] /\ w \notin executing'
    OBVIOUS
  <2>7. ASSUME w \in S, statusOf[w] \in Good
        PROVE  /\ saved'[w] = new_fingerprints'[w]
               /\ new_fingerprints'[w] \subseteq UpToDate(w)
               /\ w \in campaign.untracked <=> new_fingerprints'[w] = NoFingerprint
               /\ Tracked(w) => new_fingerprints'[w] = UpToDate(w)
    BY <2>7, ComputeRight, <1>0
  <2>8. PrintOK(w)'
    <3>1. SUFFICES ASSUME status'[w] = "done", job_status'[w] \in Good
                   PROVE  /\ new_fingerprints'[w] \subseteq UpToDate(w)
                          /\ w \in campaign.untracked => new_fingerprints'[w] = NoFingerprint
                          /\ Tracked(w) => new_fingerprints'[w] = UpToDate(w)
      BY <2>1 DEF PrintOK
    <3>2. CASE status[w] = "done"
      BY <2>2, <2>3, <3>1, <3>2, <1>0 DEF PrintOK
    <3>3. CASE status[w] # "done"
      BY <2>7, <3>1, <3>3, <1>0
    <3>4. QED
      BY <3>2, <3>3
  <2>9. UpToDate(w) # Broken
    <3>1. <<w, source[w]>> \in UpToDate(w)
      BY DEF UpToDate
    <3>2. QED
      BY <3>1 DEF Broken
  <2>10. ASSUME Told(w)', status'[w] = "done", job_status'[w] \in Good
         PROVE  (output[w] = UpToDate(w))'
    <3>1. CASE status[w] = "done"
      <4>1. output[w] = UpToDate(w) /\ w \notin executing
        BY <2>1, <2>2, <2>3, <2>10, <3>1 DEF OutputOK, PlaceOK
      <4>2. QED
        BY <2>1, <2>6, <4>1
    <3>2. CASE status[w] # "done"
      <4>1. w \in S /\ statusOf[w] \in Good
        BY <2>10, <3>2, <1>0
      <4>2. QED
        BY <2>1, <2>6, <2>10, <4>1
    <3>3. QED
      BY <3>1, <3>2
  <2>11. ASSUME Told(w)', saved'[w] # NoFingerprint PROVE SavedOK(w)'
    <3>1. CASE w \in S /\ statusOf[w] \in Good
      <4>1. w \notin executing' /\ output'[w] = UpToDate(w)
        BY <2>6, <2>11, <3>1
      <4>2. QED
        BY <2>1, <2>7, <2>9, <2>11, <3>1, <4>1 DEF SavedOK
    <3>2. CASE w \notin S \/ statusOf[w] \notin Good
      <4>1. saved'[w] = saved[w] /\ SavedOK(w)
        BY <2>1, <2>2, <2>11, <3>2, <1>0 DEF OutputOK
      <4>2. QED
        BY <2>1, <2>6, <4>1 DEF SavedOK
    <3>3. QED
      BY <3>1, <3>2
  <2>12. ASSUME Told(w)', result'[w] = "skip" PROVE (Tracked(w) /\ output[w] = UpToDate(w))'
    BY <2>1, <2>2, <2>6, <2>12 DEF OutputOK, PlaceOK, NoStatus
  <2>13. ASSUME Told(w)', status'[w] = "running", result'[w] \in Good
         PROVE  (output[w] = UpToDate(w))'
    BY <2>1, <2>2, <2>6, <2>13 DEF OutputOK, PlaceOK, NoStatus, Good
  <2>14. ASSUME Told(w)', ~over', job'[w] = "created", status'[w] # "done"
         PROVE  saved'[w] = NoFingerprint
    <3>1. ~over /\ job[w] = "created" /\ status[w] # "done"
      BY <2>3, <2>14
    <3>2. w \notin S \/ statusOf[w] \notin Good
      BY <2>14
    <3>3. QED
      BY <2>1, <2>2, <2>14, <3>1, <3>2, <1>0 DEF OutputOK
  <2>15. Told(w)' => OutputOK(w)'
    BY <2>10, <2>11, <2>12, <2>13, <2>14 DEF OutputOK
  <2>16. QED
    BY <2>4, <2>5, <2>8, <2>15 DEF JobOK
<1>3. QED
  BY <1>1, <1>2 DEF WalkInv

LEMMA GoodBefore ==
  ASSUME WalkInv, NEW u \in Vertex, job[u] = "created" \/ result[u] = "skip"
  PROVE  \A p \in dag[u] : status[p] = "done" /\ job_status[p] \in Good
<1>1. job[u] # "none"
  BY DEF WalkInv, JobOK, PlaceOK, NoStatus
<1>2. QED
  BY <1>1 DEF WalkInv, JobOK, BeforeOK

LEMMA CollectSkippedStep ==
  ASSUME WalkInv, UntrackedNear, NEW u \in Vertex, CollectSkipped(u)
  PROVE  WalkInv'
<1>1. /\ ~over /\ job[u] = "skipped" /\ status[u] = "waiting"
      /\ status' = [status EXCEPT ![u] = "done"]
      /\ CollectAll({u}, result)
      /\ UNCHANGED <<campaign, dag, over, job, result, executing, prev_fingerprints,
                     failure_source, source, output, untold>>
  BY DEF CollectSkipped, SkipJob, Runnable
<1>2. {u} \in SUBSET Vertex /\ result \in [Vertex -> Statuses]
  BY DEF WalkInv, WalkTypeOK
<1>3. ASSUME result[u] \in Good
      PROVE  /\ Told(u)' => u \notin executing /\ output[u] = UpToDate(u)
             /\ \A p \in dag[u] : status[p] = "done" /\ job_status[p] \in Good
  <2>1. result[u] = "skip" /\ u \notin executing
    BY <1>1, <1>3 DEF WalkInv, JobOK, PlaceOK, Good
  <2>2. Told(u)' => Told(u)
    BY <1>1, ToldBefore
  <2>3. QED
    BY <2>1, <2>2, GoodBefore DEF WalkInv, JobOK, OutputOK
<1>4. output' = [v \in Vertex |-> IF v \in executing \ executing' THEN Broken ELSE output[v]]
  BY <1>1 DEF WalkInv, WalkTypeOK
<1>5. status' \in [Vertex -> {"waiting", "running", "done"}] /\ status'[u] = "done"
      /\ \A v \in Vertex \ {u} : status'[v] = status[v]
  BY <1>1 DEF WalkInv, WalkTypeOK
<1>6. u \notin executing /\ untold' \subseteq Vertex
  BY <1>1 DEF WalkInv, WalkTypeOK, JobOK, PlaceOK
<1>7. QED
  BY <1>1, <1>2, <1>3, <1>4, <1>5, <1>6, CollectStep

LEMMA StartJobStep ==
  ASSUME WalkInv, NEW u \in Vertex, StartJob(u)
  PROVE  WalkInv'
<1>1. /\ ~over /\ job[u] = "created" /\ status[u] = "waiting"
      /\ status' = [status EXCEPT ![u] = "running"]
      /\ executing' = executing \cup {u}
      /\ result' = [result EXCEPT ![u] = NoStatus]
      /\ UNCHANGED <<campaign, dag, over, job, prev_fingerprints, new_fingerprints,
                     job_status, failure_source, saved, source, output, untold>>
  BY DEF StartJob, Begin, Runnable, walkVars, diskVars
<1>2. WalkTypeOK'
  BY <1>1 DEF WalkInv, WalkTypeOK, Statuses
<1>3. ASSUME NEW w \in Vertex PROVE JobOK(w)'
  <2>1. UpToDate(w)' = UpToDate(w) /\ (Told(w)' => Told(w)) /\ Tracked(w)' = Tracked(w)
    BY <1>1, SameUpToDate, ToldBefore DEF Tracked
  <2>2. PlaceOK(w) /\ BeforeOK(w) /\ PrintOK(w) /\ (Told(w) => OutputOK(w))
    BY DEF WalkInv, JobOK
  <2>3. PlaceOK(w)'
    BY <1>1, <2>2 DEF PlaceOK, WalkInv, WalkTypeOK, NoStatus
  <2>4. BeforeOK(w)'
    <3>1. \A p \in dag[w] : p \in Vertex /\ (status[p] = "done" => status'[p] = "done")
      BY <1>1, DagType DEF WalkInv, WalkTypeOK
    <3>2. result'[w] = "skip" => result[w] = "skip"
      BY <1>1 DEF WalkInv, WalkTypeOK, NoStatus
    <3>3. QED
      BY <1>1, <2>2, <3>1, <3>2 DEF BeforeOK
  <2>5. PrintOK(w)'
    BY <1>1, <2>1, <2>2 DEF PrintOK, WalkInv, WalkTypeOK
  <2>6. CASE w = u
    <3>1. Told(w)' => saved[u] = NoFingerprint
      BY <1>1, <2>1, <2>2, <2>6 DEF OutputOK
    <3>2. status'[u] = "running" /\ result'[u] = NoStatus
      BY <1>1 DEF WalkInv, WalkTypeOK
    <3>3. Told(w)' => OutputOK(w)'
      BY <1>1, <2>6, <3>1, <3>2 DEF OutputOK, NoStatus, Good
    <3>4. QED
      BY <2>3, <2>4, <2>5, <3>3 DEF JobOK
  <2>7. CASE w # u
    <3>1. status'[w] = status[w] /\ result'[w] = result[w]
      BY <1>1, <2>7 DEF WalkInv, WalkTypeOK
    <3>2. SavedOK(w)' = SavedOK(w)
      BY <1>1, <2>1, <2>7 DEF SavedOK
    <3>3. OutputOK(w) => OutputOK(w)'
      BY <1>1, <2>1, <3>1, <3>2 DEF OutputOK
    <3>4. QED
      BY <2>1, <2>2, <2>3, <2>4, <2>5, <3>3 DEF JobOK
  <2>8. QED
    BY <2>6, <2>7
<1>4. QED
  BY <1>2, <1>3 DEF WalkInv

LEMMA JobEndsStep ==
  ASSUME WalkInv, NEW u \in Vertex, JobEnds(u)
  PROVE  WalkInv'
<1>1. PICK s \in IF u \in campaign.plain THEN {"success"} ELSE Outcomes,
           content \in {Produced(u), Broken, output[u]} :
        /\ u \notin campaign.plain => content = IF s \in Good THEN Produced(u) ELSE Broken
        /\ result' = [result EXCEPT ![u] = s]
        /\ output' = [output EXCEPT ![u] = content]
        /\ untold' = IF s \in Good /\ content # Produced(u) THEN untold \cup {u} ELSE untold
  BY DEF JobEnds
<1>2. /\ u \in executing /\ executing' = executing \ {u}
      /\ UNCHANGED <<campaign, dag, status, over, job, prev_fingerprints, new_fingerprints,
                     job_status, failure_source, saved, source>>
  BY DEF JobEnds, execVars, walkVars
<1>3. /\ status[u] = "running" /\ job[u] = "created"
      /\ Told(u) => saved[u] = NoFingerprint
  BY <1>2 DEF WalkInv, JobOK, PlaceOK, OutputOK, SavedOK
<1>4. Told(u) => Produced(u) = UpToDate(u)
  BY <1>3, GoodBefore, ProducedRight
<1>5. Produced(u) \in Content
  <2>1. \A p \in dag[u] : output[p] \in Content
    BY DagType DEF WalkInv, WalkTypeOK
  <2>2. UNION {output[p] : p \in dag[u]} \subseteq Vertex \X Version
    BY <2>1 DEF Content
  <2>3. <<u, source[u]>> \in Vertex \X Version
    BY DEF WalkInv, WalkTypeOK
  <2>4. QED
    BY <2>2, <2>3 DEF Produced, Content
<1>6. s \in {"success", "unchanged", "failure", "notready"}
  BY <1>1, WalkAssumption
<1>7. WalkTypeOK'
  <2>1. content \in Content
    BY <1>1, <1>5 DEF WalkInv, WalkTypeOK, Broken, Content
  <2>2. output' \in [Vertex -> Content] /\ untold' \in SUBSET Vertex
    BY <1>1, <2>1 DEF WalkInv, WalkTypeOK
  <2>3. QED
    BY <1>1, <1>2, <1>6, <2>2 DEF WalkInv, WalkTypeOK, Statuses
<1>8. \A w \in Vertex : Told(w)' => Told(w)
  BY <1>1, <1>2, ToldBefore
<1>9. Told(u)' /\ s \in Good => content = UpToDate(u)
  <2>1. Told(u)' => u \notin untold'
    BY DEF Told
  <2>2. QED
    BY <1>1, <1>4, <1>8, <2>1
<1>10. ASSUME NEW w \in Vertex PROVE JobOK(w)'
  <2>1. UpToDate(w)' = UpToDate(w) /\ Tracked(w)' = Tracked(w)
    BY <1>2, SameUpToDate DEF Tracked
  <2>2. PlaceOK(w) /\ BeforeOK(w) /\ PrintOK(w) /\ (Told(w) => OutputOK(w))
    BY DEF WalkInv, JobOK
  <2>3. result'[w] = IF w = u THEN s ELSE result[w]
    BY <1>1 DEF WalkInv, WalkTypeOK
  <2>4. PlaceOK(w)'
    BY <1>2, <1>3, <1>6, <2>2, <2>3 DEF PlaceOK
  <2>5. BeforeOK(w)'
    BY <1>2, <1>6, <2>2, <2>3 DEF BeforeOK
  <2>6. PrintOK(w)'
    BY <1>2, <2>1, <2>2 DEF PrintOK
  <2>7. CASE w = u
    <3>1. output'[u] = content
      BY <1>1 DEF WalkInv, WalkTypeOK
    <3>2. Told(w)' => OutputOK(w)'
      BY <1>2, <1>3, <1>6, <1>8, <1>9, <2>1, <2>3, <2>7, <3>1 DEF OutputOK
    <3>3. QED
      BY <2>4, <2>5, <2>6, <3>2 DEF JobOK
  <2>8. CASE w # u
    <3>1. output'[w] = output[w]
      BY <1>1, <2>8 DEF WalkInv, WalkTypeOK
    <3>2. SavedOK(w)' = SavedOK(w)
      BY <1>2, <2>1, <2>8, <3>1 DEF SavedOK
    <3>3. OutputOK(w) => OutputOK(w)'
      BY <1>2, <2>1, <2>3, <2>8, <3>1, <3>2 DEF OutputOK
    <3>4. QED
      BY <1>8, <2>2, <2>4, <2>5, <2>6, <3>3 DEF JobOK
  <2>9. QED
    BY <2>7, <2>8
<1>11. QED
  BY <1>7, <1>10 DEF WalkInv

LEMMA CollectOneStep ==
  ASSUME WalkInv, UntrackedNear, NEW u \in Vertex, Collect(u)
  PROVE  WalkInv'
<1>1. PICK s \in {"done", "waiting"} : status' = [status EXCEPT ![u] = s]
  BY DEF Collect, Complete
<1>2. /\ ~over /\ status[u] = "running" /\ u \notin executing
      /\ CollectAll({u}, result)
      /\ status'[u] = "waiting" => result[u] = "notready"
      /\ UNCHANGED <<campaign, dag, over, job, result, executing, prev_fingerprints,
                     failure_source, source, output, untold>>
  BY DEF Collect, Complete
<1>3. {u} \in SUBSET Vertex /\ result \in [Vertex -> Statuses]
  BY DEF WalkInv, WalkTypeOK
<1>4. job[u] = "created" /\ (Told(u)' => Told(u)) /\ untold' \subseteq Vertex
  BY <1>2, ToldBefore DEF WalkInv, WalkTypeOK, JobOK, PlaceOK
<1>5. /\ Told(u)' /\ result[u] \in Good => output[u] = UpToDate(u)
      /\ \A p \in dag[u] : status[p] = "done" /\ job_status[p] \in Good
  BY <1>2, <1>4, GoodBefore DEF WalkInv, JobOK, OutputOK
<1>6. output' = [v \in Vertex |-> IF v \in executing \ executing' THEN Broken ELSE output[v]]
  BY <1>2 DEF WalkInv, WalkTypeOK
<1>7. status' \in [Vertex -> {"waiting", "running", "done"}] /\ status'[u] = s
      /\ \A v \in Vertex \ {u} : status'[v] = status[v]
  BY <1>1 DEF WalkInv, WalkTypeOK
<1>8. result[u] \in Good => s = "done"
  BY <1>2, <1>7 DEF Good
<1>9. QED
  BY <1>2, <1>3, <1>4, <1>5, <1>6, <1>7, <1>8, CollectStep

LEMMA KeyboardInterruptStep ==
  ASSUME WalkInv, UntrackedNear, KeyboardInterrupt
  PROVE  WalkInv'
<1>1. PICK left \in {{}} \cup {{u} : u \in executing} :
        LET active == {u \in Vertex : status[u] = "running"} \ left
            cut == (active \cap executing) \ campaign.plain
        IN /\ CollectAll(active, InterruptedStatus)
           /\ executing' = executing \ cut
           /\ output' = [u \in Vertex |-> IF u \in cut THEN Broken ELSE output[u]]
           /\ untold' = untold \cup ((active \cap executing) \ cut)
  BY DEF KeyboardInterrupt
<1> DEFINE S == {u \in Vertex : status[u] = "running"} \ left
           cut == (S \cap executing) \ campaign.plain
<1>2. /\ over' = TRUE
      /\ UNCHANGED <<campaign, dag, status, job, result, prev_fingerprints,
                     failure_source, source>>
  BY DEF KeyboardInterrupt, execVars
<1>3. /\ CollectAll(S, InterruptedStatus)
      /\ executing' = executing \ cut
      /\ output' = [u \in Vertex |-> IF u \in cut THEN Broken ELSE output[u]]
      /\ untold' = untold \cup ((S \cap executing) \ cut)
  BY <1>1
<1>4. /\ InterruptedStatus \in [Vertex -> Statuses]
      /\ \A u \in Vertex : InterruptedStatus[u] =
           IF u \notin executing THEN result[u]
           ELSE IF u \in campaign.plain THEN "success" ELSE "failure"
  BY DEF InterruptedStatus, WalkInv, WalkTypeOK, Statuses
<1>5. \A u \in Vertex : Told(u)' => Told(u) /\ u \notin untold'
  BY <1>2, <1>3, ToldBefore DEF Told
<1>6. ASSUME NEW u \in S
      PROVE  /\ status[u] # "done" /\ job[u] = "created"
             /\ \A p \in dag[u] : status[p] = "done" /\ job_status[p] \in Good
             /\ InterruptedStatus[u] \in Good =>
                  (Told(u)' => u \notin executing /\ output[u] = UpToDate(u))
  <2>1. status[u] = "running" /\ job[u] = "created"
    BY DEF WalkInv, JobOK, PlaceOK
  <2>2. ASSUME InterruptedStatus[u] \in Good, Told(u)'
        PROVE  u \notin executing /\ result[u] \in Good
    <3>1. CASE u \notin executing
      BY <1>4, <2>2, <3>1
    <3>2. CASE u \in executing
      <4>1. u \in campaign.plain
        BY <1>4, <2>2, <3>2 DEF Good
      <4>2. u \in untold'
        BY <1>3, <3>2, <4>1
      <4>3. QED
        BY <1>5, <2>2, <4>2
    <3>3. QED
      BY <3>1, <3>2
  <2>3. QED
    BY <1>5, <2>1, <2>2, GoodBefore DEF WalkInv, JobOK, OutputOK
<1>7. output' = [v \in Vertex |-> IF v \in executing \ executing' THEN Broken ELSE output[v]]
  BY <1>3
<1>8. S \in SUBSET Vertex /\ untold' \subseteq Vertex /\ untold \subseteq untold'
      /\ executing' \subseteq executing
  BY <1>3 DEF WalkInv, WalkTypeOK
<1>9. status' \in [Vertex -> {"waiting", "running", "done"}] /\ status' = status
  BY <1>2 DEF WalkInv, WalkTypeOK
<1> HIDE DEF S, cut
<1>10. \A u \in S :
         /\ status[u] # "done" /\ job[u] # "none"
         /\ job[u] = "skipped" => InterruptedStatus[u] = result[u]
         /\ InterruptedStatus[u] \in Good =>
              /\ Told(u)' => u \notin executing /\ output[u] = UpToDate(u)
              /\ \A p \in dag[u] : status[p] = "done" /\ job_status[p] \in Good
  BY <1>6
<1>11. /\ CollectAll(S, InterruptedStatus)
       /\ executing' \subseteq executing /\ over' = TRUE
       /\ untold \subseteq untold' /\ untold' \subseteq Vertex
       /\ \A u \in Vertex : status'[u] = status[u]
       /\ \A u \in S : ~over' /\ InterruptedStatus[u] \in Good => status'[u] = "done"
  BY <1>2, <1>3, <1>8, <1>9
<1>12. InterruptedStatus \in [Vertex -> Statuses] /\ S \in SUBSET Vertex
  BY <1>4, <1>8
<1>13. QED
  BY <1>2, <1>7, <1>9, <1>10, <1>11, <1>12, CollectStep

LEMMA CrashStep ==
  ASSUME WalkInv, UntrackedNear, Crash
  PROVE  WalkInv'
<1>1. /\ over' = TRUE /\ executing' = {}
      /\ output' = [u \in Vertex |-> IF u \in executing THEN Broken ELSE output[u]]
      /\ UNCHANGED <<campaign, dag, status, job, result, prev_fingerprints, new_fingerprints,
                     job_status, failure_source, saved, source, untold>>
  BY DEF Crash, execVars, walkVars
<1>2. CollectAll({}, result) /\ result \in [Vertex -> Statuses] /\ untold' \subseteq Vertex
  BY <1>1 DEF CollectAll, WalkInv, WalkTypeOK
<1>3. output' = [v \in Vertex |-> IF v \in executing \ executing' THEN Broken ELSE output[v]]
  BY <1>1
<1>4. status' \in [Vertex -> {"waiting", "running", "done"}] /\ status' = status
  BY <1>1 DEF WalkInv, WalkTypeOK
<1>5. QED
  BY <1>1, <1>2, <1>3, <1>4, CollectStep

\* What a fingerprint on disk says holds whatever the sources are.
LEMMA NewWalkStep ==
  ASSUME WalkInv, NewWalk
  PROVE  WalkInv'
<1>1. /\ over' = FALSE /\ executing' = {}
      /\ status' = ForAll("waiting") /\ job' = ForAll("none")
      /\ result' = ForAll(NoStatus) /\ job_status' = ForAll(NoStatus)
      /\ prev_fingerprints' = ForAll(NoFingerprint)
      /\ new_fingerprints' = ForAll(NoFingerprint)
      /\ failure_source' = ForAll({})
      /\ source' \in [Vertex -> Version]
      /\ UNCHANGED <<campaign, dag, executing, saved, output, untold>>
  BY DEF NewWalk
<1>2. WalkTypeOK'
  BY <1>1 DEF WalkInv, WalkTypeOK, ForAll, Statuses, NoStatus, NoFingerprint, Content
<1>3. ASSUME NEW w \in Vertex PROVE JobOK(w)'
  <2>1. status'[w] = "waiting" /\ job'[w] = "none" /\ result'[w] = NoStatus
    BY <1>1 DEF ForAll
  <2>2. PlaceOK(w)' /\ BeforeOK(w)'
    BY <1>1, <2>1 DEF PlaceOK, BeforeOK, NoStatus
  <2>3. Told(w)' = Told(w)
    BY <1>1 DEF Told, Ancestors
  <2>4. Told(w) => (saved[w] # NoFingerprint => SavedOK(w))
    BY DEF WalkInv, JobOK, OutputOK
  <2>5. Told(w)' => (saved[w] # NoFingerprint => SavedOK(w))'
    BY <1>1, <2>3, <2>4 DEF SavedOK, Tracked
  <2>6. PrintOK(w)' /\ (Told(w) => OutputOK(w))'
    BY <2>1, <2>5 DEF PrintOK, OutputOK, NoStatus, Good
  <2>7. QED
    BY <2>2, <2>6 DEF JobOK
<1>4. QED
  BY <1>2, <1>3 DEF WalkInv

LEMMA WalkInvStep ==
  ASSUME WalkInv, UntrackedNear, [WalkNext]_vars
  PROVE  WalkInv'
<1>1. CASE UNCHANGED vars
  BY <1>1, WalkInvStutter DEF vars, execVars, walkVars, diskVars, coreVars
<1>2. CASE Stopped
  BY <1>1, <1>2 DEF Stopped
<1>3. CASE KeyboardInterrupt \/ Crash \/ NewWalk
  BY <1>3, KeyboardInterruptStep, CrashStep, NewWalkStep
<1>4. CASE \E u \in Vertex : \/ GetJob(u) \/ CollectSkipped(u) \/ StartJob(u)
                             \/ JobEnds(u) \/ Collect(u)
  BY <1>4, GetJobStep, CollectSkippedStep, StartJobStep, JobEndsStep, CollectOneStep
<1>5. QED
  BY <1>1, <1>2, <1>3, <1>4 DEF WalkNext

LEMMA WalkInvariant ==
  ASSUME UntrackedNear
  PROVE  WalkSpec => []WalkInv
<1>1. WalkInv /\ [WalkNext]_vars => WalkInv'
  BY WalkInvStep
<1>2. QED
  BY <1>1, WalkInvInit, PTL DEF WalkSpec

----------------------------------------------------------------------------
(* Why a job is executed, or fails without being executed.                 *)

TrackedFully(u) == ({u} \cup Ancestors(u)) \cap (campaign.late \cup campaign.untracked) = {}

FailedOrigins(u) ==
  {a \in Ancestors(u) : job[a] = "created" /\ job_status[a] \notin Good}

ReasonOK(u) ==
  /\ job[u] # "none" => \A a \in Ancestors(u) : status[a] = "done"
  /\ job[u] = "created" \/ result[u] = "skip" =>
       \A a \in Ancestors(u) : job_status[a] \in Good
  /\ result[u] = "force_fail" =>
       failure_source[u] # {} /\ failure_source[u] = FailedOrigins(u)
  /\ result[u] # "force_fail" => failure_source[u] = {}
  /\ job[u] = "created" /\ TrackedFully(u) => prev_fingerprints[u] # UpToDate(u)

ReasonInv == \A u \in Vertex : ReasonOK(u)

LEMMA ReasonInit == WalkInit => ReasonInv
BY DEF WalkInit, ForAll, NoStatus, ReasonInv, ReasonOK

\* A reason stays what it was as long as the job, and what is done, does.
LEMMA ReasonStays ==
  ASSUME WalkInv, NEW w \in Vertex, ReasonOK(w), UNCHANGED <<campaign, dag, source>>,
         \A v \in Vertex : status[v] = "done" =>
           status'[v] = "done" /\ job'[v] = job[v] /\ job_status'[v] = job_status[v],
         job'[w] = job[w], prev_fingerprints'[w] = prev_fingerprints[w],
         failure_source'[w] = failure_source[w],
         result'[w] = "skip" <=> result[w] = "skip",
         result'[w] = "force_fail" <=> result[w] = "force_fail"
  PROVE  ReasonOK(w)'
<1>1. Ancestors(w)' = Ancestors(w) /\ Ancestors(w) \subseteq Vertex
  BY DEF Ancestors
<1>2. UpToDate(w)' = UpToDate(w) /\ TrackedFully(w)' = TrackedFully(w)
  BY <1>1, SameUpToDate DEF TrackedFully
<1>3. result[w] \in {"skip", "force_fail"} => job[w] # "none"
  BY DEF WalkInv, JobOK, PlaceOK, NoStatus
<1>4. job[w] # "none" =>
        \A a \in Ancestors(w) : status[a] = "done" /\ status'[a] = "done"
                                /\ job'[a] = job[a] /\ job_status'[a] = job_status[a]
  BY <1>1 DEF ReasonOK
<1>5. job[w] # "none" => FailedOrigins(w)' = FailedOrigins(w)
  BY <1>1, <1>4 DEF FailedOrigins
<1>6. QED
  BY <1>1, <1>2, <1>3, <1>4, <1>5 DEF ReasonOK

\* The origins of the failure of a predecessor, itself if it was executed.
LEMMA OriginsOf ==
  ASSUME WalkInv, ReasonInv, NEW p \in Vertex, status[p] = "done"
  PROVE  {a \in {p} \cup Ancestors(p) : job[a] = "created" /\ job_status[a] \notin Good}
           = IF job_status[p] \in Good THEN {}
             ELSE IF failure_source[p] = {} THEN {p} ELSE failure_source[p]
<1>1. PlaceOK(p) /\ ReasonOK(p) /\ job[p] \in {"skipped", "created"}
  BY DEF WalkInv, WalkTypeOK, JobOK, ReasonInv, PlaceOK
<1>2. CASE job[p] = "created"
  <2>1. failure_source[p] = {} /\ \A a \in Ancestors(p) : job_status[a] \in Good
    BY <1>1, <1>2 DEF PlaceOK, ReasonOK
  <2>2. QED
    BY <1>2, <2>1
<1>3. CASE job[p] = "skipped" /\ result[p] = "skip"
  <2>1. job_status[p] \in Good /\ \A a \in Ancestors(p) : job_status[a] \in Good
    BY <1>1, <1>3 DEF PlaceOK, ReasonOK, Good
  <2>2. QED
    BY <1>3, <2>1
<1>4. CASE job[p] = "skipped" /\ result[p] = "force_fail"
  <2>1. job_status[p] \notin Good /\ failure_source[p] # {}
        /\ failure_source[p] = FailedOrigins(p)
    BY <1>1, <1>4 DEF PlaceOK, ReasonOK, Good
  <2>2. QED
    BY <1>4, <2>1 DEF FailedOrigins
<1>5. QED
  BY <1>1, <1>2, <1>3, <1>4 DEF PlaceOK

\* A job whose predecessors went well is executed because it changed.
LEMMA NeededRight ==
  ASSUME WalkInv, UntrackedNear, NEW u \in Vertex, Runnable(u),
         FailedPredecessors(u) = {}, TrackedFully(u),
         ShouldExecute(u, saved[u], Compute(u, TRUE, new_fingerprints))
  PROVE  saved[u] # UpToDate(u)
<1> DEFINE new == Compute(u, TRUE, new_fingerprints)
<1>1. \A p \in dag[u] : status[p] = "done" /\ job_status[p] \in Good
  BY DEF Runnable, FailedPredecessors
<1>2. dag[u] \subseteq Vertex /\ dag[u] \subseteq Ancestors(u)
  BY DagType, AncestorsStep
<1>3. /\ u \notin campaign.untracked /\ u \notin campaign.late
      /\ \A p \in dag[u] : p \notin campaign.untracked
  BY <1>2 DEF TrackedFully
<1>4. new = Compute(u, FALSE, new_fingerprints) /\ Tracked(u)
  BY <1>3 DEF Compute, Tracked
<1>5. new = UpToDate(u) /\ new # NoFingerprint
  BY <1>1, <1>3, <1>4, ComputeRight
<1>6. ASSUME NEW p \in dag[u] PROVE new_fingerprints[p] # NoFingerprint
  <2>1. dag[p] \cap campaign.untracked = {}
    BY DEF UntrackedNear, WalkInv, WalkTypeOK
  <2>2. Tracked(p)
    BY <1>3, <2>1 DEF Tracked
  <2>3. new_fingerprints[p] = UpToDate(p)
    BY <1>1, <1>2, <2>2 DEF WalkInv, JobOK, PrintOK
  <2>4. <<p, source[p]>> \in UpToDate(p)
    BY DEF UpToDate
  <2>5. QED
    BY <2>3, <2>4 DEF NoFingerprint
<1>7. saved[u] = NoFingerprint \/ saved[u] # new
  BY <1>5, <1>6 DEF ShouldExecute
<1>8. QED
  BY <1>5, <1>7

LEMMA GetJobReason ==
  ASSUME WalkInv, ReasonInv, UntrackedNear, NEW u \in Vertex, GetJob(u)
  PROVE  ReasonOK(u)'
<1> DEFINE new == Compute(u, TRUE, new_fingerprints)
           verdict == IF FailedPredecessors(u) # {} THEN "force_fail"
                      ELSE IF ~ShouldExecute(u, saved[u], new) THEN "skip"
                      ELSE NoStatus
           here(p) == {a \in {p} \cup Ancestors(p) :
                         job[a] = "created" /\ job_status[a] \notin Good}
<1>1. /\ Runnable(u) /\ job[u] = "none" /\ result[u] = NoStatus /\ status[u] = "waiting"
      /\ prev_fingerprints' = [prev_fingerprints EXCEPT ![u] = saved[u]]
      /\ job' = [job EXCEPT ![u] = IF verdict = NoStatus THEN "created" ELSE "skipped"]
      /\ result' = [result EXCEPT ![u] = verdict]
      /\ failure_source' = IF verdict = "force_fail"
                              THEN [failure_source EXCEPT ![u] = Origins(u)]
                              ELSE failure_source
      /\ UNCHANGED <<campaign, dag, status, job_status, source>>
  BY DEF GetJob, execVars, Runnable, WalkInv, JobOK, PlaceOK
<1>2. dag[u] \subseteq Vertex
      /\ Ancestors(u) = dag[u] \cup UNION {Ancestors(p) : p \in dag[u]}
  BY DagType, AncestorsStep
<1>3. \A p \in dag[u] : p \in Vertex /\ status[p] = "done" /\ job[p] # "none"
  BY <1>1, <1>2 DEF Runnable, WalkInv, JobOK, PlaceOK
<1>4. \A a \in Ancestors(u) : a \in Vertex /\ status[a] = "done" /\ a # u
  <2>1. SUFFICES ASSUME NEW a \in Ancestors(u) PROVE a \in Vertex /\ status[a] = "done"
    BY <1>1
  <2>2. CASE a \in dag[u]
    BY <1>3, <2>2
  <2>3. CASE a \notin dag[u]
    <3>1. PICK p \in dag[u] : a \in Ancestors(p)
      BY <1>2, <2>3
    <3>2. QED
      BY <1>3, <3>1 DEF ReasonInv, ReasonOK, Ancestors
  <2>4. QED
    BY <2>2, <2>3
<1>5. \A p \in dag[u] : here(p) = IF job_status[p] \in Good THEN {}
                                   ELSE IF failure_source[p] = {} THEN {p}
                                   ELSE failure_source[p]
  BY <1>3, OriginsOf
<1>6. FailedOrigins(u) = UNION {here(p) : p \in dag[u]}
  BY <1>2 DEF FailedOrigins
<1> HIDE DEF here
<1>7. Origins(u) = FailedOrigins(u)
  BY <1>5, <1>6 DEF Origins, FailedPredecessors
<1>8. FailedPredecessors(u) # {} => Origins(u) # {}
  BY <1>5 DEF Origins, FailedPredecessors
<1>9. FailedPredecessors(u) = {} => \A a \in Ancestors(u) : job_status[a] \in Good
  <2>1. SUFFICES ASSUME FailedPredecessors(u) = {}, NEW p \in dag[u]
                 PROVE  job_status[p] \in Good /\ \A a \in Ancestors(p) : job_status[a] \in Good
    BY <1>2
  <2>2. job_status[p] \in Good
    BY <2>1 DEF FailedPredecessors
  <2>3. job[p] = "created" \/ result[p] = "skip"
    BY <1>3, <2>2 DEF WalkInv, WalkTypeOK, JobOK, PlaceOK, Good
  <2>4. QED
    BY <1>3, <2>2, <2>3 DEF ReasonInv, ReasonOK
<1>10. failure_source[u] = {}
  BY <1>1 DEF ReasonInv, ReasonOK, NoStatus
<1>11. ShouldExecute(u, saved[u], new) /\ FailedPredecessors(u) = {} /\ TrackedFully(u)
         => saved[u] # UpToDate(u)
  BY <1>1, NeededRight
<1>12. /\ verdict = "force_fail" <=> FailedPredecessors(u) # {}
       /\ verdict = "skip" => FailedPredecessors(u) = {}
       /\ verdict = NoStatus => FailedPredecessors(u) = {} /\ ShouldExecute(u, saved[u], new)
       /\ verdict \in {"force_fail", "skip", NoStatus}
  BY DEF NoStatus
<1> HIDE DEF new, verdict
<1>13. /\ job'[u] = IF verdict = NoStatus THEN "created" ELSE "skipped"
       /\ \A a \in Ancestors(u) : job'[a] = job[a]
       /\ result'[u] = verdict /\ prev_fingerprints'[u] = saved[u]
       /\ failure_source'[u] = IF verdict = "force_fail" THEN Origins(u) ELSE {}
  BY <1>1, <1>4, <1>10 DEF WalkInv, WalkTypeOK
<1>14. Ancestors(u)' = Ancestors(u)
  BY <1>1 DEF Ancestors
<1>15. UpToDate(u)' = UpToDate(u) /\ TrackedFully(u)' = TrackedFully(u)
  BY <1>1, <1>14, SameUpToDate DEF TrackedFully
<1>16. FailedOrigins(u)' = FailedOrigins(u)
  BY <1>1, <1>13, <1>14 DEF FailedOrigins
<1>17. QED
  BY <1>1, <1>4, <1>7, <1>8, <1>9, <1>11, <1>12, <1>13, <1>14, <1>15, <1>16
     DEF ReasonOK, NoStatus

LEMMA GetJobStays ==
  ASSUME WalkInv, ReasonInv, NEW u \in Vertex, GetJob(u), NEW w \in Vertex \ {u}
  PROVE  ReasonOK(w)'
<1>1. /\ status[u] = "waiting"
      /\ \A v \in Vertex \ {u} :
           /\ prev_fingerprints'[v] = prev_fingerprints[v] /\ job'[v] = job[v]
           /\ result'[v] = result[v] /\ failure_source'[v] = failure_source[v]
      /\ UNCHANGED <<campaign, dag, status, job_status, source>>
  BY DEF GetJob, execVars, Runnable, WalkInv, WalkTypeOK
<1>2. QED
  BY <1>1, ReasonStays DEF ReasonInv

LEMMA OtherStays ==
  ASSUME WalkInv, ReasonInv,
         \/ \E u \in Vertex : \/ CollectSkipped(u) \/ StartJob(u)
                              \/ JobEnds(u) \/ Collect(u)
         \/ KeyboardInterrupt \/ Crash \/ UNCHANGED vars,
         NEW w \in Vertex
  PROVE  ReasonOK(w)'
<1>1. UNCHANGED <<campaign, dag, source, job, prev_fingerprints, failure_source>>
  BY DEF CollectSkipped, SkipJob, StartJob, Begin, JobEnds, Collect, Complete,
         KeyboardInterrupt, Crash, vars, execVars, walkVars, diskVars
<1>2. ReasonOK(w) /\ PlaceOK(w)
  BY DEF ReasonInv, WalkInv, JobOK
<1>3. ASSUME NEW u \in Vertex, CollectSkipped(u) \/ Collect(u) PROVE ReasonOK(w)'
  <2>1. result' = result /\ status[u] # "done" /\ CollectAll({u}, result)
    BY <1>3 DEF CollectSkipped, SkipJob, Runnable, Collect, Complete
  <2>2. \A v \in Vertex \ {u} : status'[v] = status[v]
    BY <1>3 DEF CollectSkipped, SkipJob, Collect, Complete, WalkInv, WalkTypeOK
  <2>3. \A v \in Vertex \ {u} : job_status'[v] = job_status[v]
    BY <2>1 DEF CollectAll
  <2>4. QED
    BY <1>1, <1>2, <2>1, <2>2, <2>3, ReasonStays
<1>4. ASSUME NEW u \in Vertex, StartJob(u) PROVE ReasonOK(w)'
  <2>1. job[u] = "created" /\ status[u] = "waiting"
        /\ UNCHANGED job_status /\ result' = [result EXCEPT ![u] = NoStatus]
        /\ status' = [status EXCEPT ![u] = "running"]
    BY <1>4 DEF StartJob, Begin, Runnable, walkVars
  <2>2. PlaceOK(u)
    BY DEF WalkInv, JobOK
  <2>3. \/ result'[w] = result[w]
        \/ result'[w] = NoStatus /\ result[w] \notin {"skip", "force_fail"}
    BY <2>1, <2>2 DEF PlaceOK, WalkInv, WalkTypeOK, JobOK
  <2>4. \A v \in Vertex : status[v] = "done" => status'[v] = "done"
    BY <2>1 DEF WalkInv, WalkTypeOK
  <2>5. QED
    BY <1>1, <1>2, <2>1, <2>3, <2>4, ReasonStays DEF NoStatus
<1>5. ASSUME NEW u \in Vertex, JobEnds(u) PROVE ReasonOK(w)'
  <2>1. PICK s \in IF u \in campaign.plain THEN {"success"} ELSE Outcomes :
          result' = [result EXCEPT ![u] = s]
    BY <1>5 DEF JobEnds
  <2>2. UNCHANGED <<status, job_status>> /\ job[u] = "created"
    BY <1>5 DEF JobEnds, execVars, walkVars, WalkInv, JobOK, PlaceOK
  <2>3. PlaceOK(u) /\ s \notin {"skip", "force_fail"}
    BY <2>1, WalkAssumption DEF WalkInv, JobOK
  <2>4. \/ result'[w] = result[w]
        \/ result'[w] = s /\ result[w] \notin {"skip", "force_fail"}
    BY <2>1, <2>2, <2>3 DEF PlaceOK, WalkInv, WalkTypeOK, JobOK
  <2>5. QED
    BY <1>1, <1>2, <2>2, <2>3, <2>4, ReasonStays
<1>6. CASE KeyboardInterrupt
  <2>1. UNCHANGED <<result, status>>
        /\ \E S \in SUBSET {v \in Vertex : status[v] = "running"} :
             CollectAll(S, InterruptedStatus)
    <3>1. PICK left \in {{}} \cup {{v} : v \in executing} :
            CollectAll({v \in Vertex : status[v] = "running"} \ left, InterruptedStatus)
      BY <1>6 DEF KeyboardInterrupt
    <3>2. QED
      BY <1>6, <3>1 DEF KeyboardInterrupt, execVars
  <2>2. \A v \in Vertex : status[v] = "done" => job_status'[v] = job_status[v]
    BY <2>1 DEF CollectAll
  <2>3. QED
    BY <1>1, <1>2, <2>1, <2>2, ReasonStays
<1>7. CASE Crash \/ UNCHANGED vars
  <2>1. UNCHANGED <<result, status, job_status>>
    BY <1>7 DEF Crash, vars, execVars, walkVars
  <2>2. QED
    BY <1>1, <1>2, <2>1, ReasonStays
<1>8. QED
  BY <1>3, <1>4, <1>5, <1>6, <1>7

LEMMA ReasonInvariant ==
  ASSUME UntrackedNear
  PROVE  WalkSpec => []ReasonInv
<1>1. ASSUME WalkInv, ReasonInv, [WalkNext]_vars PROVE ReasonInv'
  <2>1. CASE NewWalk
    BY <2>1 DEF NewWalk, ForAll, NoStatus, ReasonInv, ReasonOK
  <2>2. CASE \E u \in Vertex : GetJob(u)
    BY <1>1, <2>2, GetJobReason, GetJobStays DEF ReasonInv
  <2>3. CASE \/ \E u \in Vertex : \/ CollectSkipped(u) \/ StartJob(u)
                                  \/ JobEnds(u) \/ Collect(u)
             \/ KeyboardInterrupt \/ Crash \/ UNCHANGED vars
    BY <1>1, <2>3, OtherStays DEF ReasonInv
  <2>4. QED
    BY <1>1, <2>1, <2>2, <2>3 DEF WalkNext, Stopped
<1>2. QED
  BY <1>1, ReasonInit, WalkInvariant, PTL DEF WalkSpec

----------------------------------------------------------------------------
(* Theorems.                                                               *)

\* However many walks failed, crashed or were interrupted before, and whatever
\* the sources were then, an action that is done, executed or skipped, has the
\* output its sources call for, when the plain jobs it is made of have done what
\* they reported.
THEOREM DoneIsUpToDateHolds ==
  ASSUME UntrackedNear
  PROVE  WalkSpec => []DoneIsUpToDate
<1>1. WalkInv => DoneIsUpToDate
  BY DEF WalkInv, JobOK, OutputOK, DoneIsUpToDate
<1>2. QED
  BY <1>1, WalkInvariant, PTL

\* A fingerprint on disk is that of the last execution, which was not cut, when
\* the plain jobs it covers have done what they reported; and what is predicted to produce what is there already is not executed.
THEOREM IncrementalRightHolds ==
  ASSUME UntrackedNear
  PROVE  WalkSpec => []IncrementalRight
<1>1. WalkInv => SavedMeansDone
  BY DEF WalkInv, JobOK, OutputOK, SavedOK, SavedMeansDone, SavedIsOf
<1>2. ReasonInv => NoNeedlessRun
  BY DEF ReasonInv, ReasonOK, TrackedFully, NoNeedlessRun
<1>3. QED
  BY <1>1, <1>2, WalkInvariant, ReasonInvariant, PTL DEF IncrementalRight

\* What is blamed for the failure of a job that was not executed are the jobs
\* it depends on that were, and failed, through any number of jobs between.
THEOREM FailureSourceExactHolds ==
  ASSUME UntrackedNear
  PROVE  WalkSpec => []FailureSourceExact
<1>1. ReasonInv => FailureSourceExact
  BY DEF ReasonInv, ReasonOK, FailedOrigins, FailureSourceExact
<1>2. QED
  BY <1>1, ReasonInvariant, PTL

----------------------------------------------------------------------------
(* Checkouts.                                                              *)

Revision == [url : Urls \cup {"none"}, n : Nat]
WorkDirectory ==
  [dir : BOOLEAN, tree : Revision, half : BOOLEAN, edited : BOOLEAN, extra : BOOLEAN,
   is_git : BOOLEAN, git : Revision, svn : Revision, locked : BOOLEAN]
UpdatePlaces ==
  {"idle", "returned", "metadata", "git", "fetch", "checkout", "stash", "log", "svn",
   "svn command", "external"}
UpdateRecord ==
  [pc : UpdatePlaces, since : Nat, url : Urls \cup {NoUpdate.url}, changelog : BOOLEAN,
   wanted : Revision, was : WorkDirectory, old : Revision, new : Revision,
   result : {"none", "success", "unchanged", "failure"}]

CheckoutTypeOK ==
  /\ repository \in [Urls -> Nat]
  /\ wd \in WorkDirectory /\ update \in UpdateRecord
  /\ json \in [old : Revision, new : Revision, changelog : BOOLEAN]

\* HEAD is right whenever there is one.  The revision of .svn is, unless the
\* files were never all written, or git wrote its own over them.
DirectoryOK(d) ==
  /\ d.git # NoRev => d.is_git /\ d.tree = d.git
  /\ d.svn # NoRev =>
        /\ d.tree # NoRev
        /\ d.tree = d.svn \/ d.svn.n = 0 \/ (d.tree.url \in Urls /\ Vcs[d.tree.url] = "git")

\* Has the files of a revision that answers the call.
Answers(rev) == rev.url = update.url /\ rev.n >= update.since

SaysUnchangedOK ==
  \/ update.was.tree = wd.tree
  \/ Vcs[update.url] = "svn" /\ update.was.tree.url # update.url

UpdateOK ==
  /\ update.pc # "idle" =>
        update.url \in Urls /\ update.since \in 1..repository[update.url]
  /\ update.pc \in {"git", "svn", "external"} => Vcs[update.url] = update.pc /\ wd = update.was
  /\ update.pc \in {"fetch", "checkout", "stash", "log"} => Vcs[update.url] = "git"
  /\ update.pc \in {"fetch", "checkout", "stash"} => wd.is_git /\ update.old = update.was.git
  /\ update.pc = "checkout" => Answers(update.wanted)
  /\ update.pc = "stash" =>
        Answers(wd.tree) /\ ~wd.half /\ ~wd.edited /\ update.new = wd.tree
  /\ update.pc = "svn command" =>
        /\ Vcs[update.url] = "svn" /\ Answers(update.wanted) /\ update.old = update.was.svn
        /\ ~wd.extra /\ ~wd.edited /\ wd.git = NoRev

FilesOK ==
  /\ Answers(wd.tree) /\ ~wd.half /\ ~wd.extra /\ update.new = wd.tree
  /\ wd.edited => Vcs[update.url] = "external" /\ update.was.edited
  /\ update.result = "unchanged" => SaysUnchangedOK

ResultOK ==
  /\ update.pc \in {"log", "metadata"} /\ update.result # "failure" =>
        FilesOK /\ update.result # "none"
  /\ update.pc = "log" => update.changelog /\ update.result # "failure"
  /\ update.pc \notin {"idle", "metadata", "returned"} => ~json.changelog
  /\ update.pc = "metadata" =>
        json.changelog = (/\ update.result # "failure" /\ Vcs[update.url] = "git"
                          /\ update.changelog)

CheckoutInv ==
  /\ CheckoutTypeOK
  /\ \A u \in Urls : repository[u] >= 1
  /\ \A r \in remotes : r[1] = r[2]
  /\ DirectoryOK(wd) /\ DirectoryOK(update.was)
  /\ UpdateOK /\ ResultOK
  /\ CheckoutRight

LEMMA RevisionTypes ==
  /\ NoRev \in Revision /\ NoRev.url = "none" /\ NoRev.n = 0
  /\ \A u \in Urls, n \in Nat :
       Rev(u, n) \in Revision /\ Rev(u, n).url = u /\ Rev(u, n).n = n /\ Rev(u, n) # NoRev
  /\ NoDirectory \in WorkDirectory /\ DirectoryOK(NoDirectory)
  /\ NoUpdate \in UpdateRecord /\ NoUpdate.pc = "idle" /\ NoUpdate.was = NoDirectory
<1>1. NoRev \in Revision /\ NoRev.url = "none" /\ NoRev.n = 0 BY DEF NoRev, Rev, Revision
<1>2. \A u \in Urls, n \in Nat :
       Rev(u, n) \in Revision /\ Rev(u, n).url = u /\ Rev(u, n).n = n /\ Rev(u, n) # NoRev
  BY NoneAssumption DEF NoRev, Rev, Revision
<1>3. NoDirectory \in WorkDirectory BY <1>1 DEF NoDirectory, WorkDirectory
<1>4. DirectoryOK(NoDirectory) BY DEF NoDirectory, DirectoryOK
<1>5. NoUpdate \in UpdateRecord
  BY <1>1, <1>3 DEF NoUpdate, UpdateRecord, UpdatePlaces
<1>6. NoUpdate.pc = "idle" /\ NoUpdate.was = NoDirectory BY DEF NoUpdate
<1>7. QED BY <1>1, <1>2, <1>3, <1>4, <1>5, <1>6

LEMMA CheckoutInvInit == CheckoutInit => CheckoutInv
<1> SUFFICES ASSUME CheckoutInit PROVE CheckoutInv OBVIOUS
<1>1. CheckoutTypeOK
  BY RevisionTypes DEF CheckoutInit, CheckoutTypeOK, NoJson
<1>2. update.pc = "idle" /\ DirectoryOK(wd) /\ DirectoryOK(update.was)
  BY RevisionTypes DEF CheckoutInit
<1>3. UpdateOK /\ ResultOK /\ CheckoutRight
  BY <1>2 DEF UpdateOK, ResultOK, CheckoutRight, Done
<1>4. QED BY <1>1, <1>2, <1>3 DEF CheckoutInv, CheckoutInit

\* Between two calls.
LEMMA NoUpdateStep ==
  ASSUME CheckoutInv, update' = NoUpdate, wd' \in WorkDirectory, DirectoryOK(wd'),
         json' = json, remotes' = remotes, repository' = repository
  PROVE  CheckoutInv'
<1>1. CheckoutTypeOK' BY RevisionTypes DEF CheckoutInv, CheckoutTypeOK
<1>2. update'.pc = "idle" /\ DirectoryOK(wd)' /\ DirectoryOK(update.was)'
  BY RevisionTypes DEF DirectoryOK
<1>3. UpdateOK' /\ ResultOK' /\ CheckoutRight'
  BY <1>2 DEF UpdateOK, ResultOK, CheckoutRight, Done
<1>4. QED BY <1>1, <1>2, <1>3 DEF CheckoutInv

LEMMA CommitStep ==
  ASSUME CheckoutInv, NEW u \in Urls, Commit(u)
  PROVE  CheckoutInv'
<1>1. repository' = [repository EXCEPT ![u] = @ + 1] /\ UNCHANGED <<wd, remotes, update, json>>
  BY DEF Commit
<1>2. repository' \in [Urls -> Nat] /\ \A v \in Urls : repository'[v] >= repository[v]
  BY <1>1 DEF CheckoutInv, CheckoutTypeOK
<1>3. CheckoutTypeOK' BY <1>1, <1>2 DEF CheckoutInv, CheckoutTypeOK
<1>4. \A v \in Urls : repository'[v] >= 1
  BY <1>2 DEF CheckoutInv, CheckoutTypeOK
<1>5. update.url \in Urls /\ update.since \in 1..repository[update.url] =>
        update'.url \in Urls /\ update'.since \in 1..repository'[update'.url]
  BY <1>1, <1>2 DEF CheckoutInv, CheckoutTypeOK
<1>6. UpdateOK' BY <1>1, <1>5 DEF CheckoutInv, UpdateOK, Answers
<1>7. ResultOK' BY <1>1 DEF CheckoutInv, ResultOK, FilesOK, Answers, SaysUnchangedOK
<1>8. CheckoutRight' BY <1>1 DEF CheckoutInv, CheckoutRight, Done
<1>9. QED BY <1>1, <1>3, <1>4, <1>6, <1>7, <1>8 DEF CheckoutInv, DirectoryOK

LEMMA CheckoutStutter ==
  ASSUME CheckoutInv, UNCHANGED checkoutVars
  PROVE  CheckoutInv'
<1>1. UNCHANGED <<repository, wd, remotes, update, json>> BY DEF checkoutVars
<1>2. CheckoutTypeOK' BY <1>1 DEF CheckoutInv, CheckoutTypeOK
<1>3. UpdateOK' BY <1>1 DEF CheckoutInv, UpdateOK, Answers
<1>4. ResultOK' BY <1>1 DEF CheckoutInv, ResultOK, FilesOK, Answers, SaysUnchangedOK
<1>5. CheckoutRight' BY <1>1 DEF CheckoutInv, CheckoutRight, Done
<1>6. QED BY <1>1, <1>2, <1>3, <1>4, <1>5 DEF CheckoutInv, DirectoryOK

LEMMA EditFileStep ==
  ASSUME CheckoutInv, EditFile
  PROVE  CheckoutInv'
<1>1. wd \in WorkDirectory /\ DirectoryOK(wd) BY DEF CheckoutInv, CheckoutTypeOK
<1>2. wd' \in WorkDirectory /\ wd'.tree = wd.tree /\ wd'.git = wd.git /\ wd'.svn = wd.svn
      /\ wd'.is_git = wd.is_git
  BY <1>1 DEF EditFile, WorkDirectory
<1>3. DirectoryOK(wd') BY <1>1, <1>2 DEF DirectoryOK
<1>4. QED BY <1>2, <1>3, NoUpdateStep DEF EditFile

LEMMA StartUpdateStep ==
  ASSUME CheckoutInv, NEW u \in Urls, NEW changelog \in BOOLEAN, StartUpdate(u, changelog)
  PROVE  CheckoutInv'
<1>1. update' = [NoUpdate EXCEPT !.pc = Vcs[u], !.url = u, !.changelog = changelog,
                                 !.was = wd, !.since = repository[u]]
      /\ json' = [json EXCEPT !.changelog = FALSE]
      /\ UNCHANGED <<repository, wd, remotes>>
  BY DEF StartUpdate
<1>2. wd \in WorkDirectory /\ repository[u] \in Nat /\ repository[u] >= 1
      /\ json \in [old : Revision, new : Revision, changelog : BOOLEAN]
  BY DEF CheckoutInv, CheckoutTypeOK
<1>3. /\ update'.pc = Vcs[u] /\ update'.url = u /\ update'.was = wd
      /\ update'.since = repository[u] /\ update' \in UpdateRecord
  BY <1>1, <1>2, RevisionTypes, VcsAssumption DEF UpdateRecord, UpdatePlaces
<1>4. Vcs[u] \in {"git", "svn", "external"} BY VcsAssumption
<1>5. CheckoutTypeOK' BY <1>1, <1>2, <1>3 DEF CheckoutInv, CheckoutTypeOK
<1>6. UpdateOK'
  <2>1. update'.url \in Urls /\ update'.since \in 1..repository'[update'.url]
    BY <1>1, <1>2, <1>3
  <2>2. wd' = update'.was BY <1>1, <1>3
  <2>3. Vcs[update'.url] = update'.pc BY <1>3
  <2>4. update'.pc \notin {"fetch", "checkout", "stash", "log", "svn command"}
    BY <1>3, <1>4
  <2>5. QED BY <2>1, <2>2, <2>3, <2>4 DEF UpdateOK
<1>7. ResultOK' BY <1>1, <1>2, <1>3, <1>4 DEF ResultOK
<1>8. CheckoutRight' BY <1>3, <1>4 DEF CheckoutRight, Done
<1>9. QED BY <1>1, <1>3, <1>5, <1>6, <1>7, <1>8 DEF CheckoutInv, DirectoryOK

LEMMA WriteMetadataStep ==
  ASSUME CheckoutInv, WriteMetadata
  PROVE  CheckoutInv'
<1>1. update.pc = "metadata" /\ update' = [update EXCEPT !.pc = "returned"]
      /\ json' = [json EXCEPT !.old = update.old, !.new = update.new]
      /\ UNCHANGED <<repository, wd, remotes>>
  BY DEF WriteMetadata, Then, Counted
<1>2. update \in UpdateRecord /\ json \in [old : Revision, new : Revision, changelog : BOOLEAN]
  BY DEF CheckoutInv, CheckoutTypeOK
<1>3. /\ update' \in UpdateRecord /\ update'.pc = "returned" /\ update'.url = update.url
      /\ update'.was = update.was /\ update'.since = update.since /\ update'.old = update.old
      /\ update'.new = update.new /\ update'.result = update.result
      /\ update'.changelog = update.changelog
  BY <1>1, <1>2 DEF UpdateRecord, UpdatePlaces
<1>4. json' = [old |-> update.old, new |-> update.new, changelog |-> json.changelog]
  BY <1>1, <1>2
<1>5. CheckoutTypeOK'
  BY <1>1, <1>2, <1>3, <1>4 DEF CheckoutInv, CheckoutTypeOK, UpdateRecord
<1>6. UpdateOK' BY <1>1, <1>3 DEF CheckoutInv, UpdateOK
<1>7. ResultOK' BY <1>3 DEF ResultOK
<1>8. CheckoutRight'
  <2>1. json.changelog = (/\ update.result # "failure" /\ Vcs[update.url] = "git"
                          /\ update.changelog)
    BY <1>1 DEF CheckoutInv, ResultOK
  <2>2. update.result # "failure" => FilesOK /\ update.result # "none"
    BY <1>1 DEF CheckoutInv, ResultOK
  <2>3. CASE update.result = "failure" BY <1>3, <1>4, <2>1, <2>3 DEF CheckoutRight, Done
  <2>4. CASE update.result # "failure"
    <3>1. json' = [old |-> update'.old, new |-> wd'.tree,
                   changelog |-> Vcs[update'.url] = "git" /\ update'.changelog]
      BY <1>1, <1>3, <1>4, <2>1, <2>2, <2>4 DEF FilesOK
    <3>2. QED
      BY <1>1, <1>3, <2>2, <2>4, <3>1
      DEF FilesOK, Answers, SaysUnchangedOK, CheckoutRight, Done
  <2>5. QED BY <2>3, <2>4
<1>9. QED BY <1>1, <1>3, <1>5, <1>6, <1>7, <1>8 DEF CheckoutInv, DirectoryOK

LEMMA GitInitStep ==
  ASSUME CheckoutInv, GitInit
  PROVE  CheckoutInv'
<1>1. /\ update.pc = "git" /\ UNCHANGED <<repository, json>>
      /\ wd' = [wd EXCEPT !.dir = TRUE, !.is_git = TRUE,
                          !.extra = @ \/ (wd.tree # NoRev /\ ~wd.is_git)]
      /\ update' = [update EXCEPT !.pc = "fetch", !.old = wd.git]
  BY DEF GitInit, Counted
<1>2. wd \in WorkDirectory /\ update \in UpdateRecord /\ DirectoryOK(wd)
  BY DEF CheckoutInv, CheckoutTypeOK
<1>3. /\ wd' \in WorkDirectory /\ wd'.tree = wd.tree /\ wd'.git = wd.git /\ wd'.svn = wd.svn
      /\ wd'.is_git
  BY <1>1, <1>2 DEF WorkDirectory
<1>4. /\ update'.pc = "fetch" /\ update'.url = update.url /\ update'.was = update.was
      /\ update'.since = update.since /\ update'.old = wd.git /\ update' \in UpdateRecord
  BY <1>1, <1>2 DEF UpdateRecord, UpdatePlaces, WorkDirectory
<1>5. Vcs[update.url] = "git" /\ wd = update.was BY <1>1 DEF CheckoutInv, UpdateOK
<1>6. CheckoutTypeOK' BY <1>1, <1>3, <1>4 DEF CheckoutInv, CheckoutTypeOK
<1>7. \A r \in remotes' : r[1] = r[2]
  <2>1. remotes' \subseteq remotes \cup {<<update.url, update.url>>}
    BY DEF GitInit, RemoteName
  <2>2. QED BY <2>1 DEF CheckoutInv
<1>8. DirectoryOK(wd') BY <1>2, <1>3 DEF DirectoryOK
<1>9. UpdateOK' BY <1>1, <1>3, <1>4, <1>5 DEF CheckoutInv, UpdateOK
<1>10. ResultOK' BY <1>1, <1>4 DEF CheckoutInv, ResultOK
<1>11. CheckoutRight' BY <1>4 DEF CheckoutRight, Done
<1>12. QED
  BY <1>1, <1>4, <1>6, <1>7, <1>8, <1>9, <1>10, <1>11 DEF CheckoutInv, DirectoryOK

LEMMA FetchStep ==
  ASSUME CheckoutInv, Fetch
  PROVE  CheckoutInv'
<1>1. PICK r \in remotes :
        /\ r[1] = update.url
        /\ update' = [update EXCEPT !.pc = "checkout", !.wanted = Rev(r[2], repository[r[2]])]
  BY DEF Fetch, RemoteName
<1>2. update.pc = "fetch" /\ UNCHANGED <<repository, wd, remotes, json>> BY DEF Fetch, Counted
<1>3. r[2] = update.url BY <1>1 DEF CheckoutInv
<1>4. update \in UpdateRecord /\ update.url \in Urls /\ repository[update.url] \in Nat
      /\ update.since \in 1..repository[update.url]
  BY <1>2 DEF CheckoutInv, CheckoutTypeOK, UpdateOK
<1> DEFINE rev == Rev(update.url, repository[update.url])
<1>5. rev \in Revision /\ rev.url = update.url /\ rev.n = repository[update.url]
  BY <1>4, RevisionTypes
<1> HIDE DEF rev
<1>6. /\ update'.pc = "checkout" /\ update'.url = update.url /\ update'.was = update.was
      /\ update'.since = update.since /\ update'.old = update.old /\ update'.wanted = rev
      /\ update' \in UpdateRecord
  BY <1>1, <1>3, <1>4, <1>5 DEF UpdateRecord, UpdatePlaces, rev
<1>7. CheckoutTypeOK' BY <1>2, <1>6 DEF CheckoutInv, CheckoutTypeOK
<1>8. UpdateOK'
  <2>1. Answers(update.wanted)' BY <1>4, <1>5, <1>6 DEF Answers
  <2>2. QED BY <1>2, <1>6, <2>1 DEF CheckoutInv, UpdateOK
<1>9. ResultOK' BY <1>2, <1>6 DEF CheckoutInv, ResultOK
<1>10. CheckoutRight' BY <1>6 DEF CheckoutRight, Done
<1>11. QED BY <1>2, <1>6, <1>7, <1>8, <1>9, <1>10 DEF CheckoutInv, DirectoryOK

\* A command that fails, or does nothing, changes what it may leave half done.
LEMMA FailureStep ==
  ASSUME CheckoutInv, wd' \in WorkDirectory, DirectoryOK(wd'),
         update' = [update EXCEPT !.pc = "metadata", !.result = "failure"],
         update.pc \notin {"idle", "metadata", "returned"},
         UNCHANGED <<repository, remotes, json>>
  PROVE  CheckoutInv'
<1>1. update \in UpdateRecord BY DEF CheckoutInv, CheckoutTypeOK
<1>2. /\ update'.pc = "metadata" /\ update'.url = update.url /\ update'.was = update.was
      /\ update'.since = update.since /\ update'.result = "failure"
      /\ update' \in UpdateRecord
  BY <1>1 DEF UpdateRecord, UpdatePlaces
<1>3. CheckoutTypeOK' BY <1>2 DEF CheckoutInv, CheckoutTypeOK
<1>4. UpdateOK' BY <1>2 DEF CheckoutInv, UpdateOK
<1>5. ResultOK'
  <2>1. json'.changelog = FALSE BY DEF CheckoutInv, ResultOK, CheckoutTypeOK
  <2>2. QED BY <1>2, <2>1 DEF ResultOK
<1>6. CheckoutRight' BY <1>2 DEF CheckoutRight, Done
<1>7. QED BY <1>2, <1>3, <1>4, <1>5, <1>6 DEF CheckoutInv, DirectoryOK

LEMMA CheckoutActionStep ==
  ASSUME CheckoutInv, Checkout
  PROVE  CheckoutInv'
<1>1. update.pc = "checkout" /\ UNCHANGED <<repository, remotes, json>>
  BY DEF Checkout, Counted
<1>2. wd \in WorkDirectory /\ update \in UpdateRecord /\ DirectoryOK(wd)
  BY DEF CheckoutInv, CheckoutTypeOK
<1>3. CASE wd.locked
  <2>1. UNCHANGED wd /\ update' = [update EXCEPT !.pc = "metadata", !.result = "failure"]
    BY <1>3 DEF Checkout
  <2>2. QED BY <1>1, <1>2, <2>1, FailureStep
<1>4. CASE ~wd.locked
  <2> DEFINE rev == update.wanted
  <2>1. /\ wd' = [wd EXCEPT !.tree = rev, !.half = FALSE, !.edited = FALSE, !.git = rev]
        /\ update' = [update EXCEPT !.pc = "stash", !.new = update.wanted]
    BY <1>4 DEF Checkout, CheckedOut
  <2>2. rev \in Revision /\ Answers(rev) /\ Vcs[update.url] = "git" /\ wd.is_git
        /\ update.old = update.was.git /\ update.url \in Urls
        /\ update.since \in 1..repository[update.url] /\ repository[update.url] \in Nat
    BY <1>1, <1>2 DEF CheckoutInv, UpdateOK, UpdateRecord, CheckoutTypeOK
  <2>3. rev # NoRev BY <2>2, RevisionTypes, NoneAssumption DEF Answers
  <2>4. /\ wd' \in WorkDirectory /\ wd'.tree = rev /\ wd'.git = rev /\ wd'.svn = wd.svn
        /\ wd'.is_git /\ ~wd'.half /\ ~wd'.edited
    BY <1>2, <2>1, <2>2 DEF WorkDirectory
  <2>5. /\ update'.pc = "stash" /\ update'.url = update.url /\ update'.was = update.was
        /\ update'.since = update.since /\ update'.old = update.old /\ update'.new = rev
        /\ update' \in UpdateRecord
    BY <1>2, <2>1, <2>2 DEF UpdateRecord, UpdatePlaces
  <2> HIDE DEF rev
  <2>6. CheckoutTypeOK' BY <1>1, <2>4, <2>5 DEF CheckoutInv, CheckoutTypeOK
  <2>7. DirectoryOK(wd') BY <2>2, <2>3, <2>4 DEF DirectoryOK, Answers
  <2>8. UpdateOK'
    <3>1. Answers(wd.tree)' BY <2>2, <2>4, <2>5 DEF Answers
    <3>2. QED BY <1>1, <2>2, <2>4, <2>5, <3>1 DEF UpdateOK
  <2>9. ResultOK' BY <1>1, <2>5 DEF CheckoutInv, ResultOK
  <2>10. CheckoutRight' BY <2>5 DEF CheckoutRight, Done
  <2>11. QED
    BY <1>1, <2>5, <2>6, <2>7, <2>8, <2>9, <2>10 DEF CheckoutInv, DirectoryOK
<1>5. QED BY <1>3, <1>4

LEMMA StashStep ==
  ASSUME CheckoutInv, Stash
  PROVE  CheckoutInv'
<1>1. /\ update.pc = "stash" /\ UNCHANGED <<repository, remotes, json>>
      /\ wd' = [wd EXCEPT !.extra = FALSE, !.svn = NoRev]
      /\ update' = [update EXCEPT !.result = Result(update.old, update.new),
                                  !.pc = IF update.changelog THEN "log" ELSE "metadata"]
  BY DEF Stash, Counted, Stashed
<1>2. wd \in WorkDirectory /\ update \in UpdateRecord /\ DirectoryOK(wd)
      /\ DirectoryOK(update.was) /\ json.changelog \in BOOLEAN
  BY DEF CheckoutInv, CheckoutTypeOK
<1>3. /\ Vcs[update.url] = "git" /\ wd.is_git /\ update.old = update.was.git
      /\ Answers(wd.tree) /\ ~wd.half /\ ~wd.edited /\ update.new = wd.tree
      /\ update.url \in Urls /\ update.since \in 1..repository[update.url]
  BY <1>1 DEF CheckoutInv, UpdateOK
<1>4. /\ wd' \in WorkDirectory /\ wd'.tree = wd.tree /\ wd'.git = wd.git /\ wd'.svn = NoRev
      /\ wd'.is_git = wd.is_git /\ wd'.half = wd.half /\ wd'.edited = wd.edited /\ ~wd'.extra
  BY <1>1, <1>2, RevisionTypes DEF WorkDirectory
<1>5. Result(update.old, update.new) \in {"success", "unchanged"}
      /\ (Result(update.old, update.new) = "unchanged" => update.old = update.new)
  BY DEF Result
<1>6. /\ update'.url = update.url /\ update'.was = update.was /\ update'.since = update.since
      /\ update'.old = update.old /\ update'.new = update.new
      /\ update'.changelog = update.changelog /\ update.changelog \in BOOLEAN
      /\ update'.result = Result(update.old, update.new)
      /\ update'.pc = (IF update.changelog THEN "log" ELSE "metadata")
      /\ update' \in UpdateRecord
  BY <1>1, <1>2, <1>5 DEF UpdateRecord, UpdatePlaces
<1>7. CheckoutTypeOK' BY <1>1, <1>4, <1>6 DEF CheckoutInv, CheckoutTypeOK
<1>8. DirectoryOK(wd') BY <1>2, <1>4 DEF DirectoryOK
<1>9. UpdateOK' BY <1>1, <1>3, <1>6 DEF UpdateOK
<1>10. FilesOK'
  <2>1. wd.tree # NoRev BY <1>3, RevisionTypes, NoneAssumption DEF Answers
  <2>2. update.old = update.new => update.was.tree = wd.tree
    BY <1>2, <1>3, <2>1 DEF DirectoryOK
  <2>3. QED
    BY <1>3, <1>4, <1>5, <1>6, <2>2 DEF FilesOK, Answers, SaysUnchangedOK
<1>11. ResultOK'
  <2>1. json'.changelog = FALSE BY <1>1, <1>2 DEF CheckoutInv, ResultOK
  <2>2. update'.result # "failure" /\ update'.result # "none" BY <1>5, <1>6
  <2>3. QED BY <1>6, <1>10, <2>1, <2>2 DEF ResultOK
<1>12. CheckoutRight' BY <1>6 DEF CheckoutRight, Done
<1>13. QED
  BY <1>1, <1>2, <1>6, <1>7, <1>8, <1>9, <1>11, <1>12 DEF CheckoutInv, DirectoryOK

LEMMA WriteLogStep ==
  ASSUME CheckoutInv, WriteLog
  PROVE  CheckoutInv'
<1>1. /\ update.pc = "log" /\ UNCHANGED <<repository, wd, remotes>>
      /\ json' = [json EXCEPT !.changelog = TRUE]
      /\ update' = [update EXCEPT !.pc = "metadata"]
  BY DEF WriteLog, Counted, Then
<1>2. wd \in WorkDirectory /\ update \in UpdateRecord
      /\ json \in [old : Revision, new : Revision, changelog : BOOLEAN]
  BY DEF CheckoutInv, CheckoutTypeOK
<1>3. /\ update'.url = update.url /\ update'.was = update.was /\ update'.since = update.since
      /\ update'.old = update.old /\ update'.new = update.new
      /\ update'.changelog = update.changelog /\ update'.result = update.result
      /\ update'.pc = "metadata" /\ update' \in UpdateRecord
  BY <1>1, <1>2 DEF UpdateRecord, UpdatePlaces
<1>4. json' \in [old : Revision, new : Revision, changelog : BOOLEAN] /\ json'.changelog = TRUE
  BY <1>1, <1>2
<1>5. CheckoutTypeOK' BY <1>1, <1>3, <1>4 DEF CheckoutInv, CheckoutTypeOK
<1>6. UpdateOK' BY <1>1, <1>3 DEF CheckoutInv, UpdateOK
<1>7. /\ FilesOK /\ update.result # "none" /\ update.result # "failure" /\ update.changelog
      /\ Vcs[update.url] = "git"
  BY <1>1 DEF CheckoutInv, ResultOK, UpdateOK
<1>8. FilesOK' BY <1>1, <1>3, <1>7 DEF FilesOK, Answers, SaysUnchangedOK
<1>9. ResultOK' BY <1>3, <1>4, <1>7, <1>8 DEF ResultOK
<1>10. CheckoutRight' BY <1>3 DEF CheckoutRight, Done
<1>11. QED BY <1>1, <1>3, <1>5, <1>6, <1>9, <1>10 DEF CheckoutInv, DirectoryOK

LEMMA SvnStartStep ==
  ASSUME CheckoutInv, SvnStart
  PROVE  CheckoutInv'
<1> DEFINE rev == Rev(update.url, repository[update.url])
<1>1. /\ update.pc = "svn" /\ UNCHANGED <<repository, remotes, json>>
      /\ wd' = IF UpdatesInPlace THEN wd ELSE [NoDirectory EXCEPT !.dir = TRUE]
  BY DEF SvnStart, Counted
<1>2. update' = [update EXCEPT !.old = wd.svn, !.wanted = rev, !.pc = "svn command"]
  BY DEF SvnStart, UpdatesInPlace
<1>3. wd \in WorkDirectory /\ update \in UpdateRecord /\ DirectoryOK(wd)
      /\ DirectoryOK(update.was)
  BY DEF CheckoutInv, CheckoutTypeOK
<1>4. /\ Vcs[update.url] = "svn" /\ wd = update.was /\ update.url \in Urls
      /\ update.since \in 1..repository[update.url] /\ repository[update.url] \in Nat
  BY <1>1 DEF CheckoutInv, UpdateOK, CheckoutTypeOK
<1>5. rev \in Revision /\ rev.url = update.url /\ rev.n = repository[update.url]
  BY <1>4, RevisionTypes
<1> HIDE DEF rev
<1>6. /\ update'.url = update.url /\ update'.was = update.was /\ update'.since = update.since
      /\ update'.old = wd.svn /\ update'.wanted = rev
      /\ update'.pc = "svn command" /\ update' \in UpdateRecord
  BY <1>2, <1>3, <1>5 DEF UpdateRecord, UpdatePlaces, WorkDirectory
<1>7. wd' \in WorkDirectory /\ DirectoryOK(wd') /\ ~wd'.extra /\ ~wd'.edited /\ wd'.git = NoRev
  <2>1. CASE UpdatesInPlace
    BY <1>1, <1>3, <2>1 DEF UpdatesInPlace, IsClean, DirectoryOK
  <2>2. CASE ~UpdatesInPlace
    <3>1. /\ wd' \in WorkDirectory /\ wd'.git = NoRev /\ wd'.svn = NoRev
          /\ ~wd'.extra /\ ~wd'.edited
      BY <1>1, <2>2, RevisionTypes DEF NoDirectory, WorkDirectory
    <3>2. QED BY <3>1 DEF DirectoryOK
  <2>3. QED BY <2>1, <2>2
<1>8. CheckoutTypeOK' BY <1>1, <1>6, <1>7 DEF CheckoutInv, CheckoutTypeOK
<1>9. UpdateOK'
  <2>1. Answers(update.wanted)'
    <3>1. rev.n >= update.since BY <1>4, <1>5
    <3>2. QED BY <1>5, <1>6, <3>1 DEF Answers
  <2>2. QED BY <1>1, <1>4, <1>6, <1>7, <2>1 DEF UpdateOK
<1>10. ResultOK' BY <1>1, <1>6 DEF CheckoutInv, ResultOK
<1>11. CheckoutRight' BY <1>6 DEF CheckoutRight, Done
<1>12. QED
  BY <1>1, <1>3, <1>6, <1>7, <1>8, <1>9, <1>10, <1>11 DEF CheckoutInv, DirectoryOK

LEMMA SvnCommandStep ==
  ASSUME CheckoutInv, SvnCommand
  PROVE  CheckoutInv'
<1> DEFINE rev == update.wanted
           said == Result(update.old.n, rev.n)
<1>1. /\ update.pc = "svn command" /\ UNCHANGED <<repository, remotes, json>>
      /\ wd' = [wd EXCEPT !.tree = rev, !.svn = rev, !.half = FALSE]
      /\ update' = [update EXCEPT !.pc = "metadata", !.new = rev, !.result = said]
  BY DEF SvnCommand, Counted
<1>2. wd \in WorkDirectory /\ update \in UpdateRecord /\ DirectoryOK(update.was)
      /\ rev \in Revision
  BY DEF CheckoutInv, CheckoutTypeOK, UpdateRecord
<1>3. /\ Vcs[update.url] = "svn" /\ Answers(rev) /\ update.old = update.was.svn
      /\ ~wd.extra /\ ~wd.edited /\ wd.git = NoRev
      /\ update.url \in Urls /\ update.since \in 1..repository[update.url]
      /\ repository[update.url] \in Nat
  BY <1>1 DEF CheckoutInv, UpdateOK, CheckoutTypeOK
<1>4. said \in {"success", "unchanged"} /\ (said = "unchanged" => update.old.n = rev.n)
  BY DEF Result
<1> HIDE DEF said, rev
<1>5. /\ wd' \in WorkDirectory /\ wd'.tree = rev /\ wd'.git = wd.git /\ wd'.svn = rev
      /\ ~wd'.half /\ ~wd'.edited /\ ~wd'.extra
  BY <1>1, <1>2, <1>3 DEF WorkDirectory
<1>6. /\ update'.url = update.url /\ update'.was = update.was /\ update'.since = update.since
      /\ update'.new = rev /\ update'.result = said
      /\ update'.pc = "metadata" /\ update' \in UpdateRecord
  BY <1>1, <1>2, <1>4 DEF UpdateRecord, UpdatePlaces
<1>7. rev # NoRev /\ rev.n \in Nat /\ rev.n >= 1 /\ rev.url = update.url
  BY <1>2, <1>3, RevisionTypes, NoneAssumption DEF Answers, Revision
<1>8. DirectoryOK(wd') BY <1>3, <1>5, <1>7 DEF DirectoryOK
<1>9. CheckoutTypeOK' BY <1>1, <1>5, <1>6 DEF CheckoutInv, CheckoutTypeOK
<1>10. UpdateOK' BY <1>1, <1>3, <1>6 DEF UpdateOK
<1>11. FilesOK'
  <2>1. ASSUME update.old.n = rev.n
        PROVE  update.was.tree = rev \/ update.was.tree.url # update.url
    <3> DEFINE d == update.was
    <3>1. d.svn.n = rev.n /\ d.svn # NoRev BY <1>3, <1>7, <2>1, RevisionTypes
    <3>2. d.tree = d.svn \/ (d.tree.url \in Urls /\ Vcs[d.tree.url] = "git")
      BY <1>2, <1>7, <3>1 DEF DirectoryOK
    <3>3. CASE d.tree.url \in Urls /\ Vcs[d.tree.url] = "git" BY <1>3, <3>3
    <3>4. CASE d.tree = d.svn /\ d.tree.url = update.url
      <4>1. d.svn \in Revision /\ rev \in Revision BY <1>2 DEF UpdateRecord, WorkDirectory
      <4>2. d.svn.url = rev.url /\ d.svn.n = rev.n BY <1>7, <3>1, <3>4
      <4>3. d.svn = rev BY <4>1, <4>2 DEF Revision
      <4>4. QED BY <4>3, <3>4
    <3>5. QED BY <3>2, <3>3, <3>4
  <2>2. said = "unchanged" => SaysUnchangedOK'
    BY <1>3, <1>4, <1>5, <1>6, <2>1 DEF SaysUnchangedOK
  <2>3. Answers(wd.tree)' BY <1>3, <1>5, <1>6 DEF Answers
  <2>4. QED BY <1>5, <1>6, <2>2, <2>3 DEF FilesOK
<1>12. ResultOK'
  <2>1. json'.changelog = FALSE BY <1>1 DEF CheckoutInv, ResultOK, CheckoutTypeOK
  <2>2. update'.result # "failure" /\ update'.result # "none" BY <1>4, <1>6
  <2>3. Vcs[update'.url] # "git" BY <1>3, <1>6
  <2>4. QED BY <1>6, <1>11, <2>1, <2>2, <2>3 DEF ResultOK
<1>13. CheckoutRight' BY <1>6 DEF CheckoutRight, Done
<1>14. QED
  BY <1>1, <1>2, <1>6, <1>8, <1>9, <1>10, <1>12, <1>13 DEF CheckoutInv, DirectoryOK

LEMMA SyncExternalStep ==
  ASSUME CheckoutInv, SyncExternal
  PROVE  CheckoutInv'
<1> DEFINE now == Rev(update.url, repository[update.url])
<1>1. PICK kept \in {FALSE, wd.edited} :
        LET after == [NoDirectory EXCEPT !.dir = TRUE, !.tree = now,
                                         !.edited = kept /\ wd.tree.url = update.url]
        IN  /\ wd' = after
            /\ update' = [update EXCEPT !.pc = "metadata", !.wanted = now,
                                        !.old = wd.tree, !.new = now,
                                        !.result = Result(wd, after)]
  BY DEF SyncExternal
<1>2. update.pc = "external" /\ UNCHANGED <<repository, remotes, json>>
  BY DEF SyncExternal, Counted
<1>3. wd \in WorkDirectory /\ update \in UpdateRecord /\ DirectoryOK(update.was)
  BY DEF CheckoutInv, CheckoutTypeOK
<1>4. /\ Vcs[update.url] = "external" /\ wd = update.was /\ update.url \in Urls
      /\ update.since \in 1..repository[update.url] /\ repository[update.url] \in Nat
  BY <1>2 DEF CheckoutInv, UpdateOK, CheckoutTypeOK
<1>5. now \in Revision /\ now.url = update.url /\ now.n = repository[update.url]
  BY <1>4, RevisionTypes
<1> HIDE DEF now
<1> DEFINE said == Result(wd, wd')
<1>6. said \in {"success", "unchanged"} /\ (said = "unchanged" => wd = wd') BY DEF Result
<1> HIDE DEF said
<1>7. /\ wd' = [NoDirectory EXCEPT !.dir = TRUE, !.tree = now,
                                   !.edited = kept /\ wd.tree.url = update.url]
      /\ update' = [update EXCEPT !.pc = "metadata", !.wanted = now, !.old = wd.tree,
                                  !.new = now, !.result = said]
  BY <1>1 DEF said
<1>8. kept \in BOOLEAN /\ (kept => wd.edited) BY <1>3 DEF WorkDirectory
<1>9. /\ wd' \in WorkDirectory /\ wd'.tree = now /\ wd'.git = NoRev /\ wd'.svn = NoRev
      /\ ~wd'.half /\ ~wd'.extra /\ (wd'.edited => wd.edited)
  BY <1>5, <1>7, <1>8, RevisionTypes DEF NoDirectory, WorkDirectory
<1>10. /\ update'.url = update.url /\ update'.was = update.was /\ update'.since = update.since
       /\ update'.new = now /\ update'.result = said
       /\ update'.pc = "metadata" /\ update' \in UpdateRecord
  BY <1>3, <1>5, <1>6, <1>7 DEF UpdateRecord, UpdatePlaces, WorkDirectory
<1>11. DirectoryOK(wd') BY <1>9 DEF DirectoryOK
<1>12. CheckoutTypeOK' BY <1>2, <1>9, <1>10 DEF CheckoutInv, CheckoutTypeOK
<1>13. UpdateOK' BY <1>2, <1>4, <1>10 DEF UpdateOK
<1>14. FilesOK'
  <2>1. said = "unchanged" => SaysUnchangedOK' BY <1>4, <1>6, <1>10 DEF SaysUnchangedOK
  <2>2. now.n >= update.since BY <1>4, <1>5
  <2>3. Answers(wd.tree)' BY <1>5, <1>9, <1>10, <2>2 DEF Answers
  <2>4. QED BY <1>4, <1>9, <1>10, <2>1, <2>3 DEF FilesOK
<1>15. ResultOK'
  <2>1. json'.changelog = FALSE BY <1>2 DEF CheckoutInv, ResultOK, CheckoutTypeOK
  <2>2. update'.result # "failure" /\ update'.result # "none" BY <1>6, <1>10
  <2>3. Vcs[update'.url] # "git" BY <1>4, <1>10
  <2>4. QED BY <1>10, <1>14, <2>1, <2>2, <2>3 DEF ResultOK
<1>16. CheckoutRight' BY <1>10 DEF CheckoutRight, Done
<1>17. QED
  BY <1>2, <1>3, <1>10, <1>11, <1>12, <1>13, <1>15, <1>16 DEF CheckoutInv, DirectoryOK

\* A command that is cut leaves a directory whose HEAD and .svn are right.
LEMMA HalfwayRight ==
  ASSUME CheckoutInv, update.pc # "idle", NEW killed \in BOOLEAN, Halfway(killed)
  PROVE  wd' \in WorkDirectory /\ DirectoryOK(wd')
<1>1. wd \in WorkDirectory /\ DirectoryOK(wd) /\ update.url \in Urls
      /\ repository[update.url] \in Nat /\ repository[update.url] >= 1
  BY DEF CheckoutInv, CheckoutTypeOK, UpdateOK
<1>2. CASE UNCHANGED wd BY <1>1, <1>2
<1>3. CASE wd' # wd
  <2> DEFINE now == Rev(update.url, repository[update.url])
             cut == Rev(update.url, 0)
             tree == IF wd.tree = NoRev THEN now ELSE wd.tree
             svn == IF update.pc = "svn command" /\ wd.svn = NoRev THEN cut ELSE wd.svn
  <2>1. wd' = [wd EXCEPT !.half = TRUE, !.dir = TRUE, !.svn = svn, !.tree = tree,
                         !.locked = killed /\ update.pc # "external"]
    BY <1>3 DEF Halfway
  <2>2. now \in Revision /\ now # NoRev /\ cut \in Revision /\ cut.n = 0
    BY <1>1, RevisionTypes
  <2> HIDE DEF now, cut
  <2>3. tree \in Revision /\ tree # NoRev /\ svn \in Revision
    BY <1>1, <2>2 DEF WorkDirectory
  <2>4. wd.git # NoRev => tree = wd.git BY <1>1 DEF DirectoryOK
  <2>5. svn # NoRev => tree = svn \/ svn.n = 0 \/ (tree.url \in Urls /\ Vcs[tree.url] = "git")
    BY <1>1, <2>2 DEF DirectoryOK
  <2> HIDE DEF tree, svn
  <2>6. /\ wd' \in WorkDirectory /\ wd'.tree = tree /\ wd'.git = wd.git /\ wd'.svn = svn
        /\ wd'.is_git = wd.is_git
    BY <1>1, <2>1, <2>3 DEF WorkDirectory
  <2>7. QED BY <1>1, <2>3, <2>4, <2>5, <2>6 DEF DirectoryOK
<1>4. QED BY <1>2, <1>3

LEMMA CommandFailsStep ==
  ASSUME CheckoutInv, CommandFails
  PROVE  CheckoutInv'
<1>1. /\ update.pc \in {"fetch", "checkout", "stash", "log", "svn command", "external"}
      /\ Halfway(FALSE) /\ UNCHANGED <<repository, remotes, json>>
      /\ update' = IF update.pc = "external" THEN NoUpdate
                   ELSE [update EXCEPT !.pc = "metadata", !.result = "failure"]
  BY DEF CommandFails
<1>2. wd' \in WorkDirectory /\ DirectoryOK(wd') BY <1>1, HalfwayRight
<1>3. CASE update.pc = "external" BY <1>1, <1>2, <1>3, NoUpdateStep
<1>4. CASE update.pc # "external" BY <1>1, <1>2, <1>4, FailureStep
<1>5. QED BY <1>3, <1>4

LEMMA UpdateKilledStep ==
  ASSUME CheckoutInv, UpdateKilled
  PROVE  CheckoutInv'
<1>1. /\ update.pc # "idle" /\ Halfway(TRUE) /\ update' = NoUpdate
      /\ UNCHANGED <<repository, remotes, json>>
  BY DEF UpdateKilled, Over
<1>2. wd' \in WorkDirectory /\ DirectoryOK(wd') BY <1>1, HalfwayRight
<1>3. QED BY <1>1, <1>2, NoUpdateStep

LEMMA CheckoutInvStep == CheckoutInv /\ [CheckoutNext]_checkoutVars => CheckoutInv'
<1> SUFFICES ASSUME CheckoutInv, [CheckoutNext]_checkoutVars PROVE CheckoutInv' OBVIOUS
<1>1. CASE \E u \in Urls : Commit(u) BY <1>1, CommitStep
<1>2. CASE \E u \in Urls, changelog \in BOOLEAN : StartUpdate(u, changelog)
  BY <1>2, StartUpdateStep
<1>3. CASE EditFile BY <1>3, EditFileStep
<1>4. CASE WriteMetadata BY <1>4, WriteMetadataStep
<1>5. CASE GitInit BY <1>5, GitInitStep
<1>6. CASE Fetch BY <1>6, FetchStep
<1>7. CASE Checkout BY <1>7, CheckoutActionStep
<1>8. CASE Stash BY <1>8, StashStep
<1>9. CASE WriteLog BY <1>9, WriteLogStep
<1>10. CASE SvnStart BY <1>10, SvnStartStep
<1>11. CASE SvnCommand BY <1>11, SvnCommandStep
<1>12. CASE SyncExternal BY <1>12, SyncExternalStep
<1>13. CASE CommandFails BY <1>13, CommandFailsStep
<1>14. CASE UpdateKilled BY <1>14, UpdateKilledStep
<1>15. CASE UNCHANGED checkoutVars BY <1>15, CheckoutStutter
<1>16. QED
  BY <1>1, <1>2, <1>3, <1>4, <1>5, <1>6, <1>7, <1>8, <1>9, <1>10, <1>11, <1>12, <1>13,
     <1>14, <1>15 DEF CheckoutNext

\* Whatever repositories and mishaps there are, update says success or unchanged
\* when the directory has exactly the files of a revision it could be asked for,
\* and the metadata and changelog files tell of this call
\* (CheckoutManager.update).
THEOREM CheckoutRightHolds == CheckoutSpec => []CheckoutRight
<1>1. CheckoutInit => CheckoutInv BY CheckoutInvInit
<1>2. CheckoutInv /\ [CheckoutNext]_checkoutVars => CheckoutInv' BY CheckoutInvStep
<1>3. CheckoutInv => CheckoutRight BY DEF CheckoutInv
<1>4. QED BY <1>1, <1>2, <1>3, PTL DEF CheckoutSpec

----------------------------------------------------------------------------
(* Events.  A handler that is called has, of the attachments, those it has *)
(* gone through; the bucket may have no event without its attachments; the *)
(* event does not change while it is sent, and when it does change, sent   *)
(* tells of nothing any more.                                              *)

Elements(s) == {s[i] : i \in DOMAIN s}
PartNames(parts) == {p[1] : p \in parts}
ThisEvent == [data |-> event.data, attached |-> Attached]
InHandler(kind) ==
  /\ sending.step # "idle" /\ Len(outcomes) < Len(Handlers)
  /\ Handlers[Len(outcomes) + 1] = kind

EventTypeOK ==
  /\ event.attached \in Seq(EventFiles)
  /\ DOMAIN event = {"data", "closed", "attached"}
  /\ sending = [step |-> sending.step, todo |-> sending.todo,
                status |-> sending.status, mail |-> sending.mail]
  /\ sending.step \in {"idle", "begin", "attach", "server"}
  /\ sending.step # "server" => sending.todo \in Seq(EventFiles)
  /\ sending.step = "server" => sending.todo \in Seq(STRING)
  /\ sending.status \in BOOLEAN
  /\ outcomes \in Seq(BOOLEAN) /\ Len(outcomes) <= Len(Handlers)
  /\ log_dir = [events |-> log_dir.events, attachments |-> log_dir.attachments]
  /\ bucket = [events |-> bucket.events, attachments |-> bucket.attachments]
  /\ DOMAIN mailbox = Recipients
  /\ sent \in {"none", "true", "false", "raised"}

\* What was gone through and what was not make up all the attachments.
SendingOK ==
  /\ sending.step # "idle" =>
        /\ sent = "none"
        /\ sending.status <=> \A i \in DOMAIN outcomes : outcomes[i]
  /\ sending.step \in {"begin", "attach"} =>
        Attached = PartNames(sending.mail) \cup Elements(sending.todo)
  /\ sending.step = "attach" => InHandler("file") /\ ThisEvent \in log_dir.events
  /\ sending.step = "server" => InHandler("smtp") /\ PartNames(sending.mail) = Attached
  /\ InHandler("file") => PartNames(sending.mail) \subseteq Names(log_dir)
  /\ InHandler("s3") => PartNames(sending.mail) \subseteq Names(bucket)

OutcomesOK ==
  (sent # "none" \/ sending.step # "idle") =>
     \A i \in DOMAIN outcomes : outcomes[i] => IsDelivered(Handlers[i])

BucketOK == \A e \in bucket.events : e.attached \subseteq Names(bucket)

EventInv ==
  /\ EventTypeOK /\ SendingOK /\ OutcomesOK /\ BucketOK
  /\ sent \in {"true", "false"} =>
        /\ Len(outcomes) = Len(Handlers)
        /\ sent = "true" <=> \A i \in DOMAIN outcomes : outcomes[i]

LEMMA ElementsOfTail ==
  ASSUME NEW S, NEW s \in Seq(S), s # <<>>
  PROVE  /\ Tail(s) \in Seq(S) /\ Head(s) \in S
         /\ Elements(s) = {Head(s)} \cup Elements(Tail(s))
<1>1. Tail(s) \in Seq(S) /\ Head(s) = s[1] /\ Len(s) \in Nat /\ Len(s) >= 1
      /\ Len(Tail(s)) = Len(s) - 1 /\ DOMAIN s = 1..Len(s)
      /\ DOMAIN Tail(s) = 1..(Len(s) - 1)
      /\ \A i \in 1..(Len(s) - 1) : Tail(s)[i] = s[i + 1]
  OBVIOUS
<1>2. ASSUME NEW x \in Elements(s) PROVE x \in {Head(s)} \cup Elements(Tail(s))
  <2>1. PICK i \in 1..Len(s) : x = s[i] BY <1>1, <1>2 DEF Elements
  <2>2. CASE i = 1 BY <2>1, <2>2, <1>1
  <2>3. CASE i # 1
    <3>1. i - 1 \in 1..(Len(s) - 1) /\ Tail(s)[i - 1] = s[i] BY <2>1, <2>3, <1>1
    <3>2. QED BY <3>1, <2>1, <1>1 DEF Elements
  <2>4. QED BY <2>2, <2>3
<1>3. ASSUME NEW x \in {Head(s)} \cup Elements(Tail(s)) PROVE x \in Elements(s)
  <2>1. CASE x = Head(s) BY <2>1, <1>1 DEF Elements
  <2>2. CASE x \in Elements(Tail(s))
    <3>1. PICK i \in 1..(Len(s) - 1) : x = Tail(s)[i] BY <2>2, <1>1 DEF Elements
    <3>2. i + 1 \in 1..Len(s) /\ x = s[i + 1] BY <3>1, <1>1
    <3>3. QED BY <3>2, <1>1 DEF Elements
  <2>3. QED BY <1>3, <2>1, <2>2
<1>4. QED BY <1>1, <1>2, <1>3

LEMMA PartNamesAdd ==
  ASSUME NEW parts, NEW f, NEW x
  PROVE  PartNames(parts \cup {<<f, x>>}) = PartNames(parts) \cup {f}
<1>1. <<f, x>>[1] = f OBVIOUS
<1>2. ASSUME NEW n \in PartNames(parts \cup {<<f, x>>}) PROVE n \in PartNames(parts) \cup {f}
  <2>1. PICK p \in parts \cup {<<f, x>>} : n = p[1] BY <1>2 DEF PartNames
  <2>2. CASE p \in parts BY <2>1, <2>2 DEF PartNames
  <2>3. CASE p = <<f, x>> BY <2>1, <2>3, <1>1
  <2>4. QED BY <2>2, <2>3
<1>3. ASSUME NEW n \in PartNames(parts) \cup {f} PROVE n \in PartNames(parts \cup {<<f, x>>})
  <2>1. CASE n = f BY <2>1, <1>1 DEF PartNames
  <2>2. CASE n \in PartNames(parts) BY <2>2 DEF PartNames
  <2>3. QED BY <1>3, <2>1, <2>2
<1>4. QED BY <1>2, <1>3

LEMMA StoredNames ==
  ASSUME NEW place, NEW f, NEW attachments, attachments = Stored(place, f)
  PROVE  PartNames(attachments) = Names(place) \cup {f}
<1> DEFINE others == {p \in place.attachments : p[1] # f}
<1>1. PartNames(attachments) = PartNames(others) \cup {f} BY PartNamesAdd DEF Stored
<1>2. PartNames(others) \cup {f} = Names(place) \cup {f} BY DEF PartNames, Names
<1>3. QED BY <1>1, <1>2

\* A handler has returned.
LEMMA ReturnsStep ==
  ASSUME EventInv, NEW ok \in BOOLEAN, Returns(ok), sent' = sent, event' = event,
         sending.step # "idle", Len(outcomes) < Len(Handlers),
         NEW kind, kind = Handlers[Len(outcomes) + 1], ok => IsDelivered(kind)',
         \A i \in DOMAIN outcomes : IsDelivered(Handlers[i]) => IsDelivered(Handlers[i])',
         DOMAIN mailbox' = Recipients,
         log_dir' = [events |-> log_dir'.events, attachments |-> log_dir'.attachments],
         bucket' = [events |-> bucket'.events, attachments |-> bucket'.attachments],
         BucketOK'
  PROVE  EventInv'
<1> DEFINE n == Len(outcomes)
<1>1. outcomes \in Seq(BOOLEAN) /\ outcomes' = Append(outcomes, ok) /\ n \in Nat
      /\ DOMAIN outcomes = 1..n
  BY DEF EventInv, EventTypeOK, Returns
<1>2. outcomes' \in Seq(BOOLEAN) /\ Len(outcomes') = n + 1 /\ DOMAIN outcomes' = 1..(n + 1)
      /\ outcomes'[n + 1] = ok /\ \A i \in 1..n : outcomes'[i] = outcomes[i]
  BY <1>1
<1>3. sending' = [step |-> "begin", todo |-> event.attached,
                  status |-> sending.status /\ ok, mail |-> {}]
  BY DEF Returns, Attempt
<1>4. sending.status <=> \A i \in 1..n : outcomes[i]
  BY <1>1 DEF EventInv, SendingOK
<1>5. (sending.status /\ ok) <=> \A i \in 1..(n + 1) : outcomes'[i]
  BY <1>1, <1>2, <1>4
<1>6. EventTypeOK'
  BY <1>1, <1>2, <1>3, HandlersAssumption DEF EventInv, EventTypeOK
<1>7. SendingOK'
  <2>1. Attached' = Elements(sending'.todo) BY <1>3 DEF Attached, Elements
  <2>2. PartNames(sending'.mail) = {} BY <1>3 DEF PartNames
  <2>3. sent' = "none" BY DEF EventInv, SendingOK
  <2>4. sending'.status <=> \A i \in DOMAIN outcomes' : outcomes'[i]
    BY <1>2, <1>3, <1>5
  <2>5. sending'.step = "begin" BY <1>3
  <2>6. QED BY <2>1, <2>2, <2>3, <2>4, <2>5 DEF SendingOK
<1>8. OutcomesOK'
  <2>1. \A i \in 1..n : outcomes[i] => IsDelivered(Handlers[i])
    BY <1>1 DEF EventInv, OutcomesOK
  <2>2. ASSUME NEW i \in 1..(n + 1), outcomes'[i] PROVE IsDelivered(Handlers[i])'
    <3>1. CASE i = n + 1 BY <3>1, <2>2, <1>2
    <3>2. CASE i # n + 1
      <4>1. i \in 1..n BY <3>2, <1>1
      <4>2. QED BY <4>1, <2>1, <2>2, <1>1, <1>2
    <3>3. QED BY <3>1, <3>2
  <2>3. QED BY <2>2, <1>2 DEF OutcomesOK
<1>9. sent' = "none" BY DEF EventInv, SendingOK
<1>10. QED BY <1>6, <1>7, <1>8, <1>9 DEF EventInv

\* What is in the log, the bucket and the mailboxes is not removed from them.
Kept ==
  /\ event' = event
  /\ log_dir.events \subseteq log_dir'.events /\ Names(log_dir) \subseteq Names(log_dir')
  /\ bucket.events \subseteq bucket'.events /\ Names(bucket) \subseteq Names(bucket')
  /\ \A r \in Recipients : mailbox[r] \subseteq mailbox'[r]

SameRecords ==
  /\ DOMAIN mailbox' = Recipients
  /\ log_dir' = [events |-> log_dir'.events, attachments |-> log_dir'.attachments]
  /\ bucket' = [events |-> bucket'.events, attachments |-> bucket'.attachments]

LEMMA KeptDelivered ==
  ASSUME Kept, NEW kind, IsDelivered(kind)
  PROVE  IsDelivered(kind)'
<1>1. Attached' = Attached /\ event'.data = event.data BY DEF Kept, Attached
<1>2. CASE kind = "file" BY <1>1, <1>2 DEF IsDelivered, Kept
<1>3. CASE kind = "s3" BY <1>1, <1>3 DEF IsDelivered, Kept
<1>4. CASE kind = "smtp"
  <2>1. ASSUME NEW r \in Recipients
        PROVE  \E m \in mailbox'[r] : m.data = event.data /\ {p[1] : p \in m.parts} = Attached
    BY <1>4 DEF IsDelivered, Kept
  <2>2. QED BY <1>1, <1>4, <2>1 DEF IsDelivered
<1>5. QED BY <1>2, <1>3, <1>4 DEF IsDelivered

\* A handler under way leaves the outcomes as they are.
LEMMA OutcomesStay ==
  ASSUME EventInv, Kept, outcomes' = outcomes, sending.step # "idle" \/ sent # "none"
  PROVE  /\ OutcomesOK'
         /\ \A i \in DOMAIN outcomes : IsDelivered(Handlers[i]) => IsDelivered(Handlers[i])'
  BY KeptDelivered DEF EventInv, OutcomesOK

\* An attachment is gone through.
LEMMA TookStep ==
  ASSUME EventInv, sending.step \in {"begin", "attach"}, sending.todo # <<>>,
         Took(Head(sending.todo)), UNCHANGED sent, Kept, SameRecords, BucketOK',
         InHandler("file") => Head(sending.todo) \in Names(log_dir'),
         InHandler("s3") => Head(sending.todo) \in Names(bucket')
  PROVE  EventInv'
<1> DEFINE f == Head(sending.todo)
<1>1. Tail(sending.todo) \in Seq(EventFiles) /\ f \in EventFiles
      /\ Elements(sending.todo) = {f} \cup Elements(Tail(sending.todo))
  BY ElementsOfTail DEF EventInv, EventTypeOK
<1>2. sending' = [step |-> sending.step, todo |-> Tail(sending.todo),
                  status |-> sending.status, mail |-> sending.mail \cup {<<f, contents[f]>>}]
      /\ outcomes' = outcomes
  BY DEF Took, EventInv, EventTypeOK
<1>3. PartNames(sending'.mail) = PartNames(sending.mail) \cup {f} BY <1>2, PartNamesAdd
<1>4. EventTypeOK' BY <1>1, <1>2 DEF EventInv, EventTypeOK, Kept, SameRecords
<1>5. Attached' = Attached /\ ThisEvent' = ThisEvent BY DEF Attached, ThisEvent, Kept
<1>6. SendingOK'
  <2>1. sending'.step # "idle" =>
          sent' = "none" /\ (sending'.status <=> \A i \in DOMAIN outcomes' : outcomes'[i])
    BY <1>2 DEF EventInv, SendingOK
  <2>2. Attached' = PartNames(sending'.mail) \cup Elements(sending'.todo)
    BY <1>1, <1>2, <1>3, <1>5 DEF EventInv, SendingOK
  <2>3. \A kind : InHandler(kind)' <=> InHandler(kind) BY <1>2 DEF InHandler
  <2>4. sending'.step = "attach" => InHandler("file")' /\ ThisEvent' \in log_dir'.events
    BY <1>2, <1>5, <2>3 DEF EventInv, SendingOK, Kept
  <2>5. InHandler("file")' => PartNames(sending'.mail) \subseteq Names(log_dir')
    BY <1>3, <2>3 DEF EventInv, SendingOK, Kept
  <2>6. InHandler("s3")' => PartNames(sending'.mail) \subseteq Names(bucket')
    BY <1>3, <2>3 DEF EventInv, SendingOK, Kept
  <2>7. sending'.step # "server" BY <1>2
  <2>8. Names(log_dir)' = Names(log_dir') /\ Names(bucket)' = Names(bucket') BY DEF Names
  <2>9. QED BY <2>1, <2>2, <2>4, <2>5, <2>6, <2>7, <2>8 DEF SendingOK
<1>7. OutcomesOK' BY <1>2, OutcomesStay
<1>8. sent' = "none" BY DEF EventInv, SendingOK
<1>9. QED BY <1>4, <1>6, <1>7, <1>8 DEF EventInv

LEMMA RaisesStep ==
  ASSUME EventInv, Raises, Kept, SameRecords, BucketOK', sending.step # "idle"
  PROVE  EventInv'
<1>1. sending' = [step |-> "idle", todo |-> <<>>, status |-> TRUE, mail |-> {}]
      /\ outcomes' = outcomes /\ sent' = "raised"
  BY DEF Raises, NoSending
<1>2. EventTypeOK' BY <1>1 DEF EventInv, EventTypeOK, Kept, SameRecords
<1>3. SendingOK' BY <1>1 DEF SendingOK, InHandler
<1>4. OutcomesOK' BY <1>1, OutcomesStay
<1>5. QED BY <1>1, <1>2, <1>3, <1>4 DEF EventInv

LEMMA EventInvInit == EventInit => EventInv
<1> SUFFICES ASSUME EventInit PROVE EventInv OBVIOUS
<1>1. sending.step = "idle" /\ sent = "none" /\ outcomes = <<>> /\ bucket.events = {}
  BY DEF EventInit, NoSending
<1>2. EventTypeOK
  <2>1. Len(Handlers) \in Nat BY HandlersAssumption
  <2>2. QED BY <2>1 DEF EventInit, EventTypeOK, NoSending
<1>3. SendingOK BY <1>1 DEF SendingOK, InHandler
<1>4. OutcomesOK /\ BucketOK BY <1>1 DEF OutcomesOK, BucketOK
<1>5. QED BY <1>1, <1>2, <1>3, <1>4 DEF EventInv

LEMMA EventInvStutter ==
  ASSUME EventInv,
         UNCHANGED <<event, sending, sent, outcomes, log_dir, bucket, mailbox>>
  PROVE  EventInv'
<1>1. EventTypeOK' BY DEF EventInv, EventTypeOK
<1>2. Attached' = Attached /\ ThisEvent' = ThisEvent BY DEF Attached, ThisEvent
<1>3. SendingOK' BY <1>2 DEF EventInv, SendingOK, InHandler
<1>4. OutcomesOK'
  <2>1. Kept BY DEF Kept
  <2>2. QED BY <2>1, OutcomesStay DEF OutcomesOK
<1>5. BucketOK' BY DEF EventInv, BucketOK
<1>6. QED BY <1>1, <1>3, <1>4, <1>5 DEF EventInv

\* The event is written to between two calls of send_event.
LEMMA WriterStep ==
  ASSUME EventInv, SetAttribute \/ CloseEvent \/ (\E f \in EventFiles : AttachFile(f))
  PROVE  EventInv'
<1>1. sending' = sending /\ sending.step = "idle" /\ sent' = "none" /\ outcomes' = outcomes
      /\ UNCHANGED <<log_dir, bucket, mailbox>>
  BY DEF SetAttribute, CloseEvent, AttachFile, Idle
<1>2. event'.attached \in Seq(EventFiles) /\ DOMAIN event' = {"data", "closed", "attached"}
  <2>1. event.attached \in Seq(EventFiles) /\ DOMAIN event = {"data", "closed", "attached"}
    BY DEF EventInv, EventTypeOK
  <2>2. CASE SetAttribute BY <2>1, <2>2 DEF SetAttribute
  <2>3. CASE CloseEvent BY <2>1, <2>3 DEF CloseEvent
  <2>4. ASSUME NEW f \in EventFiles, AttachFile(f) PROVE  event'.attached \in Seq(EventFiles) /\ DOMAIN event' = {"data", "closed", "attached"}
    <3>1. event'.attached = Append(event.attached, f) /\ DOMAIN event' = DOMAIN event
      BY <2>1, <2>4 DEF AttachFile
    <3>2. QED BY <2>1, <3>1
  <2>5. QED BY <2>2, <2>3, <2>4
<1>3. EventTypeOK' BY <1>1, <1>2 DEF EventInv, EventTypeOK
<1>4. SendingOK' /\ OutcomesOK' BY <1>1 DEF SendingOK, InHandler, OutcomesOK
<1>5. BucketOK' BY <1>1 DEF EventInv, BucketOK
<1>6. QED BY <1>1, <1>3, <1>4, <1>5 DEF EventInv

LEMMA SendEventStep ==
  ASSUME EventInv, SendEvent
  PROVE  EventInv'
<1>1. sending' = [step |-> "begin", todo |-> event.attached, status |-> TRUE, mail |-> {}]
      /\ sent' = "none" /\ outcomes' = <<>> /\ event' = event
      /\ UNCHANGED <<log_dir, bucket, mailbox>>
  BY DEF SendEvent, Attempt
<1>2. EventTypeOK'
  <2>1. Len(Handlers) \in Nat BY HandlersAssumption
  <2>2. QED BY <1>1, <2>1 DEF EventInv, EventTypeOK
<1>3. PartNames(sending'.mail) = {} /\ Attached' = Elements(sending'.todo)
  BY <1>1 DEF PartNames, Attached, Elements
<1>4. SendingOK' BY <1>1, <1>3 DEF SendingOK
<1>5. OutcomesOK' /\ BucketOK' BY <1>1 DEF OutcomesOK, EventInv, BucketOK
<1>6. QED BY <1>1, <1>2, <1>4, <1>5 DEF EventInv

LEMMA EndOfSendStep ==
  ASSUME EventInv, EndOfSend
  PROVE  EventInv'
<1>1. sending' = [step |-> "idle", todo |-> <<>>, status |-> TRUE, mail |-> {}]
      /\ outcomes' = outcomes /\ Len(outcomes) = Len(Handlers) /\ sending.step = "begin"
      /\ sent' = (IF sending.status THEN "true" ELSE "false")
      /\ UNCHANGED <<event, log_dir, bucket, mailbox>>
  BY DEF EndOfSend, NoSending
<1>2. EventTypeOK' BY <1>1 DEF EventInv, EventTypeOK
<1>3. SendingOK' BY <1>1 DEF SendingOK, InHandler
<1>4. OutcomesOK' BY <1>1, OutcomesStay DEF Kept
<1>5. BucketOK' BY <1>1 DEF EventInv, BucketOK
<1>6. sending.status <=> \A i \in DOMAIN outcomes : outcomes[i] BY <1>1 DEF EventInv, SendingOK
<1>7. QED BY <1>1, <1>2, <1>3, <1>4, <1>5, <1>6 DEF EventInv

\* A handler that returns and writes nothing.
LEMMA QuietReturn ==
  ASSUME EventInv, NEW kind, NEW step, step # "idle", In(kind, step),
         (kind = "logging" /\ Returns(TRUE)) \/ Returns(FALSE),
         UNCHANGED <<event, sent, log_dir, bucket, mailbox>>
  PROVE  EventInv'
<1>1. SameRecords /\ Kept /\ BucketOK' BY DEF EventInv, EventTypeOK, SameRecords, Kept, BucketOK
<1>2. sending.step # "idle" /\ Len(outcomes) < Len(Handlers)
      /\ kind = Handlers[Len(outcomes) + 1]
  BY DEF In
<1>3. \A i \in DOMAIN outcomes : IsDelivered(Handlers[i]) => IsDelivered(Handlers[i])'
  BY <1>1, KeptDelivered
<1>4. CASE kind = "logging" /\ Returns(TRUE)
  <2>1. IsDelivered(kind)' BY <1>4 DEF IsDelivered
  <2>2. QED BY <1>1, <1>2, <1>3, <1>4, <2>1, ReturnsStep DEF SameRecords
<1>5. CASE Returns(FALSE) BY <1>1, <1>2, <1>3, <1>5, ReturnsStep DEF SameRecords
<1>6. QED BY <1>4, <1>5

LEMMA FileWritesEventStep ==
  ASSUME EventInv, FileWritesEvent
  PROVE  EventInv'
<1>1. sending' = [step |-> "attach", todo |-> sending.todo, status |-> sending.status,
                  mail |-> sending.mail]
      /\ sending.step = "begin" /\ outcomes' = outcomes /\ InHandler("file")
      /\ log_dir' = [events |-> log_dir.events \cup {ThisEvent},
                     attachments |-> log_dir.attachments]
      /\ UNCHANGED <<event, sent, bucket, mailbox>>
  BY DEF FileWritesEvent, In, SendingAt, EventInv, EventTypeOK, InHandler, ThisEvent
<1>2. Names(log_dir') = Names(log_dir) BY <1>1 DEF Names
<1>3. Attached' = Attached /\ ThisEvent' = ThisEvent BY <1>1 DEF Attached, ThisEvent
<1>4. Kept BY <1>1, <1>2 DEF Kept
<1>5. EventTypeOK' BY <1>1 DEF EventInv, EventTypeOK
<1>6. SendingOK'
  <2>1. InHandler("file")' /\ ~InHandler("s3")' BY <1>1 DEF InHandler
  <2>2. Names(log_dir)' = Names(log_dir') BY DEF Names
  <2>3. QED BY <1>1, <1>2, <1>3, <2>1, <2>2 DEF EventInv, SendingOK
<1>7. OutcomesOK' BY <1>1, <1>4, OutcomesStay
<1>8. BucketOK' BY <1>1 DEF EventInv, BucketOK
<1>9. sent' = "none" BY <1>1 DEF EventInv, SendingOK
<1>10. QED BY <1>5, <1>6, <1>7, <1>8, <1>9 DEF EventInv

LEMMA FileCopiesStep ==
  ASSUME EventInv, FileCopies
  PROVE  EventInv'
<1> DEFINE f == Head(sending.todo)
<1>1. sending.step = "attach" /\ InHandler("file") /\ ~InHandler("s3")
      /\ UNCHANGED <<event, bucket, mailbox>>
      /\ Len(outcomes) < Len(Handlers) /\ Handlers[Len(outcomes) + 1] = "file"
  BY DEF FileCopies, In, InHandler
<1>2. CASE sending.todo = <<>>
  <2>1. Returns(TRUE) /\ UNCHANGED <<sent, log_dir>> BY <1>2 DEF FileCopies
  <2>2. Kept /\ SameRecords /\ BucketOK'
    BY <1>1, <2>1 DEF Kept, SameRecords, EventInv, EventTypeOK, BucketOK
  <2>3. Attached \subseteq Names(log_dir) /\ ThisEvent \in log_dir.events
    <3>1. Elements(sending.todo) = {} BY <1>2 DEF Elements
    <3>2. QED BY <1>1, <3>1 DEF EventInv, SendingOK
  <2>4. IsDelivered("file") BY <2>3 DEF IsDelivered, ThisEvent
  <2>5. IsDelivered("file")' BY <2>2, <2>4, KeptDelivered
  <2>6. \A i \in DOMAIN outcomes : IsDelivered(Handlers[i]) => IsDelivered(Handlers[i])'
    BY <2>2, KeptDelivered
  <2>7. QED BY <1>1, <2>1, <2>2, <2>5, <2>6, ReturnsStep DEF SameRecords
<1>3. CASE sending.todo # <<>> /\ contents[f] = 0
  <2>1. Raises /\ UNCHANGED log_dir BY <1>3 DEF FileCopies
  <2>2. Kept /\ SameRecords /\ BucketOK'
    BY <1>1, <2>1 DEF Kept, SameRecords, EventInv, EventTypeOK, BucketOK
  <2>3. QED BY <1>1, <2>1, <2>2, RaisesStep
<1>4. CASE sending.todo # <<>> /\ contents[f] # 0
  <2>1. Took(f) /\ UNCHANGED sent
        /\ log_dir' = [events |-> log_dir.events, attachments |-> Stored(log_dir, f)]
    BY <1>4 DEF FileCopies, EventInv, EventTypeOK
  <2>2. Names(log_dir') = Names(log_dir) \cup {f}
    BY <2>1, StoredNames DEF Names, PartNames
  <2>3. Kept /\ SameRecords /\ BucketOK'
    BY <1>1, <2>1, <2>2 DEF Kept, SameRecords, EventInv, EventTypeOK, BucketOK
  <2>4. QED BY <1>1, <1>4, <2>1, <2>2, <2>3, TookStep
<1>5. QED BY <1>2, <1>3, <1>4

LEMMA S3CopiesStep ==
  ASSUME EventInv, S3Copies
  PROVE  EventInv'
<1> DEFINE f == Head(sending.todo)
           new == [bucket EXCEPT !.attachments = Stored(bucket, f)]
<1>1. sending.step = "begin" /\ sending.todo # <<>> /\ InHandler("s3") /\ ~InHandler("file")
      /\ UNCHANGED <<event, sent, log_dir, mailbox>>
      /\ Len(outcomes) < Len(Handlers) /\ Handlers[Len(outcomes) + 1] = "s3"
  BY DEF S3Copies, In, InHandler
<1>2. new = [events |-> bucket.events, attachments |-> Stored(bucket, f)]
  BY DEF EventInv, EventTypeOK
<1>3. Names(new) = Names(bucket) \cup {f} BY <1>2, StoredNames DEF Names, PartNames
<1>4. bucket' \in {bucket, new} BY DEF S3Copies
<1>5. SameRecords BY <1>1, <1>2, <1>4 DEF SameRecords, EventInv, EventTypeOK
<1>6. bucket'.events = bucket.events /\ Names(bucket) \subseteq Names(bucket')
  BY <1>2, <1>3, <1>4
<1>7. Kept BY <1>1, <1>6 DEF Kept
<1>8. BucketOK'
  <2>1. Names(bucket)' = Names(bucket') BY DEF Names
  <2>2. QED BY <1>6, <2>1 DEF EventInv, BucketOK
<1>9. CASE bucket' = new /\ Took(f)
  BY <1>1, <1>3, <1>5, <1>7, <1>8, <1>9, TookStep
<1>10. CASE Returns(FALSE)
  <2>1. \A i \in DOMAIN outcomes : IsDelivered(Handlers[i]) => IsDelivered(Handlers[i])'
    BY <1>7, KeptDelivered
  <2>2. QED BY <1>1, <1>5, <1>8, <1>10, <2>1, ReturnsStep DEF SameRecords
<1>11. QED BY <1>9, <1>10 DEF S3Copies

LEMMA S3CopiesEventStep ==
  ASSUME EventInv, S3CopiesEvent
  PROVE  EventInv'
<1> DEFINE new == [bucket EXCEPT !.events = @ \cup {ThisEvent}]
<1>1. sending.step = "begin" /\ sending.todo = <<>> /\ InHandler("s3")
      /\ UNCHANGED <<event, sent, log_dir, mailbox>>
      /\ Len(outcomes) < Len(Handlers) /\ Handlers[Len(outcomes) + 1] = "s3"
  BY DEF S3CopiesEvent, In, InHandler
<1>2. new = [events |-> bucket.events \cup {ThisEvent}, attachments |-> bucket.attachments]
  <2>1. bucket = [events |-> bucket.events, attachments |-> bucket.attachments]
    BY DEF EventInv, EventTypeOK
  <2>2. \A e, t, x : [[events |-> e, attachments |-> t] EXCEPT !.events = @ \cup {x}]
                     = [events |-> e \cup {x}, attachments |-> t]
    OBVIOUS
  <2>3. QED BY ONLY <2>1, <2>2
<1>3. bucket' \in {bucket, new} BY DEF S3CopiesEvent, ThisEvent
<1>4. SameRecords BY <1>1, <1>2, <1>3 DEF SameRecords, EventInv, EventTypeOK
<1>5. Names(bucket') = Names(bucket) /\ bucket.events \subseteq bucket'.events
  BY <1>2, <1>3 DEF Names
<1>6. Kept BY <1>1, <1>5 DEF Kept
<1>7. Attached \subseteq Names(bucket)
  <2>1. Elements(sending.todo) = {} BY <1>1 DEF Elements
  <2>2. QED BY <1>1, <2>1 DEF EventInv, SendingOK
<1>8. BucketOK'
  <2>1. Names(bucket)' = Names(bucket') BY DEF Names
  <2>2. ThisEvent.attached = Attached BY DEF ThisEvent
  <2>3. \A e \in bucket'.events : e \in bucket.events \/ e = ThisEvent BY <1>2, <1>3
  <2>4. \A e \in bucket.events : e.attached \subseteq Names(bucket) BY DEF EventInv, BucketOK
  <2>5. QED BY <1>5, <1>7, <2>1, <2>2, <2>3, <2>4 DEF BucketOK
<1>9. \A i \in DOMAIN outcomes : IsDelivered(Handlers[i]) => IsDelivered(Handlers[i])'
  BY <1>6, KeptDelivered
<1>10. CASE Returns(FALSE) BY <1>1, <1>4, <1>8, <1>9, <1>10, ReturnsStep DEF SameRecords
<1>11. CASE Returns(TRUE) /\ bucket' = new
  <2>1. ThisEvent \in bucket'.events /\ Attached \subseteq Names(bucket')
    BY <1>2, <1>5, <1>7, <1>11
  <2>2. Attached' = Attached /\ ThisEvent' = ThisEvent BY <1>1 DEF Attached, ThisEvent
  <2>3. IsDelivered("s3")' BY <2>1, <2>2 DEF IsDelivered, ThisEvent, Names
  <2>4. QED BY <1>1, <1>4, <1>8, <1>9, <1>11, <2>3, ReturnsStep DEF SameRecords
<1>12. QED BY <1>10, <1>11 DEF S3CopiesEvent, ThisEvent

LEMMA MailReadsStep ==
  ASSUME EventInv, MailReads
  PROVE  EventInv'
<1> DEFINE f == Head(sending.todo)
<1>1. sending.step = "begin" /\ InHandler("smtp") /\ ~InHandler("file") /\ ~InHandler("s3")
      /\ UNCHANGED <<event, log_dir, bucket, mailbox>>
  BY DEF MailReads, In, InHandler
<1>2. Kept /\ SameRecords /\ BucketOK'
  BY <1>1 DEF Kept, SameRecords, EventInv, EventTypeOK, BucketOK
<1>3. CASE sending.todo = <<>>
  <2>1. sending' = [step |-> "server", todo |-> SmtpServers, status |-> sending.status,
                    mail |-> sending.mail]
        /\ sent' = sent /\ outcomes' = outcomes
    BY <1>3 DEF MailReads, EventInv, EventTypeOK
  <2>2. EventTypeOK' BY <1>1, <1>2, <2>1, ServersAssumption DEF EventInv, EventTypeOK
  <2>3. PartNames(sending.mail) = Attached /\ Attached' = Attached
    <3>1. Elements(sending.todo) = {} BY <1>3 DEF Elements
    <3>2. QED BY <1>1, <3>1 DEF EventInv, SendingOK, Attached
  <2>4. InHandler("smtp")' /\ ~InHandler("file")' /\ ~InHandler("s3")'
    BY <1>1, <2>1 DEF InHandler
  <2>5. SendingOK' BY <1>1, <2>1, <2>3, <2>4 DEF EventInv, SendingOK
  <2>6. OutcomesOK' BY <1>1, <1>2, <2>1, OutcomesStay
  <2>7. sent' = "none" BY <1>1, <2>1 DEF EventInv, SendingOK
  <2>8. QED BY <1>2, <2>2, <2>5, <2>6, <2>7 DEF EventInv
<1>4. CASE sending.todo # <<>> /\ contents[f] = 0
  <2>1. Raises BY <1>4 DEF MailReads
  <2>2. QED BY <1>1, <1>2, <2>1, RaisesStep
<1>5. CASE sending.todo # <<>> /\ contents[f] # 0
  <2>1. Took(f) /\ UNCHANGED sent BY <1>5 DEF MailReads
  <2>2. QED BY <1>1, <1>2, <1>5, <2>1, TookStep
<1>6. QED BY <1>3, <1>4, <1>5

LEMMA TryServerStep ==
  ASSUME EventInv, TryServer
  PROVE  EventInv'
<1> DEFINE mail == [data |-> event.data, parts |-> sending.mail]
<1>1. sending.step = "server" /\ sending.todo # <<>> /\ InHandler("smtp")
      /\ ~InHandler("file") /\ ~InHandler("s3")
      /\ UNCHANGED <<event, sent, log_dir, bucket>>
      /\ Len(outcomes) < Len(Handlers) /\ Handlers[Len(outcomes) + 1] = "smtp"
  BY DEF TryServer, In, InHandler
<1>2. PICK to \in SUBSET Recipients :
        /\ Delivered(to) \/ UNCHANGED mailbox
        /\ NextServer \/ (Delivered(to) /\ to = Recipients /\ Returns(TRUE))
  BY DEF TryServer, Accepted
<1>3. DOMAIN mailbox' = Recipients /\ \A r \in Recipients : mailbox[r] \subseteq mailbox'[r]
  BY <1>2 DEF Delivered, EventInv, EventTypeOK
<1>4. Kept /\ SameRecords /\ BucketOK'
  BY <1>1, <1>3 DEF Kept, SameRecords, EventInv, EventTypeOK, BucketOK
<1>5. CASE NextServer
  <2>1. sending' = [step |-> "server", todo |-> Tail(sending.todo),
                    status |-> sending.status, mail |-> sending.mail]
        /\ outcomes' = outcomes
    BY <1>1, <1>5 DEF NextServer, EventInv, EventTypeOK
  <2>2. Tail(sending.todo) \in Seq(STRING) BY <1>1 DEF EventInv, EventTypeOK
  <2>3. EventTypeOK' BY <1>1, <1>4, <2>1, <2>2 DEF EventInv, EventTypeOK, SameRecords
  <2>4. InHandler("smtp")' /\ ~InHandler("file")' /\ ~InHandler("s3")'
    BY <1>1, <2>1 DEF InHandler
  <2>5. Attached' = Attached BY <1>1 DEF Attached
  <2>6. SendingOK' BY <1>1, <2>1, <2>4, <2>5 DEF EventInv, SendingOK
  <2>7. OutcomesOK' BY <1>1, <1>4, <2>1, OutcomesStay
  <2>8. sent' = "none" BY <1>1 DEF EventInv, SendingOK
  <2>9. QED BY <1>4, <2>3, <2>6, <2>7, <2>8 DEF EventInv
<1>6. CASE Delivered(Recipients) /\ Returns(TRUE)
  <2>1. \A r \in Recipients : mail \in mailbox'[r] BY <1>6 DEF Delivered
  <2>2. {p[1] : p \in mail.parts} = Attached
    <3>1. PartNames(sending.mail) = Attached BY <1>1 DEF EventInv, SendingOK
    <3>2. mail.parts = sending.mail OBVIOUS
    <3>3. QED BY <3>1, <3>2 DEF PartNames
  <2>3. Attached' = Attached /\ event' = event BY <1>1 DEF Attached
  <2>4. ASSUME NEW r \in Recipients
        PROVE  \E m \in mailbox'[r] : m.data = event'.data /\ {p[1] : p \in m.parts} = Attached'
    <3>1. mail \in mailbox'[r] /\ mail.data = event'.data BY <2>1, <2>3
    <3>2. QED BY <3>1, <2>2, <2>3
  <2>5. IsDelivered("smtp")' BY <2>4 DEF IsDelivered
  <2>6. \A i \in DOMAIN outcomes : IsDelivered(Handlers[i]) => IsDelivered(Handlers[i])'
    BY <1>4, KeptDelivered
  <2>7. QED BY <1>1, <1>4, <1>6, <2>5, <2>6, ReturnsStep DEF SameRecords
<1>7. QED BY <1>2, <1>5, <1>6

LEMMA EventInvStep == EventInv /\ [EventNext]_eventVars => EventInv'
<1> SUFFICES ASSUME EventInv, [EventNext]_eventVars PROVE EventInv' OBVIOUS
<1>1. CASE SetAttribute BY <1>1, WriterStep
<1>2. CASE CloseEvent BY <1>2, WriterStep
<1>3. CASE SendEvent BY <1>3, SendEventStep
<1>4. CASE EndOfSend BY <1>4, EndOfSendStep
<1>5. CASE LoggingSends BY <1>5, QuietReturn DEF LoggingSends
<1>6. CASE FileWritesEvent BY <1>6, FileWritesEventStep
<1>7. CASE FileCopies BY <1>7, FileCopiesStep
<1>8. CASE S3Copies BY <1>8, S3CopiesStep
<1>9. CASE S3CopiesEvent BY <1>9, S3CopiesEventStep
<1>10. CASE MailReads BY <1>10, MailReadsStep
<1>11. CASE MailTooBig BY <1>11, QuietReturn DEF MailTooBig
<1>12. CASE TryServer BY <1>12, TryServerStep
<1>13. CASE NoServerLeft BY <1>13, QuietReturn DEF NoServerLeft
<1>14. CASE \E f \in EventFiles : AttachFile(f) BY <1>14, WriterStep
<1>15. CASE \E f \in EventFiles : FileChanges(f) BY <1>15, EventInvStutter DEF FileChanges
<1>16. CASE UNCHANGED eventVars BY <1>16, EventInvStutter DEF eventVars
<1>17. QED
  BY <1>1, <1>2, <1>3, <1>4, <1>5, <1>6, <1>7, <1>8, <1>9, <1>10, <1>11, <1>12, <1>13,
     <1>14, <1>15, <1>16 DEF EventNext

\* What send_event says of the handlers, and what a handler says that it has
\* sent, is true, whatever happens to the attached files and to the mail
\* servers (EventManager.send_event, FileHandler, S3Handler, SMTPHandler).
THEOREM SentIsDeliveredHolds == EventSpec => []SentIsDelivered
<1>1. EventInit => EventInv BY EventInvInit
<1>2. EventInv /\ [EventNext]_eventVars => EventInv' BY EventInvStep
<1>3. EventInv => SentIsDelivered
  BY DEF EventInv, OutcomesOK, BucketOK, SentIsDelivered
<1>4. QED BY <1>1, <1>2, <1>3, PTL DEF EventSpec

----------------------------------------------------------------------------
(* PyPIClosure.                                                            *)
(*                                                                         *)
(* The identifiers that are pinned are those that every set has which has  *)
(* what is required and, with a pinned one, what that one requires.  Once  *)
(* nothing is left to pin this is what is needed with the pins installed.  *)

Ids(rules) == {<<r.name, r.extra>> : r \in rules}

Resolution == {"resolve", "read", "conflict"}
ClosureType ==
  [pc : Resolution \cup {"idle", "files", "returned", "raised"},
   platform : Platforms \cup {"none"}, left : SUBSET Platforms,
   pins : [Identifiers -> Nat], at : {<<>>} \cup (Identifiers \X AllVersions),
   locked : SUBSET (Projects \X AllVersions \X Platforms), files : SUBSET Files]

PyPITypeOK ==
  /\ links \in [Projects -> SUBSET Nat]
  /\ candidate_cache \in [Identifiers -> SUBSET Nat]
  /\ reqs \in [Identifiers \X AllVersions -> {Unread} \cup SUBSET RequirementType]
  /\ resources \in [Files -> {"none", "bad", "whole"}]
  /\ closure \in ClosureType

\* A version that may be locked.
Usable(n, v) ==
  v \in AllVersions /\ Allowed(n, v) /\ \A w \in LocalWheels : w[1] = n => v = w[2]

LinksOK(cache) ==
  \A n \in Projects : \/ cache[n] = Unknown /\ \A w \in LocalWheels : w[1] # n
                      \/ /\ cache[n] \subseteq AllVersions
                         /\ \A w \in LocalWheels : w[1] = n => cache[n] = {w[2]}

\* The cached links and candidates are right, also after a call that was cut.
CachesOK ==
  /\ LinksOK(links)
  /\ \A i \in Identifiers : candidate_cache[i] = Unknown
                            \/ \A v \in candidate_cache[i] : Usable(i[1], v)

\* Requirements that have been read without a failure are those of a whole file.
ReqsOK ==
  ~spoiled => \A k \in Identifiers \X AllVersions :
                 reqs[k] # Unread => /\ reqs[k] = Requires[<<k[1][1], k[2]>>]
                                     /\ resources[<<k[1][1], k[2]>>] = "whole"

Pin1(i) == <<i, closure.pins[i]>>
PinsOK ==
  closure.pc \in Resolution =>
    /\ closure.platform \in Platforms \ closure.left
    /\ \A i \in Pinned :
         /\ Usable(i[1], closure.pins[i])
         /\ reqs[Pin1(i)] = Unread => closure.pc = "read" /\ closure.at = Pin1(i)
    /\ closure.pc = "read" => \E i \in Pinned : closure.at = Pin1(i)

DepsOf(i) == DependenciesOf(reqs[Pin1(i)], i, closure.pins[i], closure.platform)

\* S has what is required, and what the pinned identifiers in it require.
HasAll(S) == Ids(Required) \subseteq S /\ \A i \in Pinned \cap S : Ids(DepsOf(i)) \subseteq S

ReachOK ==
  closure.pc \in Resolution => \A S \in SUBSET Identifiers : HasAll(S) => Pinned \subseteq S

\* What LockRight says of a platform.
PlatformOK(lock, p) ==
  LET ids == Needed(lock, p)
  IN  /\ \A i \in ids : Cardinality({l \in lock : l[1] = i[1] /\ l[3] = p}) = 1
      /\ \A r \in Rules(ids, lock, p), l \in lock :
            l[1] = r.name /\ l[3] = p => l[2] \in r.versions
      /\ \A l \in lock : l[3] = p => <<l[1], "">> \in ids

\* The platforms that have been resolved.
Resolved ==
  IF closure.pc \in Resolution THEN Platforms \ (closure.left \cup {closure.platform})
  ELSE IF closure.pc \in {"files", "returned"} THEN Platforms ELSE {}

LockedOK ==
  closure.pc \in Resolution \cup {"files", "returned"} =>
    /\ \A l \in closure.locked : Usable(l[1], l[2]) /\ l[3] \in Resolved
    /\ ~spoiled => /\ \A l \in closure.locked : resources[<<l[1], l[2]>>] = "whole"
                   /\ \A p \in Resolved : PlatformOK(closure.locked, p)

FileClosureOK ==
  closure.pc = "returned" =>
    /\ \A l \in closure.locked : l[3] \in Works[<<l[1], l[2]>>] => <<l[1], l[2]>> \in closure.files
    /\ ~spoiled => \A f \in closure.files : resources[f] = "whole"

PyPIInv == PyPITypeOK /\ CachesOK /\ ReqsOK /\ PinsOK /\ ReachOK /\ LockedOK /\ FileClosureOK

LEMMA SmallestNat ==
  ASSUME NEW T \in SUBSET Nat, T # {}
  PROVE  \E n \in T : \A m \in T : n <= m
<1> DEFINE Family == {0..n : n \in T}
<1>1. Family \subseteq FiniteSubsetsOf(Nat) /\ Family # {}
  <2>1. \A n \in T : 0..n \in SUBSET Nat /\ IsFiniteSet(0..n) BY FS_Interval
  <2>2. QED BY <2>1 DEF FiniteSubsetsOf
<1>2. \E A \in Family : \A B \in Family : <<B, A>> \notin StrictSubsetOrdering(Nat)
  <2> HIDE DEF Family
  <2>1. IsWellFoundedOn(StrictSubsetOrdering(Nat), FiniteSubsetsOf(Nat))
    BY FS_StrictSubsetOrderingWellFounded
  <2>2. QED BY <1>1, <2>1, WFMin
<1>3. PICK n \in T : \A m \in T : <<0..m, 0..n>> \notin StrictSubsetOrdering(Nat)
  BY <1>2
<1>4. ASSUME NEW m \in T, m < n PROVE FALSE
  <2>1. 0..m \subseteq 0..n /\ n \in 0..n /\ n \notin 0..m BY <1>4
  <2>2. <<0..m, 0..n>> \in StrictSubsetOrdering(Nat) BY <2>1 DEF StrictSubsetOrdering
  <2>3. QED BY <1>3, <2>2
<1>5. \A m \in T : n <= m BY <1>4
<1>6. QED BY <1>5

Locks == SUBSET (Projects \X AllVersions \X Platforms)

LEMMA VersionsType == AllVersions \subseteq Nat \ {0}
<1> SUFFICES ASSUME NEW v \in AllVersions PROVE v \in Nat \ {0} OBVIOUS
<1>1. PICK n \in Projects : v \in Versions[n] BY DEF AllVersions
<1>2. Versions[n] \in SUBSET (Nat \ {0}) BY PyPIAssumption
<1>3. QED BY <1>1, <1>2

LEMMA DepsType ==
  ASSUME NEW known \in {Unread} \cup SUBSET RequirementType, NEW i \in Identifiers,
         NEW v \in AllVersions, NEW p \in Platforms
  PROVE  DependenciesOf(known, i, v, p) \subseteq RequirementType
<1>1. {r \in known : p \in r.on} \subseteq RequirementType
  <2>1. CASE known = Unread
    <3>1. \A r \in Unread : r = Requirement("none", "", {}, {}, "") BY DEF Unread
    <3>3. Requirement("none", "", {}, {}, "").on = {} BY DEF Requirement
    <3>2. QED BY <2>1, <3>1, <3>3
  <2>2. CASE known \subseteq RequirementType BY <2>2
  <2>3. QED BY <2>1, <2>2
<1>2. Requirement(i[1], "", {v}, Platforms, "") \in RequirementType
  BY PyPIAssumption, VersionsType DEF Requirement, RequirementType, Identifiers
<1>3. QED BY <1>1, <1>2 DEF DependenciesOf

LEMMA IdsType ==
  ASSUME NEW rules \in SUBSET RequirementType
  PROVE  Ids(rules) \subseteq Identifiers
BY DEF Ids, RequirementType, Identifiers

LEMMA RulesMember ==
  ASSUME NEW ids, NEW lock, NEW p, NEW r
  PROVE  r \in Rules(ids, lock, p) <=>
           \/ r \in Required
           \/ \E i \in ids : \E l \in lock :
                /\ l[1] = i[1] /\ l[3] = p
                /\ r \in DependenciesOf(Requires[<<i[1], l[2]>>], i, l[2], p)
<1> DEFINE Inner(i) == UNION {DependenciesOf(Requires[<<i[1], l[2]>>], i, l[2], p) :
                                l \in {x \in lock : x[1] = i[1] /\ x[3] = p}}
<1>1. ASSUME NEW i \in ids
      PROVE  r \in Inner(i) <=>
               \E l \in lock : /\ l[1] = i[1] /\ l[3] = p
                               /\ r \in DependenciesOf(Requires[<<i[1], l[2]>>], i, l[2], p)
  OBVIOUS
<1>2. Rules(ids, lock, p) = Required \cup UNION {Inner(i) : i \in ids} BY DEF Rules
<1> HIDE DEF Inner
<1>3. QED BY <1>1, <1>2

LEMMA RulesType ==
  ASSUME NEW ids \in SUBSET Identifiers, NEW lock \in Locks, NEW p \in Platforms
  PROVE  Rules(ids, lock, p) \subseteq RequirementType
<1>1. ASSUME NEW i \in ids, NEW l \in lock, l[1] = i[1]
      PROVE  DependenciesOf(Requires[<<i[1], l[2]>>], i, l[2], p) \subseteq RequirementType
  <2>1. l[2] \in AllVersions /\ <<i[1], l[2]>> \in Files BY <1>1 DEF Locks, Files, Identifiers
  <2>2. Requires[<<i[1], l[2]>>] \subseteq RequirementType BY <2>1, PyPIAssumption
  <2>3. QED BY <2>1, <2>2, DepsType
<1>2. QED BY <1>1, PyPIAssumption, RulesMember

LEMMA RulesMonotonic ==
  ASSUME NEW ids, NEW more, ids \subseteq more, NEW lock, NEW p
  PROVE  /\ Rules(ids, lock, p) \subseteq Rules(more, lock, p)
         /\ Ids(Rules(ids, lock, p)) \subseteq Ids(Rules(more, lock, p))
         /\ Ids(Required) \subseteq Ids(Rules(ids, lock, p))
BY DEF Rules, Ids

RoundCount == Cardinality(Identifiers)

LEMMA IdentifiersFinite == IsFiniteSet(Identifiers) /\ RoundCount \in Nat
BY PyPIAssumption, FS_Product, FS_CardinalityType DEF Identifiers, RoundCount

\* The recursive definition of Rounds determines it.
LEMMA RoundsDef ==
  ASSUME NEW lock, NEW p
  PROVE  Rounds(lock, p) =
           [n \in 0..RoundCount |->
              IF n = 0 THEN Ids(Required)
              ELSE Rounds(lock, p)[n - 1] \cup Ids(Rules(Rounds(lock, p)[n - 1], lock, p))]
<1> DEFINE More(S) == S \cup Ids(Rules(S, lock, p))
           IsRounds(f, n) == f = [m \in 0..n |-> IF m = 0 THEN Ids(Required) ELSE More(f[m - 1])]
           Bad == {n \in Nat : ~ \E f : IsRounds(f, n)}
<1>1. Bad = {}
  <2> SUFFICES ASSUME Bad # {} PROVE FALSE OBVIOUS
  <2>1. PICK n \in Bad : \A m \in Bad : n <= m BY SmallestNat
  <2>2. CASE n = 0
    <3> DEFINE f == [m \in 0..0 |-> Ids(Required)]
    <3>1. IsRounds(f, 0) OBVIOUS
    <3>2. QED BY <2>1, <2>2, <3>1
  <2>3. CASE n # 0
    <3>1. n - 1 \in Nat /\ n - 1 \notin Bad
      <4> HIDE DEF Bad
      <4>1. n \in Nat BY <2>1 DEF Bad
      <4>2. QED BY <4>1, <2>1, <2>3
    <3>2. PICK f : IsRounds(f, n - 1) BY <3>1
    <3> DEFINE h == [m \in 0..n |-> IF m = n THEN More(f[n - 1]) ELSE f[m]]
    <3> HIDE DEF More
    <3>3. ASSUME NEW m \in 0..n PROVE h[m] = IF m = 0 THEN Ids(Required) ELSE More(h[m - 1])
      <4>1. CASE m = n BY <2>3, <3>1, <4>1
      <4>2. CASE m # n
        <5>1. m \in 0..(n - 1) /\ h[m] = f[m] BY <4>2
        <5>2. f[m] = IF m = 0 THEN Ids(Required) ELSE More(f[m - 1]) BY <3>2, <5>1
        <5>3. m # 0 => m - 1 \in 0..n /\ m - 1 # n /\ h[m - 1] = f[m - 1] BY <5>1
        <5>4. QED BY <5>1, <5>2, <5>3
      <4>3. QED BY <4>1, <4>2
    <3>4. IsRounds(h, n) BY <3>3
    <3>5. QED BY <2>1, <3>4
  <2>4. QED BY <2>2, <2>3
<1>2. \E f : IsRounds(f, RoundCount) BY <1>1, IdentifiersFinite
<1>3. Rounds(lock, p) = CHOOSE f : IsRounds(f, RoundCount) BY Zenon DEF Rounds, RoundCount, Ids
<1>4. IsRounds(Rounds(lock, p), RoundCount)
  <2> HIDE DEF IsRounds
  <2>1. QED BY <1>2, <1>3
<1>5. QED BY <1>4

LEMMA RoundsStep ==
  ASSUME NEW lock \in Locks, NEW p \in Platforms
  PROVE  LET at == Rounds(lock, p)
         IN  /\ at[0] = Ids(Required)
             /\ \A n \in 1..RoundCount : at[n] = at[n - 1] \cup Ids(Rules(at[n - 1], lock, p))
             /\ \A n \in 0..RoundCount : at[n] \subseteq Identifiers
<1> DEFINE at == Rounds(lock, p)
<1>0. at = [n \in 0..RoundCount |-> IF n = 0 THEN Ids(Required)
                                   ELSE at[n - 1] \cup Ids(Rules(at[n - 1], lock, p))]
  BY RoundsDef
<1> HIDE DEF at
<1>1. \A n \in 0..RoundCount : at[n] = IF n = 0 THEN Ids(Required)
                                       ELSE at[n - 1] \cup Ids(Rules(at[n - 1], lock, p))
  BY <1>0, Zenon
<1>2. at[0] = Ids(Required)
  <2>1. 0 \in 0..RoundCount BY IdentifiersFinite
  <2>2. QED BY <1>1, <2>1, Zenon
<1>3. ASSUME NEW n \in 1..RoundCount PROVE at[n] = at[n - 1] \cup Ids(Rules(at[n - 1], lock, p))
  <2>1. n \in 0..RoundCount /\ n # 0 BY IdentifiersFinite
  <2>2. QED BY <1>1, <2>1, Zenon
<1>4. {n \in 0..RoundCount : ~(at[n] \subseteq Identifiers)} = {}
  <2> DEFINE Bad == {n \in 0..RoundCount : ~(at[n] \subseteq Identifiers)}
  <2> SUFFICES ASSUME Bad # {} PROVE FALSE OBVIOUS
  <2>1. PICK n \in Bad : \A m \in Bad : n <= m
    <3>1. Bad \in SUBSET Nat BY IdentifiersFinite
    <3> HIDE DEF Bad
    <3>2. QED BY <3>1, SmallestNat
  <2>2. n \in 0..RoundCount BY <2>1
  <2>3. CASE n = 0 BY <1>2, <2>1, <2>3, PyPIAssumption, IdsType
  <2>4. CASE n # 0
    <3>1. n - 1 \in 0..RoundCount /\ n \in 1..RoundCount /\ ~(n <= n - 1)
      BY <2>2, <2>4, IdentifiersFinite
    <3>2. at[n - 1] \subseteq Identifiers BY <2>1, <3>1
    <3>3. Ids(Rules(at[n - 1], lock, p)) \subseteq Identifiers BY <3>2, RulesType, IdsType
    <3>4. QED BY <1>3, <2>1, <3>1, <3>2, <3>3
  <2>5. QED BY <2>3, <2>4
<1>5. QED BY <1>2, <1>3, <1>4 DEF at

\* After as many rounds as there are identifiers nothing is added.
LEMMA NeededFix ==
  ASSUME NEW lock \in Locks, NEW p \in Platforms
  PROVE  /\ Needed(lock, p) \subseteq Identifiers
         /\ Ids(Rules(Needed(lock, p), lock, p)) \subseteq Needed(lock, p)
<1> DEFINE at == Rounds(lock, p)
           New(n) == Ids(Rules(at[n], lock, p))
           Bad == {n \in 0..RoundCount : ~(New(n) \subseteq at[n]) /\ ~(Cardinality(at[n]) >= n)}
<1>1. /\ \A n \in 1..RoundCount : at[n] = at[n - 1] \cup New(n - 1)
      /\ \A n \in 0..RoundCount : at[n] \subseteq Identifiers
  BY RoundsStep
<1>2. \A n \in 0..RoundCount : IsFiniteSet(at[n]) /\ Cardinality(at[n]) \in Nat
  BY <1>1, IdentifiersFinite, FS_Subset, FS_CardinalityType
<1>3. Bad = {}
  <2> SUFFICES ASSUME Bad # {} PROVE FALSE OBVIOUS
  <2>1. PICK n \in Bad : \A m \in Bad : n <= m
    <3>1. Bad \in SUBSET Nat BY IdentifiersFinite
    <3> HIDE DEF Bad
    <3>2. QED BY <3>1, SmallestNat
  <2>2. n \in 0..RoundCount BY <2>1
  <2>3. n # 0 BY <1>2, <2>1
  <2>4. n - 1 \in 0..RoundCount /\ n \in 1..RoundCount /\ ~(n <= n - 1)
    BY <2>2, <2>3, IdentifiersFinite
  <2>5. at[n] = at[n - 1] \cup New(n - 1) BY <1>1, <2>4
  <2>6. CASE New(n - 1) \subseteq at[n - 1]
    <3>1. at[n] = at[n - 1] BY <2>5, <2>6
    <3>2. New(n) \subseteq at[n] BY <2>6, <3>1
    <3>3. QED BY <2>1, <3>2
  <2>7. CASE ~(New(n - 1) \subseteq at[n - 1])
    <3>1. Cardinality(at[n - 1]) >= n - 1 BY <2>1, <2>4, <2>7
    <3>2. at[n - 1] \subseteq at[n] /\ at[n - 1] # at[n] BY <2>5, <2>7
    <3>3. Cardinality(at[n - 1]) < Cardinality(at[n])
      <4>1. IsFiniteSet(at[n]) /\ Cardinality(at[n]) \in Nat /\ Cardinality(at[n - 1]) \in Nat
        BY <1>2, <2>2, <2>4
      <4>2. Cardinality(at[n - 1]) <= Cardinality(at[n])
            /\ Cardinality(at[n - 1]) # Cardinality(at[n])
        BY <3>2, <4>1, FS_Subset
      <4>3. QED BY <4>1, <4>2
    <3>4. Cardinality(at[n]) >= n BY <1>2, <2>2, <2>4, <3>1, <3>3
    <3>5. QED BY <2>1, <3>4
  <2>8. QED BY <2>6, <2>7
<1>4. RoundCount \in 0..RoundCount BY IdentifiersFinite
<1>5. CASE New(RoundCount) \subseteq at[RoundCount]
  BY <1>1, <1>4, <1>5 DEF Needed, RoundCount
<1>6. CASE Cardinality(at[RoundCount]) >= RoundCount
  <2>1. at[RoundCount] = Identifiers
    <3>1. at[RoundCount] \subseteq Identifiers /\ Cardinality(at[RoundCount]) \in Nat
      BY <1>1, <1>2, <1>4
    <3>2. Cardinality(at[RoundCount]) <= RoundCount
      BY <3>1, IdentifiersFinite, FS_Subset DEF RoundCount
    <3>3. Cardinality(at[RoundCount]) = Cardinality(Identifiers)
      BY <1>6, <3>1, <3>2, IdentifiersFinite DEF RoundCount
    <3>4. QED BY <3>1, <3>3, IdentifiersFinite, FS_Subset
  <2>2. New(RoundCount) \subseteq Identifiers BY <2>1, RulesType, IdsType
  <2>3. QED BY <2>1, <2>2 DEF Needed, RoundCount
<1>7. QED BY <1>3, <1>4, <1>5, <1>6

\* What is needed is in every set that has all that its members require.
LEMMA NeededLeast ==
  ASSUME NEW lock \in Locks, NEW p \in Platforms, NEW S, Ids(Rules(S, lock, p)) \subseteq S
  PROVE  Needed(lock, p) \subseteq S
<1> DEFINE at == Rounds(lock, p)
           Bad == {n \in 0..RoundCount : ~(at[n] \subseteq S)}
<1>1. /\ at[0] = Ids(Required)
      /\ \A n \in 1..RoundCount : at[n] = at[n - 1] \cup Ids(Rules(at[n - 1], lock, p))
  BY RoundsStep
<1>2. Bad = {}
  <2> SUFFICES ASSUME Bad # {} PROVE FALSE OBVIOUS
  <2>1. PICK n \in Bad : \A m \in Bad : n <= m
    <3>1. Bad \in SUBSET Nat BY IdentifiersFinite
    <3> HIDE DEF Bad
    <3>2. QED BY <3>1, SmallestNat
  <2>2. n \in 0..RoundCount BY <2>1
  <2>3. CASE n = 0
    <3>1. Ids(Required) \subseteq S BY RulesMonotonic
    <3>2. QED BY <1>1, <2>1, <2>3, <3>1
  <2>4. CASE n # 0
    <3>1. n - 1 \in 0..RoundCount /\ n \in 1..RoundCount /\ ~(n <= n - 1)
      BY <2>2, <2>4, IdentifiersFinite
    <3>2. at[n - 1] \subseteq S BY <2>1, <3>1
    <3>3. Ids(Rules(at[n - 1], lock, p)) \subseteq S
      <4> DEFINE T == at[n - 1]
      <4> HIDE DEF T
      <4>1. T \subseteq S => Ids(Rules(T, lock, p)) \subseteq Ids(Rules(S, lock, p))
        BY RulesMonotonic
      <4>2. QED BY <3>2, <4>1 DEF T
    <3>4. QED BY <1>1, <2>1, <3>1, <3>2, <3>3
  <2>5. QED BY <2>3, <2>4
<1>3. RoundCount \in 0..RoundCount BY IdentifiersFinite
<1>4. QED BY <1>2, <1>3 DEF Needed, RoundCount

\* A platform looks at what is locked for it.
LEMMA PlatformSame ==
  ASSUME NEW A \in Locks, NEW B \in Locks, NEW p \in Platforms,
         {l \in A : l[3] = p} = {l \in B : l[3] = p}, PlatformOK(A, p)
  PROVE  PlatformOK(B, p)
<1>1. \A n : {l \in A : l[1] = n /\ l[3] = p} = {l \in B : l[1] = n /\ l[3] = p}
  OBVIOUS
<1>2. \A ids : Rules(ids, A, p) = Rules(ids, B, p)
  <2>1. ASSUME NEW ids, NEW r PROVE r \in Rules(ids, A, p) <=> r \in Rules(ids, B, p)
    <3>1. \A l : l \in A /\ l[3] = p <=> l \in B /\ l[3] = p OBVIOUS
    <3>2. QED BY <3>1, RulesMember
  <2>2. ASSUME NEW ids PROVE Rules(ids, A, p) = Rules(ids, B, p)
    <3>1. Rules(ids, A, p) \subseteq Rules(ids, B, p) BY <2>1
    <3>2. Rules(ids, B, p) \subseteq Rules(ids, A, p) BY <2>1
    <3>3. QED BY <3>1, <3>2
  <2>3. QED BY <2>2
<1>3. Needed(A, p) = Needed(B, p)
  <2>1. Needed(A, p) \subseteq Needed(B, p) BY <1>2, NeededFix, NeededLeast
  <2>2. Needed(B, p) \subseteq Needed(A, p) BY <1>2, NeededFix, NeededLeast
  <2>3. QED BY <2>1, <2>2
<1>4. QED BY <1>1, <1>2, <1>3 DEF PlatformOK

LEMMA WheelsKnown ==
  ASSUME NEW cache \in [Projects -> SUBSET Nat],
         \A n \in Projects : cache[n] = Unknown \/ cache[n] \subseteq AllVersions
  PROVE  WithWheels(cache) \in [Projects -> SUBSET Nat] /\ LinksOK(WithWheels(cache))
<1>1. ASSUME NEW n \in Projects
      PROVE  /\ WithWheels(cache)[n] \in SUBSET Nat
             /\ \/ WithWheels(cache)[n] = Unknown /\ \A w \in LocalWheels : w[1] # n
                \/ /\ WithWheels(cache)[n] \subseteq AllVersions
                   /\ \A w \in LocalWheels : w[1] = n => WithWheels(cache)[n] = {w[2]}
  <2>1. CASE \E w \in LocalWheels : w[1] = n
    <3>1. PICK w \in LocalWheels : w[1] = n BY <2>1
    <3>2. {x \in LocalWheels : x[1] = n} = {w} BY <3>1, PyPIAssumption
    <3>3. WithWheels(cache)[n] = {x[2] : x \in {y \in LocalWheels : y[1] = n}}
      BY <2>1 DEF WithWheels
    <3>4. WithWheels(cache)[n] = {w[2]} BY <3>2, <3>3
    <3>5. w[2] \in AllVersions /\ w[2] \in Nat
      BY VersionsType, PyPIAssumption DEF Files
    <3>6. \A x \in LocalWheels : x[1] = n => x[2] = w[2] BY <3>2
    <3>7. QED BY <3>4, <3>5, <3>6
  <2>2. CASE ~ \E w \in LocalWheels : w[1] = n
    <3>1. WithWheels(cache)[n] = cache[n] BY <2>2 DEF WithWheels
    <3>2. QED BY <2>2, <3>1
  <2>3. QED BY <2>1, <2>2
<1>2. WithWheels(cache) = [n \in Projects |-> WithWheels(cache)[n]] BY DEF WithWheels
<1>3. QED BY <1>1, <1>2 DEF LinksOK

\* Requirements that were read are not those of a candidate that was not.
LEMMA UnreadIsNone == \A known \in SUBSET RequirementType : known # Unread
<1>1. \A r \in Unread : r.name = "none"
  <2>1. \A r \in Unread : r = Requirement("none", "", {}, {}, "") BY DEF Unread
  <2>2. Requirement("none", "", {}, {}, "").name = "none" BY DEF Requirement
  <2>3. QED BY <2>1, <2>2
<1>2. Unread # {} BY DEF Unread
<1>3. \A r \in RequirementType : r.name # "none" BY PyPIAssumption DEF RequirementType
<1>4. QED BY <1>1, <1>2, <1>3

LEMMA PyPIInitInv == PyPIInit => PyPIInv
<1> SUFFICES ASSUME PyPIInit PROVE PyPIInv OBVIOUS
<1>1. closure = NoClosure /\ closure.pc = "idle" BY DEF PyPIInit, NoClosure
<1>2. links \in [Projects -> SUBSET Nat] /\ LinksOK(links)
  BY WheelsKnown DEF PyPIInit, Unknown
<1>3. NoClosure \in ClosureType BY DEF NoClosure, ClosureType, NoPins
<1>4. PyPITypeOK
  <2>1. candidate_cache \in [Identifiers -> SUBSET Nat] BY DEF PyPIInit, Unknown
  <2>2. reqs \in [Identifiers \X AllVersions -> {Unread} \cup SUBSET RequirementType]
    BY DEF PyPIInit
  <2>3. resources \in [Files -> {"none", "bad", "whole"}] BY DEF PyPIInit
  <2>4. QED BY <1>1, <1>2, <1>3, <2>1, <2>2, <2>3 DEF PyPITypeOK
<1>5. CachesOK /\ ReqsOK BY <1>2 DEF CachesOK, ReqsOK, PyPIInit
<1>6. PinsOK /\ ReachOK /\ LockedOK /\ FileClosureOK
  BY <1>1 DEF PinsOK, ReachOK, LockedOK, FileClosureOK, Resolution
<1>7. QED BY <1>4, <1>5, <1>6 DEF PyPIInv

\* The call is over without a result.
LEMMA CutStep ==
  ASSUME PyPITypeOK', CachesOK', ReqsOK', closure'.pc \in {"idle", "raised"}
  PROVE  PyPIInv'
BY DEF PyPIInv, PinsOK, ReachOK, LockedOK, FileClosureOK, Resolution

LEMMA ClosureSame ==
  ASSUME PyPIInv, UNCHANGED <<closure, reqs, resources, spoiled>>, PyPITypeOK', CachesOK'
  PROVE  PyPIInv'
<1>1. ReqsOK' BY DEF PyPIInv, ReqsOK
<1>2. PinsOK' BY DEF PyPIInv, PinsOK, Pinned, Pin1
<1>3. ReachOK' BY DEF PyPIInv, ReachOK, HasAll, Pinned, DepsOf, Pin1
<1>4. LockedOK' BY DEF PyPIInv, LockedOK, Resolved
<1>5. FileClosureOK' BY DEF PyPIInv, FileClosureOK
<1>6. QED BY <1>1, <1>2, <1>3, <1>4, <1>5 DEF PyPIInv

LEMMA RaiseType ==
  ASSUME closure \in ClosureType
  PROVE  Raise \in ClosureType /\ Raise.pc = "raised"
BY DEF Raise, ClosureType

LEMMA FetchCandidatesStep ==
  ASSUME PyPIInv, NEW i \in Identifiers, FetchCandidates(i)
  PROVE  PyPIInv'
<1> DEFINE found == IF links[i[1]] = Unknown THEN Versions[i[1]] ELSE links[i[1]]
<1>1. PyPITypeOK /\ CachesOK /\ ReqsOK /\ LinksOK(links) BY DEF PyPIInv, CachesOK
<1>2. i[1] \in Projects BY DEF Identifiers
<1>3. found \subseteq AllVersions /\ \A w \in LocalWheels : w[1] = i[1] => found = {w[2]}
  <2>1. ~(Unknown \subseteq AllVersions) BY VersionsType DEF Unknown
  <2>2. Versions[i[1]] \subseteq AllVersions BY <1>2 DEF AllVersions
  <2>3. CASE links[i[1]] = Unknown
    <3>1. \A w \in LocalWheels : w[1] # i[1]
      <4>1. ASSUME NEW w \in LocalWheels, w[1] = i[1] PROVE FALSE
        <5>1. Unknown = {w[2]} /\ w[2] \in AllVersions
          BY <1>1, <1>2, <2>1, <2>3, <4>1, PyPIAssumption DEF LinksOK, Files
        <5>2. QED BY <2>1, <5>1
      <4>2. QED BY <4>1
    <3>2. QED BY <2>2, <2>3, <3>1
  <2>4. CASE links[i[1]] # Unknown BY <1>1, <1>2, <2>4 DEF LinksOK
  <2>5. QED BY <2>3, <2>4
<1>4. UNCHANGED <<reqs, resources>> BY DEF FetchCandidates
<1>5. CASE /\ links' = [links EXCEPT ![i[1]] = found]
           /\ candidate_cache' = [candidate_cache EXCEPT ![i] = {v \in found : Allowed(i[1], v)}]
           /\ UNCHANGED <<closure, spoiled>>
  <2>1. \A v \in {v \in found : Allowed(i[1], v)} : Usable(i[1], v) BY <1>3 DEF Usable
  <2>2. found \subseteq Nat BY <1>3, VersionsType
  <2> HIDE DEF found
  <2>3. PyPITypeOK' BY <1>1, <1>2, <1>4, <1>5, <2>2 DEF PyPITypeOK
  <2>4. LinksOK(links)' BY <1>1, <1>2, <1>3, <1>5 DEF LinksOK, PyPITypeOK
  <2>5. CachesOK' BY <1>1, <1>5, <2>1, <2>4 DEF CachesOK, PyPITypeOK
  <2>6. QED BY <1>4, <1>5, <2>3, <2>5, ClosureSame
<1>6. CASE /\ candidate_cache' = [candidate_cache EXCEPT ![i] = {}]
           /\ closure' = Raise /\ spoiled' = TRUE /\ UNCHANGED links
  <2>1. Raise \in ClosureType /\ Raise.pc = "raised" BY <1>1, RaiseType DEF PyPITypeOK
  <2>2. PyPITypeOK' BY <1>1, <1>4, <1>6, <2>1 DEF PyPITypeOK
  <2>3. CachesOK' BY <1>1, <1>6 DEF CachesOK, PyPITypeOK
  <2>4. ReqsOK' BY <1>6 DEF ReqsOK
  <2>5. QED BY <1>6, <2>1, <2>2, <2>3, <2>4, CutStep
<1>7. QED BY <1>5, <1>6 DEF FetchCandidates

LEMMA StartClosureStep == PyPIInv /\ StartClosure => PyPIInv'
<1> SUFFICES ASSUME PyPIInv, StartClosure PROVE PyPIInv' OBVIOUS
<1>1. PyPITypeOK /\ CachesOK /\ ReqsOK BY DEF PyPIInv
<1>2. PICK p \in Platforms :
        closure' = [NoClosure EXCEPT !.pc = "resolve", !.platform = p, !.left = Platforms \ {p}]
  BY DEF StartClosure
<1>3. UNCHANGED <<links, candidate_cache, reqs, resources, spoiled>> BY DEF StartClosure
<1>4. /\ closure' \in ClosureType /\ closure'.pc = "resolve" /\ closure'.platform = p
      /\ closure'.left = Platforms \ {p} /\ closure'.pins = NoPins /\ closure'.locked = {}
  BY <1>2 DEF NoClosure, ClosureType, NoPins, Resolution
<1>5. Pinned' = {} BY <1>4 DEF Pinned, NoPins
<1>6. Resolved' = {} BY <1>4 DEF Resolved, Resolution
<1>7. PyPITypeOK' BY <1>1, <1>3, <1>4 DEF PyPITypeOK
<1>8. CachesOK' /\ ReqsOK' BY <1>1, <1>3 DEF CachesOK, ReqsOK
<1>9. PinsOK' BY <1>4, <1>5 DEF PinsOK
<1>10. ReachOK' BY <1>5 DEF ReachOK
<1>11. LockedOK' BY <1>4, <1>6 DEF LockedOK
<1>12. FileClosureOK' BY <1>4 DEF FileClosureOK
<1>13. QED BY <1>7, <1>8, <1>9, <1>10, <1>11, <1>12 DEF PyPIInv

LEMMA NewObjectFacts ==
  ASSUME NewObject, PyPITypeOK, links' \in [Projects -> SUBSET Nat], LinksOK(links'),
         resources' \in [Files -> {"none", "bad", "whole"}]
  PROVE  PyPIInv'
<1>1. closure' = NoClosure /\ closure'.pc = "idle" BY DEF NewObject, NoClosure
<1>2. NoClosure \in ClosureType BY DEF NoClosure, ClosureType, NoPins
<1>3. PyPITypeOK' BY <1>1, <1>2 DEF PyPITypeOK, NewObject, Unknown
<1>4. CachesOK' BY DEF CachesOK, NewObject
<1>5. ReqsOK' BY DEF ReqsOK, NewObject
<1>6. QED BY <1>1, <1>3, <1>4, <1>5, CutStep

LEMMA NewClosureStep == PyPIInv /\ NewClosure => PyPIInv'
<1> SUFFICES ASSUME PyPIInv, NewClosure PROVE PyPIInv' OBVIOUS
<1>1. PyPITypeOK /\ LinksOK(links) BY DEF PyPIInv, CachesOK
<1>2. \A n \in Projects : links[n] = Unknown \/ links[n] \subseteq AllVersions
  BY <1>1 DEF LinksOK
<1>3. links' \in [Projects -> SUBSET Nat] /\ LinksOK(links')
  BY <1>1, <1>2, WheelsKnown DEF NewClosure, PyPITypeOK
<1>4. QED BY <1>1, <1>3, NewObjectFacts DEF NewClosure, PyPITypeOK

LEMMA ClosureKilledStep == PyPIInv /\ ClosureKilled => PyPIInv'
<1> SUFFICES ASSUME PyPIInv, ClosureKilled PROVE PyPIInv' OBVIOUS
<1>1. PyPITypeOK BY DEF PyPIInv
<1> DEFINE none == [n \in Projects |-> Unknown]
<1>2. none \in [Projects -> SUBSET Nat] /\ \A n \in Projects : none[n] = Unknown BY DEF Unknown
<1>3. links' \in [Projects -> SUBSET Nat] /\ LinksOK(links')
  <2>1. links' = WithWheels(none) BY DEF ClosureKilled
  <2> HIDE DEF none
  <2>2. QED BY <1>2, <2>1, WheelsKnown
<1>4. resources' \in [Files -> {"none", "bad", "whole"}]
  BY <1>1 DEF ClosureKilled, PyPITypeOK
<1>5. QED BY <1>1, <1>3, <1>4, NewObjectFacts DEF ClosureKilled

\* A step that goes on resolving the same platform.
LEMMA SamePlatformStep ==
  ASSUME PyPIInv, closure.pc \in Resolution, closure'.pc \in Resolution,
         closure'.platform = closure.platform, closure'.left = closure.left,
         closure'.locked = closure.locked, spoiled' = spoiled,
         \A f \in Files : resources[f] = "whole" => resources'[f] = "whole",
         PyPITypeOK', CachesOK', ReqsOK', PinsOK', ReachOK'
  PROVE  PyPIInv'
<1>1. LockedOK /\ closure.locked \in Locks BY DEF PyPIInv, PyPITypeOK, ClosureType, Locks
<1>2. Resolved' = Resolved BY DEF Resolved
<1>3. \A l \in closure.locked : <<l[1], l[2]>> \in Files BY <1>1 DEF Locks, Files
<1>4. LockedOK' BY <1>1, <1>2, <1>3 DEF LockedOK
<1>5. FileClosureOK' BY DEF FileClosureOK, Resolution
<1>6. QED BY <1>4, <1>5 DEF PyPIInv

\* The identifier of a requirement that holds is in every set that has all.
LEMMA ActiveReached ==
  ASSUME NEW S, HasAll(S), Pinned \subseteq S, NEW i, OnIdentifier(i) # {}
  PROVE  i \in S
<1>1. PICK r \in Active : <<r.name, r.extra>> = i BY DEF OnIdentifier
<1>2. CASE r \in Required BY <1>1, <1>2 DEF HasAll, Ids
<1>3. CASE \E j \in Pinned : r \in DepsOf(j)
  <2>1. PICK j \in Pinned : r \in DepsOf(j) BY <1>3
  <2>2. i \in Ids(DepsOf(j)) BY <1>1, <2>1 DEF Ids
  <2>3. QED BY <2>1, <2>2 DEF HasAll
<1>4. QED
  <2>1. r \in Required \/ \E j \in Pinned : r \in DepsOf(j) BY <1>1 DEF Active, DepsOf, Pin1
  <2>2. QED BY <1>2, <1>3, <2>1

LEMMA PinStep ==
  ASSUME PyPIInv, NEW i \in Identifiers, Pin(i)
  PROVE  PyPIInv'
<1>1. PyPITypeOK /\ CachesOK /\ ReqsOK /\ PinsOK /\ ReachOK BY DEF PyPIInv
<1>2. UNCHANGED <<links, candidate_cache, reqs, resources, spoiled>> BY DEF Pin
<1>3. CachesOK' /\ ReqsOK' BY <1>1, <1>2 DEF CachesOK, ReqsOK
<1>4. /\ closure.pc = "resolve" /\ i \notin Pinned /\ OnIdentifier(i) # {}
      /\ candidate_cache[i] # Unknown /\ closure \in ClosureType
  BY <1>1 DEF Pin, Resolving, ToPin, PyPITypeOK
<1>5. /\ closure.platform \in Platforms \ closure.left
      /\ \A j \in Pinned : Usable(j[1], closure.pins[j]) /\ reqs[Pin1(j)] # Unread
  BY <1>1, <1>4 DEF PinsOK, Resolution
<1>6. CASE \E v \in candidate_cache[i] :
             closure' = [closure EXCEPT !.pins[i] = v, !.pc = "read", !.at = <<i, v>>]
  <2>1. PICK v \in candidate_cache[i] :
          closure' = [closure EXCEPT !.pins[i] = v, !.pc = "read", !.at = <<i, v>>]
    BY <1>6
  <2>2. Usable(i[1], v) /\ v \in AllVersions /\ v \in Nat /\ v # 0
    BY <1>1, <1>4, VersionsType DEF CachesOK, Usable
  <2>3. /\ closure' \in ClosureType /\ closure'.pc = "read" /\ closure'.at = <<i, v>>
        /\ closure'.platform = closure.platform /\ closure'.left = closure.left
        /\ closure'.locked = closure.locked
    BY <1>4, <2>1, <2>2 DEF ClosureType, Resolution
  <2>4. \A j \in Identifiers : closure'.pins[j] = IF j = i THEN v ELSE closure.pins[j]
    BY <1>4, <2>1 DEF ClosureType
  <2>5. Pinned' = Pinned \cup {i}
    <3>1. \A j \in Identifiers : j \in Pinned' <=> j \in Pinned \/ j = i
      BY <2>2, <2>4 DEF Pinned
    <3>2. Pinned \subseteq Identifiers /\ Pinned' \subseteq Identifiers BY DEF Pinned
    <3>3. QED BY <3>1, <3>2
  <2>6. \A j \in Pinned : j \in Identifiers /\ j # i /\ Pin1(j)' = Pin1(j) /\ DepsOf(j)' = DepsOf(j)
    <3>1. \A j \in Pinned : j \in Identifiers /\ j # i /\ closure'.pins[j] = closure.pins[j]
      BY <1>4, <2>4 DEF Pinned
    <3>2. QED BY <1>2, <2>3, <3>1 DEF DepsOf, Pin1
  <2>7. Pin1(i)' = <<i, v>> /\ closure'.pins[i] = v BY <2>4 DEF Pin1
  <2>8. PyPITypeOK' BY <1>1, <1>2, <2>3 DEF PyPITypeOK
  <2>9. PinsOK'
    <3>1. \A j \in Pinned' : /\ Usable(j[1], closure'.pins[j])
                             /\ reqs'[Pin1(j)'] = Unread => closure'.at = Pin1(j)'
      <4>1. \A j \in Pinned : /\ Usable(j[1], closure'.pins[j])
                              /\ reqs'[Pin1(j)'] # Unread
        BY <1>2, <1>5, <2>4, <2>6
      <4>2. QED BY <2>2, <2>3, <2>5, <2>7, <4>1
    <3>2. i \in Pinned' /\ closure'.at = Pin1(i)' BY <2>3, <2>5, <2>7
    <3>3. QED BY <1>5, <2>3, <3>1, <3>2 DEF PinsOK, Usable
  <2>10. ReachOK'
    <3>1. ASSUME NEW S \in SUBSET Identifiers, HasAll(S)' PROVE Pinned' \subseteq S
      <4>1. Ids(Required) \subseteq S /\ \A j \in Pinned' \cap S : Ids(DepsOf(j)') \subseteq S
        BY <3>1 DEF HasAll, Ids
      <4>2. HasAll(S) BY <2>5, <2>6, <4>1 DEF HasAll
      <4>3. Pinned \subseteq S BY <1>1, <1>4, <4>2 DEF ReachOK, Resolution
      <4>4. i \in S BY <1>4, <4>2, <4>3, ActiveReached
      <4>5. QED BY <2>5, <4>3, <4>4
    <3>2. QED BY <3>1 DEF ReachOK
  <2>11. QED BY <1>2, <1>3, <1>4, <2>3, <2>8, <2>9, <2>10, SamePlatformStep DEF Resolution
<1>7. CASE closure' = [closure EXCEPT !.pc = "conflict"]
  <2>1. /\ closure' \in ClosureType /\ closure'.pc = "conflict" /\ closure'.pins = closure.pins
        /\ closure'.platform = closure.platform /\ closure'.left = closure.left
        /\ closure'.locked = closure.locked
    BY <1>4, <1>7 DEF ClosureType, Resolution
  <2>2. PyPITypeOK' BY <1>1, <1>2, <2>1 DEF PyPITypeOK
  <2>3. PinsOK' BY <1>2, <1>5, <2>1 DEF PinsOK, Pinned, Pin1, Usable
  <2>4. ReachOK' BY <1>1, <1>2, <1>4, <2>1 DEF ReachOK, HasAll, Pinned, DepsOf, Pin1, Resolution
  <2>5. QED BY <1>2, <1>3, <1>4, <2>1, <2>2, <2>3, <2>4, SamePlatformStep DEF Resolution
<1>8. CASE closure' = Raise
  <2>1. Raise \in ClosureType /\ Raise.pc = "raised" BY <1>4, RaiseType
  <2>2. PyPITypeOK' BY <1>1, <1>2, <1>8, <2>1 DEF PyPITypeOK
  <2>3. QED BY <1>3, <1>8, <2>1, <2>2, CutStep
<1>9. QED BY <1>6, <1>7, <1>8 DEF Pin

\* Of a candidate that was not read the base is known, and no more.
LEMMA UnreadDeps ==
  ASSUME NEW known, NEW i, NEW v, NEW p
  PROVE  DependenciesOf(Unread, i, v, p) \subseteq DependenciesOf(known, i, v, p)
<1>1. {r \in Unread : p \in r.on} = {}
  <2>1. \A r \in Unread : r = Requirement("none", "", {}, {}, "") BY DEF Unread
  <2>2. Requirement("none", "", {}, {}, "").on = {} BY DEF Requirement
  <2>3. QED BY <2>1, <2>2
<1>2. QED BY <1>1 DEF DependenciesOf

LEMMA ReadRequirementsStep == PyPIInv /\ ReadRequirements => PyPIInv'
<1> SUFFICES ASSUME PyPIInv, ReadRequirements PROVE PyPIInv' OBVIOUS
<1>1. PyPITypeOK /\ CachesOK /\ ReqsOK /\ PinsOK /\ ReachOK BY DEF PyPIInv
<1>2. closure.pc = "read" /\ closure \in ClosureType BY <1>1 DEF ReadRequirements, PyPITypeOK
<1>3. PICK i \in Pinned : closure.at = Pin1(i) BY <1>1, <1>2 DEF PinsOK, Resolution
<1>4. i \in Identifiers /\ Usable(i[1], closure.pins[i]) /\ i[1] \in Projects
  BY <1>1, <1>2 DEF PinsOK, Resolution, Pinned, Identifiers
<1> DEFINE f == <<i[1], closure.pins[i]>>
           at == closure.at
<1>5. /\ at \in Identifiers \X AllVersions /\ f \in Files /\ f = <<at[1][1], at[2]>>
  BY <1>3, <1>4 DEF Pin1, Usable, Files
<1>6. UNCHANGED <<links, candidate_cache>> BY DEF ReadRequirements
<1>7. CachesOK' BY <1>1, <1>6 DEF CachesOK
<1>8. Requires[f] \in SUBSET RequirementType /\ Requires[f] # Unread
  BY <1>5, UnreadIsNone, PyPIAssumption
<1>9. CASE /\ reqs[at] # Unread \/ resources[f] \in {"none", "whole"}
           /\ resources' = [resources EXCEPT ![f] = IF reqs[at] # Unread THEN @ ELSE "whole"]
           /\ reqs' = [reqs EXCEPT ![at] = IF @ # Unread THEN @ ELSE Requires[f]]
           /\ closure' = [closure EXCEPT !.pc = "resolve"]
           /\ spoiled' = spoiled
  <2>1. /\ closure' \in ClosureType /\ closure'.pc = "resolve" /\ closure'.pins = closure.pins
        /\ closure'.platform = closure.platform /\ closure'.left = closure.left
        /\ closure'.locked = closure.locked
    BY <1>2, <1>9 DEF ClosureType, Resolution
  <2>2. \A k \in Identifiers \X AllVersions :
           reqs'[k] = IF k = at /\ reqs[at] = Unread THEN Requires[f] ELSE reqs[k]
    BY <1>1, <1>9 DEF PyPITypeOK
  <2>3. \A g \in Files :
           resources'[g] = IF g = f /\ reqs[at] = Unread THEN "whole" ELSE resources[g]
    BY <1>1, <1>9 DEF PyPITypeOK
  <2>4. PyPITypeOK'
    <3>1. reqs' \in [Identifiers \X AllVersions -> {Unread} \cup SUBSET RequirementType]
      BY <1>1, <1>8, <1>9 DEF PyPITypeOK
    <3>2. resources' \in [Files -> {"none", "bad", "whole"}] BY <1>1, <1>9 DEF PyPITypeOK
    <3>3. QED BY <1>1, <1>6, <2>1, <3>1, <3>2 DEF PyPITypeOK
  <2>5. \A g \in Files : resources[g] = "whole" => resources'[g] = "whole" BY <2>3
  <2>6. ReqsOK'
    <3>1. ASSUME ~spoiled', NEW k \in Identifiers \X AllVersions, reqs'[k] # Unread
          PROVE  reqs'[k] = Requires[<<k[1][1], k[2]>>] /\ resources'[<<k[1][1], k[2]>>] = "whole"
      <4>1. CASE k = at /\ reqs[at] = Unread BY <1>5, <2>2, <2>3, <4>1
      <4>2. CASE ~(k = at /\ reqs[at] = Unread)
        <5>1. reqs'[k] = reqs[k] BY <2>2, <4>2
        <5>2. reqs[k] = Requires[<<k[1][1], k[2]>>] /\ resources[<<k[1][1], k[2]>>] = "whole"
          BY <1>1, <1>9, <3>1, <5>1 DEF ReqsOK
        <5>3. <<k[1][1], k[2]>> \in Files BY DEF Files, Identifiers
        <5>4. QED BY <2>5, <5>1, <5>2, <5>3
      <4>3. QED BY <4>1, <4>2
    <3>2. QED BY <3>1 DEF ReqsOK
  <2>7. Pinned' = Pinned BY <2>1 DEF Pinned
  <2>8. \A j \in Pinned : Pin1(j)' = Pin1(j) /\ Pin1(j) \in Identifiers \X AllVersions
    BY <1>1, <1>2, <2>1 DEF Pin1, PinsOK, Usable, Pinned, Resolution
  <2>9. PinsOK'
    <3>1. \A j \in Pinned : Usable(j[1], closure'.pins[j])
      BY <1>1, <1>2, <2>1 DEF PinsOK, Resolution
    <3>2. \A j \in Pinned : reqs'[Pin1(j)] # Unread
      BY <1>1, <1>2, <1>8, <2>2, <2>8 DEF PinsOK, Resolution
    <3>3. closure'.platform \in Platforms \ closure'.left
      BY <1>1, <1>2, <2>1 DEF PinsOK, Resolution
    <3>4. QED BY <2>1, <2>7, <2>8, <3>1, <3>2, <3>3 DEF PinsOK, Usable
  <2>10. \A j \in Pinned : DepsOf(j) \subseteq DepsOf(j)'
    <3>1. ASSUME NEW j \in Pinned PROVE DepsOf(j) \subseteq DepsOf(j)'
      <4>1. DepsOf(j)' = DependenciesOf(reqs'[Pin1(j)], j, closure.pins[j], closure.platform)
        BY <2>1, <2>8 DEF DepsOf
      <4>2. CASE reqs[Pin1(j)] = Unread BY <4>1, <4>2, UnreadDeps DEF DepsOf
      <4>3. CASE reqs[Pin1(j)] # Unread
        <5>1. reqs'[Pin1(j)] = reqs[Pin1(j)] BY <2>2, <2>8, <4>3
        <5>2. QED BY <4>1, <5>1 DEF DepsOf
      <4>4. QED BY <4>2, <4>3
    <3>2. QED BY <3>1
  <2>11. ReachOK'
    <3>1. ASSUME NEW S \in SUBSET Identifiers, HasAll(S)' PROVE Pinned' \subseteq S
      <4>1. Ids(Required) \subseteq S /\ \A j \in Pinned \cap S : Ids(DepsOf(j)') \subseteq S
        BY <2>7, <3>1 DEF HasAll, Ids
      <4>2. \A j \in Pinned : Ids(DepsOf(j)) \subseteq Ids(DepsOf(j)') BY <2>10 DEF Ids
      <4>3. HasAll(S) BY <4>1, <4>2 DEF HasAll
      <4>4. QED BY <1>1, <1>2, <2>7, <4>3 DEF ReachOK, Resolution
    <3>2. QED BY <3>1 DEF ReachOK
  <2>12. QED BY <1>2, <1>7, <1>9, <2>1, <2>4, <2>5, <2>6, <2>9, <2>11, SamePlatformStep
           DEF Resolution
<1>10. CASE /\ resources' = resources \/ \E left \in {"none", "bad"} :
                                           resources' = [resources EXCEPT ![f] = left]
            /\ reqs' = [reqs EXCEPT ![at] = BeforeReading]
            /\ closure' = Raise /\ spoiled' = TRUE
  <2>1. Raise \in ClosureType /\ Raise.pc = "raised" BY <1>2, RaiseType
  <2>2. resources' \in [Files -> {"none", "bad", "whole"}] BY <1>1, <1>10 DEF PyPITypeOK
  <2>3. reqs' \in [Identifiers \X AllVersions -> {Unread} \cup SUBSET RequirementType]
    BY <1>1, <1>10 DEF PyPITypeOK, BeforeReading
  <2>4. PyPITypeOK' BY <1>1, <1>6, <1>10, <2>1, <2>2, <2>3 DEF PyPITypeOK
  <2>5. ReqsOK' BY <1>10 DEF ReqsOK
  <2>6. QED BY <1>7, <1>10, <2>1, <2>4, <2>5, CutStep
<1>11. QED BY <1>5, <1>9, <1>10 DEF ReadRequirements

LEMMA BacktrackStep == PyPIInv /\ Backtrack => PyPIInv'
<1> SUFFICES ASSUME PyPIInv, Backtrack PROVE PyPIInv' OBVIOUS
<1>1. PyPITypeOK /\ CachesOK /\ ReqsOK /\ PinsOK BY DEF PyPIInv
<1>2. UNCHANGED <<links, candidate_cache, reqs, resources, spoiled>> BY DEF Backtrack
<1>3. CachesOK' /\ ReqsOK' BY <1>1, <1>2 DEF CachesOK, ReqsOK
<1>4. closure \in ClosureType /\ closure.pc \in Resolution
  BY <1>1 DEF PyPITypeOK, Backtrack, Resolution
<1>5. CASE closure' = [closure EXCEPT !.pc = "resolve", !.pins = NoPins]
  <2>1. /\ closure' \in ClosureType /\ closure'.pc = "resolve" /\ closure'.pins = NoPins
        /\ closure'.platform = closure.platform /\ closure'.left = closure.left
        /\ closure'.locked = closure.locked
    BY <1>4, <1>5 DEF ClosureType, Resolution, NoPins
  <2>2. Pinned' = {} BY <2>1 DEF Pinned, NoPins
  <2>3. PyPITypeOK' BY <1>1, <1>2, <2>1 DEF PyPITypeOK
  <2>4. PinsOK' BY <1>1, <1>4, <2>1, <2>2 DEF PinsOK
  <2>5. ReachOK' BY <2>2 DEF ReachOK
  <2>6. QED BY <1>2, <1>3, <1>4, <2>1, <2>3, <2>4, <2>5, SamePlatformStep DEF Resolution
<1>6. CASE closure' = Raise
  <2>1. Raise \in ClosureType /\ Raise.pc = "raised" BY <1>4, RaiseType
  <2>2. PyPITypeOK' BY <1>1, <1>2, <1>6, <2>1 DEF PyPITypeOK
  <2>3. QED BY <1>3, <1>6, <2>1, <2>2, CutStep
<1>7. QED BY <1>5, <1>6 DEF Backtrack

\* What NextPlatform locks.
LockedNow == {<<i[1], closure.pins[i], closure.platform>> : i \in {j \in Pinned : j[2] = ""}}

LEMMA LockedNowMember ==
  \A l \in LockedNow : \E i \in Pinned : i[2] = "" /\ l = <<i[1], closure.pins[i], closure.platform>>
BY DEF LockedNow

\* When nothing is left to pin, the pins are all that is needed.
LEMMA PlatformResolved ==
  ASSUME PyPIInv, Resolving, ToPin = {}, ~spoiled
  PROVE  PlatformOK(closure.locked \cup LockedNow, closure.platform)
<1> DEFINE P == closure.platform
           lock == closure.locked \cup LockedNow
           Base(i) == <<i[1], "">>
<1>1. PyPITypeOK /\ ReqsOK /\ PinsOK /\ ReachOK /\ LockedOK BY DEF PyPIInv
<1>2. closure \in ClosureType /\ closure.pc = "resolve" BY <1>1 DEF PyPITypeOK, Resolving
<1>3. P \in Platforms /\ P \notin closure.left BY <1>1, <1>2 DEF PinsOK, Resolution
<1>4. \A i \in Pinned : /\ i \in Identifiers /\ i = <<i[1], i[2]>> /\ closure.pins[i] \in AllVersions
                        /\ i[1] \in Projects /\ Base(i) \in Identifiers
                        /\ Pin1(i) \in Identifiers \X AllVersions
                        /\ reqs[Pin1(i)] = Requires[<<i[1], closure.pins[i]>>]
  <2>1. ASSUME NEW i \in Pinned
        PROVE  /\ closure.pins[i] \in AllVersions /\ reqs[Pin1(i)] # Unread
               /\ i \in Identifiers
    BY <1>1, <1>2 DEF PinsOK, Usable, Pinned, Resolution
  <2>2. ASSUME NEW i \in Identifiers
        PROVE  i = <<i[1], i[2]>> /\ i[1] \in Projects /\ Base(i) \in Identifiers
    <3>1. i = <<i[1], i[2]>> /\ i[1] \in Projects BY DEF Identifiers
    <3>2. Base(i) \in Identifiers BY <3>1, PyPIAssumption DEF Identifiers
    <3>3. QED BY <3>1, <3>2
  <2>3. ASSUME NEW i \in Pinned
        PROVE  /\ Pin1(i) \in Identifiers \X AllVersions
               /\ reqs[Pin1(i)] = Requires[<<i[1], closure.pins[i]>>]
    <3>1. Pin1(i) \in Identifiers \X AllVersions /\ Pin1(i)[1] = i /\ Pin1(i)[2] = closure.pins[i]
      BY <2>1 DEF Pin1
    <3>2. reqs[Pin1(i)] = Requires[<<Pin1(i)[1][1], Pin1(i)[2]>>] BY <1>1, <2>1, <3>1 DEF ReqsOK
    <3>3. QED BY <3>1, <3>2
  <2>4. QED BY <2>1, <2>2, <2>3
<1>5. \A r : r \in Active <=> r \in Required \/ \E j \in Pinned : r \in DepsOf(j)
  BY DEF Active, DepsOf, Pin1
<1>6. \A r \in Active : <<r.name, r.extra>> \in Pinned
  <2>1. ASSUME NEW j \in Pinned PROVE DepsOf(j) \subseteq RequirementType
    <3>1. reqs[Pin1(j)] \in {Unread} \cup SUBSET RequirementType
      BY <1>1, <1>4 DEF PyPITypeOK
    <3>2. QED BY <1>3, <1>4, <3>1, DepsType DEF DepsOf
  <2>2. Active \subseteq RequirementType BY <1>5, <2>1, PyPIAssumption
  <2>3. ASSUME NEW r \in Active PROVE <<r.name, r.extra>> \in Pinned
    <3>1. <<r.name, r.extra>> \in Identifiers BY <2>2 DEF RequirementType, Identifiers
    <3>2. r \in OnIdentifier(<<r.name, r.extra>>) BY DEF OnIdentifier
    <3>3. QED BY <3>1, <3>2 DEF ToPin
  <2>4. QED BY <2>3
<1>7. \A r \in Active : closure.pins[<<r.name, r.extra>>] \in r.versions
  <2>1. ASSUME NEW r \in Active PROVE closure.pins[<<r.name, r.extra>>] \in r.versions
    <3>1. Satisfies(closure.pins[<<r.name, r.extra>>], <<r.name, r.extra>>)
      BY <1>6 DEF Resolving
    <3>2. r \in OnIdentifier(<<r.name, r.extra>>) BY DEF OnIdentifier
    <3>3. QED BY <3>1, <3>2 DEF Satisfies
  <2>2. QED BY <2>1
<1>8. \A i \in Pinned : Base(i) \in Pinned /\ closure.pins[Base(i)] = closure.pins[i]
  <2>1. ASSUME NEW i \in Pinned, i[2] # ""
        PROVE  Base(i) \in Pinned /\ closure.pins[Base(i)] = closure.pins[i]
    <3> DEFINE base == Requirement(i[1], "", {closure.pins[i]}, Platforms, "")
    <3>1. base.name = i[1] /\ base.extra = "" /\ base.versions = {closure.pins[i]}
      BY DEF Requirement
    <3>2. base \in DepsOf(i) BY <2>1 DEF DepsOf, DependenciesOf
    <3> HIDE DEF base
    <3>3. base \in Active BY <1>5, <3>2
    <3>4. QED BY <1>6, <1>7, <3>1, <3>3
  <2>2. ASSUME NEW i \in Pinned, i[2] = ""
        PROVE  Base(i) \in Pinned /\ closure.pins[Base(i)] = closure.pins[i]
    <3>1. Base(i) = i BY <1>4, <2>2
    <3>2. QED BY <3>1
  <2>3. QED BY <2>1, <2>2
<1>9. \A l \in lock : l[3] = P => \E j \in Pinned : /\ j[2] = "" /\ l = <<j[1], closure.pins[j], P>>
  <2>1. \A l \in closure.locked : l[3] # P BY <1>1, <1>2 DEF LockedOK, Resolved, Resolution
  <2>2. QED BY <2>1 DEF LockedNow
<1>10. \A i \in Pinned : {l \in lock : l[1] = i[1] /\ l[3] = P} = {<<i[1], closure.pins[i], P>>}
  <2>1. ASSUME NEW i \in Pinned
        PROVE  <<i[1], closure.pins[i], P>> \in lock
    <3>1. /\ Base(i) \in Pinned /\ Base(i)[1] = i[1] /\ Base(i)[2] = ""
          /\ closure.pins[Base(i)] = closure.pins[i]
      BY <1>8
    <3>2. QED BY <3>1 DEF LockedNow
  <2>2. ASSUME NEW i \in Pinned, NEW l \in lock, l[1] = i[1], l[3] = P
        PROVE  l = <<i[1], closure.pins[i], P>>
    <3>1. PICK j \in Pinned : j[2] = "" /\ l = <<j[1], closure.pins[j], P>> BY <1>9, <2>2
    <3>2. j = Base(i) BY <1>4, <2>2, <3>1
    <3>3. QED BY <1>8, <2>2, <3>1, <3>2
  <2>3. QED BY <2>1, <2>2
<1>11. lock \in Locks /\ Pinned \in SUBSET Identifiers
  <2>1. closure.locked \in Locks BY <1>2 DEF ClosureType, Locks
  <2>2. LockedNow \subseteq Projects \X AllVersions \X Platforms
    <3>1. \A i \in Pinned : <<i[1], closure.pins[i], P>> \in Projects \X AllVersions \X Platforms
      BY <1>3, <1>4
    <3>2. QED BY <3>1, LockedNowMember
  <2>3. QED BY <1>4, <2>1, <2>2 DEF Locks
<1> HIDE DEF lock, P, Base
\* What a pinned identifier requires, of what is locked.
<1>12. \A i \in Pinned : \A r :
         r \in DepsOf(i) <=>
           \E l \in lock : /\ l[1] = i[1] /\ l[3] = P
                           /\ r \in DependenciesOf(Requires[<<i[1], l[2]>>], i, l[2], P)
  <2>1. ASSUME NEW i \in Pinned, NEW r
        PROVE  r \in DepsOf(i) <=>
                 \E l \in lock : /\ l[1] = i[1] /\ l[3] = P
                                 /\ r \in DependenciesOf(Requires[<<i[1], l[2]>>], i, l[2], P)
    <3>1. DepsOf(i) = DependenciesOf(Requires[<<i[1], closure.pins[i]>>], i, closure.pins[i], P)
      BY <1>4 DEF DepsOf, P
    <3>2. \A l : l \in lock /\ l[1] = i[1] /\ l[3] = P <=> l = <<i[1], closure.pins[i], P>>
      BY <1>10
    <3>3. <<i[1], closure.pins[i], P>>[2] = closure.pins[i] OBVIOUS
    <3>4. QED BY <3>1, <3>2, <3>3
  <2>2. QED BY <2>1
<1>13. \A r : r \in Rules(Pinned, lock, P) <=> r \in Active BY <1>5, <1>12, RulesMember
<1>14. Ids(Rules(Pinned, lock, P)) \subseteq Pinned BY <1>6, <1>13 DEF Ids
<1>15. Needed(lock, P) = Pinned
  <2> DEFINE N == Needed(lock, P)
  <2>1. P \in Platforms BY <1>3 DEF P
  <2>2. N \subseteq Pinned BY <1>11, <1>14, <2>1, NeededLeast
  <2>3. N \subseteq Identifiers /\ Ids(Rules(N, lock, P)) \subseteq N
    BY <1>11, <2>1, NeededFix
  <2> HIDE DEF N
  <2>4. Ids(Required) \subseteq N BY <2>3, RulesMonotonic
  <2>5. ASSUME NEW i \in Pinned \cap N PROVE Ids(DepsOf(i)) \subseteq N
    <3>1. DepsOf(i) \subseteq Rules(N, lock, P) BY <1>12, <2>5, RulesMember
    <3>2. QED BY <2>3, <3>1 DEF Ids
  <2>6. HasAll(N) BY <2>4, <2>5 DEF HasAll
  <2>7. Pinned \subseteq N BY <1>1, <1>2, <2>3, <2>6 DEF ReachOK, Resolution
  <2>8. QED BY <2>2, <2>7 DEF N
<1>16. \A i \in Pinned : Cardinality({l \in lock : l[1] = i[1] /\ l[3] = P}) = 1
  BY <1>10, FS_Singleton
<1>17. ASSUME NEW r \in Active, NEW l \in lock, l[1] = r.name, l[3] = P
       PROVE  l[2] \in r.versions
  <2> DEFINE i == <<r.name, r.extra>>
  <2>1. i \in Pinned /\ i[1] = r.name BY <1>6
  <2>2. l = <<i[1], closure.pins[i], P>> BY <1>10, <1>17, <2>1
  <2>3. closure.pins[i] \in r.versions BY <1>7
  <2>4. QED BY <2>2, <2>3
<1>18. ASSUME NEW l \in lock, l[3] = P PROVE <<l[1], "">> \in Pinned
  <2>1. PICK j \in Pinned : j[2] = "" /\ l = <<j[1], closure.pins[j], P>>
    BY <1>9, <1>18 DEF lock, P
  <2>2. j = <<l[1], "">> BY <1>4, <2>1
  <2>3. QED BY <2>1, <2>2
<1>19. PlatformOK(lock, P) BY <1>13, <1>15, <1>16, <1>17, <1>18 DEF PlatformOK
<1>20. QED BY <1>19 DEF lock, P

LEMMA NextPlatformStep == PyPIInv /\ NextPlatform => PyPIInv'
<1> SUFFICES ASSUME PyPIInv, NextPlatform PROVE PyPIInv' OBVIOUS
<1> DEFINE P == closure.platform
<1>1. PyPITypeOK /\ CachesOK /\ ReqsOK /\ PinsOK /\ LockedOK BY DEF PyPIInv
<1>2. UNCHANGED <<links, candidate_cache, reqs, resources, spoiled>> BY DEF NextPlatform
<1>3. CachesOK' /\ ReqsOK' BY <1>1, <1>2 DEF CachesOK, ReqsOK
<1>4. Resolving /\ ToPin = {} /\ closure \in ClosureType /\ closure.pc = "resolve"
  BY <1>1 DEF PyPITypeOK, NextPlatform, Resolving
<1>5. P \in Platforms \ closure.left BY <1>1, <1>4 DEF PinsOK, Resolution
<1>6. Resolved = Platforms \ (closure.left \cup {P}) BY <1>4 DEF Resolved, Resolution
<1>7. \A i \in Pinned : /\ i \in Identifiers /\ Usable(i[1], closure.pins[i])
                        /\ reqs[Pin1(i)] # Unread
  BY <1>1, <1>4 DEF PinsOK, Pinned, Resolution
<1> DEFINE lock == closure.locked \cup LockedNow
<1>8. \A l \in LockedNow : Usable(l[1], l[2]) /\ l[3] = P /\ (~spoiled => resources[<<l[1], l[2]>>] = "whole")
  <2>1. ASSUME NEW i \in Pinned, ~spoiled
        PROVE  resources[<<i[1], closure.pins[i]>>] = "whole"
    <3>1. Pin1(i) \in Identifiers \X AllVersions /\ Pin1(i)[1] = i /\ Pin1(i)[2] = closure.pins[i]
      BY <1>7 DEF Pin1, Usable
    <3>2. resources[<<Pin1(i)[1][1], Pin1(i)[2]>>] = "whole" BY <1>1, <1>7, <2>1, <3>1 DEF ReqsOK
    <3>3. QED BY <3>1, <3>2
  <2>2. ASSUME NEW l \in LockedNow
        PROVE  Usable(l[1], l[2]) /\ l[3] = P /\ (~spoiled => resources[<<l[1], l[2]>>] = "whole")
    <3>1. PICK i \in Pinned : l = <<i[1], closure.pins[i], P>> BY LockedNowMember
    <3>2. l[1] = i[1] /\ l[2] = closure.pins[i] /\ l[3] = P BY <3>1
    <3>3. QED BY <1>7, <2>1, <3>2
  <2>3. QED BY <2>2
<1>9. lock \in Locks /\ closure.locked \in Locks
  <2>1. closure.locked \in Locks BY <1>4 DEF ClosureType, Locks
  <2>2. LockedNow \subseteq Projects \X AllVersions \X Platforms
    <3>1. \A i \in Pinned : i[1] \in Projects /\ closure.pins[i] \in AllVersions
      BY <1>7 DEF Usable, Identifiers
    <3>2. \A i \in Pinned : <<i[1], closure.pins[i], P>> \in Projects \X AllVersions \X Platforms
      BY <1>5, <3>1
    <3>3. QED BY <3>2, LockedNowMember
  <2>3. QED BY <2>1, <2>2 DEF Locks
<1>10. \A l \in closure.locked : Usable(l[1], l[2]) /\ l[3] \in Resolved
  BY <1>1, <1>4 DEF LockedOK, Resolution
<1>11. ~spoiled => /\ \A l \in lock : resources[<<l[1], l[2]>>] = "whole"
                   /\ \A p \in Resolved \cup {P} : PlatformOK(lock, p)
  <2> SUFFICES ASSUME ~spoiled
               PROVE  /\ \A l \in lock : resources[<<l[1], l[2]>>] = "whole"
                      /\ \A p \in Resolved \cup {P} : PlatformOK(lock, p)
    OBVIOUS
  <2>1. /\ \A l \in closure.locked : resources[<<l[1], l[2]>>] = "whole"
        /\ \A p \in Resolved : PlatformOK(closure.locked, p)
    BY <1>1, <1>4 DEF LockedOK, Resolution
  <2>2. PlatformOK(lock, P) BY <1>4, PlatformResolved
  <2>3. ASSUME NEW p \in Resolved PROVE PlatformOK(lock, p)
    <3>1. p \in Platforms /\ p # P BY <1>6
    <3>2. {l \in closure.locked : l[3] = p} = {l \in lock : l[3] = p} BY <1>8, <3>1
    <3> HIDE DEF lock
    <3>3. QED BY <1>9, <2>1, <3>1, <3>2, PlatformSame
  <2>4. QED BY <1>8, <2>1, <2>2, <2>3
<1>12. closure' = IF closure.left = {} THEN [closure EXCEPT !.locked = lock, !.pc = "files"]
                  ELSE closure'
  BY DEF NextPlatform, LockedNow
<1>13. closure.left = {} \/ \E p \in closure.left :
         closure' = [closure EXCEPT !.locked = lock, !.platform = p, !.pins = NoPins,
                                    !.left = @ \ {p}]
  BY DEF NextPlatform, LockedNow
<1>14. \A l \in lock : Usable(l[1], l[2]) /\ l[3] \in Resolved \cup {P} BY <1>8, <1>10
<1> HIDE DEF lock
<1>15. CASE closure.left = {}
  <2>1. closure' \in ClosureType /\ closure'.pc = "files" /\ closure'.locked = lock
    BY <1>4, <1>9, <1>12, <1>15 DEF ClosureType, Locks
  <2>2. Resolved' = Platforms /\ Resolved \cup {P} = Platforms
    BY <1>5, <1>6, <1>15, <2>1 DEF Resolved, Resolution
  <2>3. PyPITypeOK' BY <1>1, <1>2, <2>1 DEF PyPITypeOK
  <2>4. LockedOK' BY <1>2, <1>11, <1>14, <2>1, <2>2 DEF LockedOK, Usable
  <2>5. PinsOK' /\ ReachOK' /\ FileClosureOK' BY <2>1 DEF PinsOK, ReachOK, FileClosureOK, Resolution
  <2>6. QED BY <1>3, <2>3, <2>4, <2>5 DEF PyPIInv
<1>16. CASE closure.left # {}
  <2>1. PICK p \in closure.left :
          closure' = [closure EXCEPT !.locked = lock, !.platform = p, !.pins = NoPins,
                                     !.left = @ \ {p}]
    BY <1>13, <1>16
  <2>2. closure.left \subseteq Platforms BY <1>4 DEF ClosureType
  <2>3. /\ closure' \in ClosureType /\ closure'.pc = "resolve" /\ closure'.locked = lock
        /\ closure'.pins = NoPins /\ closure'.platform = p /\ closure'.left = closure.left \ {p}
    BY <1>4, <1>9, <2>1, <2>2 DEF ClosureType, Locks, NoPins
  <2>4. Pinned' = {} BY <2>3 DEF Pinned, NoPins
  <2>5. Resolved' = Resolved \cup {P} BY <1>5, <1>6, <2>2, <2>3 DEF Resolved, Resolution
  <2>6. PyPITypeOK' BY <1>1, <1>2, <2>3 DEF PyPITypeOK
  <2>7. LockedOK' BY <1>2, <1>11, <1>14, <2>3, <2>5 DEF LockedOK, Usable
  <2>8. PinsOK' BY <2>2, <2>3, <2>4 DEF PinsOK
  <2>9. ReachOK' /\ FileClosureOK' BY <2>3, <2>4 DEF ReachOK, FileClosureOK
  <2>10. QED BY <1>3, <2>6, <2>7, <2>8, <2>9 DEF PyPIInv
<1>17. QED BY <1>15, <1>16

LEMMA FileClosureStep == PyPIInv /\ FileClosure => PyPIInv'
<1> SUFFICES ASSUME PyPIInv, FileClosure PROVE PyPIInv' OBVIOUS
<1> DEFINE wanted == {f \in {<<l[1], l[2]>> : l \in closure.locked} : Works[f] \cap Platforms # {}}
<1>1. PyPITypeOK /\ CachesOK /\ ReqsOK /\ LockedOK BY DEF PyPIInv
<1>2. UNCHANGED <<links, candidate_cache, reqs>> BY DEF FileClosure
<1>3. CachesOK' BY <1>1, <1>2 DEF CachesOK
<1>4. closure \in ClosureType /\ closure.pc = "files" BY <1>1 DEF PyPITypeOK, FileClosure
<1>5. \A l \in closure.locked : /\ l \in Projects \X AllVersions \X Platforms
                                /\ <<l[1], l[2]>> \in Files /\ l[3] \in Platforms
  BY <1>4 DEF ClosureType, Files
<1>6. wanted \subseteq Files BY <1>5
<1>7. CASE /\ resources' = [f \in Files |-> IF f \in wanted /\ resources[f] = "none"
                                            THEN "whole" ELSE resources[f]]
           /\ closure' = [closure EXCEPT !.pc = "returned", !.files = wanted]
           /\ UNCHANGED spoiled
  <2>1. \A f \in Files : resources[f] = "whole" => resources'[f] = "whole" BY <1>7
  <2>2. ~spoiled => \A f \in wanted : resources[f] = "whole"
    BY <1>1, <1>4 DEF LockedOK
  <2>3. \A l \in closure.locked : l[3] \in Works[<<l[1], l[2]>>] => <<l[1], l[2]>> \in wanted
    BY <1>5
  <2>4. resources' \in [Files -> {"none", "bad", "whole"}] BY <1>1, <1>7 DEF PyPITypeOK
  <2> HIDE DEF wanted
  <2>5. /\ closure' \in ClosureType /\ closure'.pc = "returned" /\ closure'.files = wanted
        /\ closure'.locked = closure.locked
    BY <1>4, <1>6, <1>7 DEF ClosureType
  <2>6. Resolved' = Resolved BY <1>4, <2>5 DEF Resolved, Resolution
  <2>7. PyPITypeOK' BY <1>1, <1>2, <2>4, <2>5 DEF PyPITypeOK
  <2>8. ReqsOK'
    <3>1. \A k \in Identifiers \X AllVersions : <<k[1][1], k[2]>> \in Files
      BY DEF Identifiers, Files
    <3>2. QED BY <1>1, <1>2, <1>7, <2>1, <3>1 DEF ReqsOK
  <2>9. LockedOK' BY <1>1, <1>4, <1>5, <1>7, <2>1, <2>5, <2>6 DEF LockedOK
  <2>10. FileClosureOK' BY <1>6, <1>7, <2>1, <2>2, <2>3, <2>5 DEF FileClosureOK
  <2>11. PinsOK' /\ ReachOK' BY <2>5 DEF PinsOK, ReachOK, Resolution
  <2>12. QED BY <1>3, <2>7, <2>8, <2>9, <2>10, <2>11 DEF PyPIInv
<1>8. CASE closure' = Raise /\ spoiled' = TRUE /\ UNCHANGED resources
  <2>1. Raise \in ClosureType /\ Raise.pc = "raised" BY <1>4, RaiseType
  <2>2. PyPITypeOK' BY <1>1, <1>2, <1>8, <2>1 DEF PyPITypeOK
  <2>3. ReqsOK' BY <1>8 DEF ReqsOK
  <2>4. QED BY <1>3, <1>8, <2>1, <2>2, <2>3, CutStep
<1>9. QED BY <1>7, <1>8 DEF FileClosure

LEMMA PyPIInvStep == PyPIInv /\ [PyPINext]_pypiVars => PyPIInv'
<1> SUFFICES ASSUME PyPIInv, [PyPINext]_pypiVars PROVE PyPIInv' OBVIOUS
<1>1. CASE UNCHANGED pypiVars
  <2>1. PyPITypeOK' /\ CachesOK' BY <1>1 DEF pypiVars, PyPIInv, PyPITypeOK, CachesOK
  <2>2. UNCHANGED <<closure, reqs, resources, spoiled>> BY <1>1 DEF pypiVars
  <2>3. QED BY <2>1, <2>2, ClosureSame
<1>2. CASE PyPINext
  BY <1>2, StartClosureStep, FetchCandidatesStep, PinStep, ReadRequirementsStep, BacktrackStep,
     NextPlatformStep, FileClosureStep, NewClosureStep, ClosureKilledStep DEF PyPINext
<1>3. QED BY <1>1, <1>2

LEMMA PyPIInvImplies == PyPIInv => LockRight
<1> SUFFICES ASSUME PyPIInv, closure.pc = "returned" PROVE LockRight BY DEF LockRight
<1>1. LockedOK /\ FileClosureOK BY DEF PyPIInv
<1>2. \A l \in closure.locked : Usable(l[1], l[2]) /\ l[3] \in Platforms
  BY <1>1 DEF LockedOK, Resolved, Resolution
<1>3. ~spoiled => \A p \in Platforms : PlatformOK(closure.locked, p)
  BY <1>1 DEF LockedOK, Resolved, Resolution
<1>4. ~spoiled => LockIsComplete BY <1>3 DEF LockIsComplete, PlatformOK
<1>5. ~spoiled => \A l \in closure.locked : <<l[1], "">> \in Needed(closure.locked, l[3])
  BY <1>2, <1>3 DEF PlatformOK
<1>6. QED BY <1>1, <1>2, <1>4, <1>5 DEF LockRight, FileClosureOK, Usable

\* What a requirements closure that is not spoiled locks for a platform is all
\* that is needed there and nothing else, one version of each, an allowed one
\* and the local wheel if there is one, for every registry, every order in which
\* the resolver pins, and whatever calls that failed or were killed have left in
\* the caches and the files (PyPIClosure.requirements_closure and file_closure).
THEOREM LockRightHolds == PyPISpec => []LockRight
<1>1. PyPISpec => []PyPIInv
  <2>1. QED BY PyPIInitInv, PyPIInvStep, PTL DEF PyPISpec
<1>2. QED BY <1>1, PyPIInvImplies, PTL

----------------------------------------------------------------------------
(* Electrolyt.                                                             *)

\* There is one source to install, as there is one directory of installed
\* sources.
OneSource ==
  \A i, j \in Actions :
    ActionKind[i] = "installsource" /\ ActionKind[j] = "installsource" => i = j

\* k is a checkout that the source prepared by c is made of.
HasCheckout(c) == \E k \in Above[c] : ActionKind[k] = "checkout"
MadeOfCheckout(i) ==
  \E c \in Above[i] : ActionKind[c] = "createsource" /\ HasCheckout(c)

\* AnodContext.add_spec: what is checked out is made a source, and a primitive
\* that comes after has it installed.
CheckoutsAreInstalled ==
  \A u \in Actions :
    ActionKind[u] = "primitive" /\ HasCheckout(u) =>
      \E i \in Above[u] : ActionKind[i] = "installsource" /\ MadeOfCheckout(i)

JobSteps == {"run", "clean", "mkdir", "primitive", "end"}

ElectrolytTypeOK ==
  /\ Collected \subseteq Actions
  /\ \/ working = <<>>
     \/ \E u \in Actions, step \in JobSteps, st \in {"unknown", "success", "failure"} :
          working = <<[uid |-> u, step |-> step, status |-> st]>>
  /\ disk \in [vcs : Revisions \cup {NoRevision},
               cache : SUBSET (Revisions \cup {NoRevision}),
               src : SUBSET (Revisions \cup {NoRevision})]
  /\ space \in [dirs : SUBSET SpaceDirs, marker : BOOLEAN, tmp : BOOLEAN]
  /\ upstream \in Revisions
  /\ running \in BOOLEAN

\* What is known of the job that is executed.
WorkingInv ==
  working # <<>> =>
    /\ running /\ Job.uid \notin Collected
    /\ Job.step # "end" \/ Job.status = "success" =>
         ~DryRun /\ \A p \in ActionsBefore[Job.uid] : Succeeded(p)
    /\ Job.step \in {"clean", "mkdir", "primitive"} => ActionKind[Job.uid] = "primitive"
    /\ Job.step \in {"mkdir", "primitive"} => ~space.tmp
    /\ Job.step = "primitive" => SpaceExists

StatusInv ==
  \A a \in Actions : Succeeded(a) => \A p \in ActionsBefore[a] : Succeeded(p)

\* a has succeeded, and may not be collected yet.
HasSucceeded(a) ==
  \/ Succeeded(a)
  \/ working # <<>> /\ Job.uid = a /\ Job.step = "end" /\ Job.status = "success"

\* The revision is where the actions that succeeded have brought it.
SourceInv ==
  \A a \in Actions : HasSucceeded(a) =>
    /\ ActionKind[a] = "checkout" => disk.vcs = upstream
    /\ ActionKind[a] = "createsource" /\ HasCheckout(a) => upstream \in disk.cache
    /\ ActionKind[a] = "installsource" /\ MadeOfCheckout(a) => upstream \in disk.src

ElectrolytInv == ElectrolytTypeOK /\ WorkingInv /\ StatusInv /\ SourceInv

\* A set with the predecessors of its members that has those of a has all that
\* is above a.
LEMMA AboveLeastOf ==
  ASSUME NEW a \in Actions, NEW S \in SUBSET Actions,
         \A s \in S : ActionsBefore[s] \subseteq S, ActionsBefore[a] \subseteq S
  PROVE  Above[a] \subseteq S
BY DEF Above

\* When the predecessors of a have succeeded, all that is above a has.
LEMMA AboveSucceeded ==
  ASSUME NEW a \in Actions, StatusInv, \A p \in ActionsBefore[a] : Succeeded(p)
  PROVE  /\ Above[a] \subseteq Actions
         /\ \A p \in Above[a] : Succeeded(p)
<1> DEFINE S == {p \in Actions : Succeeded(p)}
<1>1. ActionsBefore \in [Actions -> SUBSET Actions] BY SandboxAssumption
<1>2. ActionsBefore[a] \subseteq S BY <1>1
<1>3. \A s \in S : ActionsBefore[s] \subseteq S BY <1>1 DEF StatusInv
<1>4. S \in SUBSET Actions OBVIOUS
<1>5. Above[a] \subseteq S
  <2> HIDE DEF S
  <2>1. QED BY <1>2, <1>3, <1>4, AboveLeastOf
<1>6. QED BY <1>5

\* ExecutedOnItsInputs follows from the invariant.
LEMMA ElectrolytInvImplies ==
  ASSUME ElectrolytInv, CheckoutsAreInstalled
  PROVE  ExecutedOnItsInputs
<1>1. \A a \in Actions : Succeeded(a) => \A p \in Above[a] : Succeeded(p)
  <2>1. SUFFICES ASSUME NEW a \in Actions, Succeeded(a) PROVE \A p \in Above[a] : Succeeded(p)
    OBVIOUS
  <2>2. \A p \in ActionsBefore[a] : Succeeded(p) BY <2>1 DEF ElectrolytInv, StatusInv
  <2>3. QED BY <2>2, AboveSucceeded DEF ElectrolytInv
<1>2. ASSUME working # <<>>, Job.step # "end"
      PROVE  ~DryRun /\ \A p \in Above[Job.uid] : Succeeded(p)
  <2>1. Job.uid \in Actions BY <1>2 DEF ElectrolytInv, ElectrolytTypeOK, Job
  <2>2. ~DryRun /\ \A p \in ActionsBefore[Job.uid] : Succeeded(p)
    BY <1>2 DEF ElectrolytInv, WorkingInv
  <2>3. QED BY <2>1, <2>2, AboveSucceeded DEF ElectrolytInv
<1>3. JobAt("primitive", {"primitive"}) => SpaceExists /\ ~space.tmp
  BY DEF JobAt, ElectrolytInv, WorkingInv
<1>4. ASSUME NEW a \in Actions, ActionKind[a] = "primitive", Succeeded(a), HasCheckout(a)
      PROVE  upstream \in disk.src
  <2>1. PICK i \in Above[a] : ActionKind[i] = "installsource" /\ MadeOfCheckout(i)
    BY <1>4 DEF CheckoutsAreInstalled
  <2>2. i \in Actions BY <2>1 DEF Above
  <2>3. Succeeded(i) BY <1>1, <1>4, <2>1
  <2>4. QED BY <2>1, <2>2, <2>3 DEF ElectrolytInv, SourceInv, HasSucceeded
<1>5. QED BY <1>1, <1>2, <1>3, <1>4 DEF ExecutedOnItsInputs, HasCheckout

LEMMA ElectrolytInitHolds == ASSUME ElectrolytInit PROVE ElectrolytInv
<1>1. Collected = {} /\ working = <<>> BY DEF ElectrolytInit, Collected
<1>2. ElectrolytTypeOK BY <1>1 DEF ElectrolytInit, ElectrolytTypeOK
<1>3. WorkingInv BY <1>1 DEF WorkingInv
<1>4. StatusInv BY <1>1 DEF StatusInv, Succeeded
<1>5. SourceInv BY <1>1 DEF SourceInv, HasSucceeded, Succeeded
<1>6. QED BY <1>2, <1>3, <1>4, <1>5 DEF ElectrolytInv

\* What is known of a job when there is one.
LEMMA WorkingJob ==
  ASSUME ElectrolytTypeOK, working # <<>>
  PROVE  /\ Job \in [uid : Actions, step : JobSteps, status : {"unknown", "success", "failure"}]
         /\ working = <<Job>>
BY DEF ElectrolytTypeOK, Job

\* No job is executed between two runs, so a run starts with none.
LEMMA StartRunKeeps == ASSUME ElectrolytInv, StartRun PROVE ElectrolytInv'
<1>1. Collected' = {} /\ working' = <<>> /\ working = <<>>
  BY DEF StartRun, Collected, ElectrolytInv, WorkingInv
<1>2. ElectrolytTypeOK' BY <1>1 DEF StartRun, ElectrolytInv, ElectrolytTypeOK
<1>3. WorkingInv' BY <1>1 DEF WorkingInv
<1>4. StatusInv' BY <1>1 DEF StatusInv, Succeeded
<1>5. SourceInv' BY <1>1 DEF SourceInv, HasSucceeded, Succeeded
<1>6. QED BY <1>2, <1>3, <1>4, <1>5 DEF ElectrolytInv

LEMMA RunKilledKeeps == ASSUME ElectrolytInv, RunKilled PROVE ElectrolytInv'
<1>1. Collected' = {} /\ working' = <<>> BY DEF RunKilled, Collected
<1>2. ElectrolytTypeOK'
  <2>1. disk' \in [vcs : Revisions \cup {NoRevision},
                   cache : SUBSET (Revisions \cup {NoRevision}),
                   src : SUBSET (Revisions \cup {NoRevision})]
    BY DEF RunKilled, Partly, ElectrolytInv, ElectrolytTypeOK
  <2>2. QED BY <1>1, <2>1 DEF RunKilled, ElectrolytInv, ElectrolytTypeOK
<1>3. WorkingInv' BY <1>1 DEF WorkingInv
<1>4. StatusInv' BY <1>1 DEF StatusInv, Succeeded
<1>5. SourceInv' BY <1>1 DEF SourceInv, HasSucceeded, Succeeded
<1>6. QED BY <1>2, <1>3, <1>4, <1>5 DEF ElectrolytInv

\* The end of a run, and the reset of the build space: nothing is executed.
LEMMA IdleKeeps == ASSUME ElectrolytInv, EndRun \/ ResetSpace PROVE ElectrolytInv'
<1>1. UNCHANGED <<job_statuses, working, upstream, disk>> /\ Collected' = Collected
  BY DEF EndRun, ResetSpace, Collected
<1>2. working = <<>>
  <2>1. SUFFICES ASSUME working # <<>> PROVE FALSE OBVIOUS
  <2>2. Job.uid \in Actions BY <2>1, WorkingJob DEF ElectrolytInv
  <2>3. running /\ Job.uid \notin Collected BY <2>1 DEF ElectrolytInv, WorkingInv
  <2>4. QED BY <2>2, <2>3 DEF EndRun, ResetSpace
<1>3. ElectrolytTypeOK'
  <2>1. CASE EndRun BY <1>1, <2>1 DEF EndRun, ElectrolytInv, ElectrolytTypeOK
  <2>2. CASE ResetSpace
    <3>1. space' \in [dirs : SUBSET SpaceDirs, marker : BOOLEAN, tmp : BOOLEAN]
      BY <2>2 DEF ResetSpace, ElectrolytInv, ElectrolytTypeOK
    <3>2. QED BY <1>1, <2>2, <3>1 DEF ResetSpace, ElectrolytInv, ElectrolytTypeOK
  <2>3. QED BY <2>1, <2>2
<1>4. \A a : Succeeded(a)' <=> Succeeded(a) BY <1>1 DEF Succeeded
<1>5. WorkingInv' BY <1>1, <1>2 DEF WorkingInv
<1>6. StatusInv' BY <1>4 DEF ElectrolytInv, StatusInv
<1>7. \A a : HasSucceeded(a)' <=> HasSucceeded(a) BY <1>1, <1>4 DEF HasSucceeded, Job
<1>8. SourceInv' BY <1>1, <1>7 DEF ElectrolytInv, SourceInv
<1>9. QED BY <1>3, <1>5, <1>6, <1>8 DEF ElectrolytInv

LEMMA GetElectrolytJobKeeps ==
  ASSUME ElectrolytInv, NEW a \in Actions, GetElectrolytJob(a)
  PROVE  ElectrolytInv'
<1>1. UNCHANGED <<job_statuses, upstream, disk, space, running>> /\ Collected' = Collected
  BY DEF GetElectrolytJob, Collected
<1> DEFINE step == IF ForceFail(a) \/ DryRun THEN "end" ELSE "run"
           st == IF ForceFail(a) THEN "failure" ELSE "unknown"
<1>2. working' = <<[uid |-> a, step |-> step, status |-> st]>> /\ working = <<>>
  BY DEF GetElectrolytJob
<1>3. working' # <<>> /\ Job' = [uid |-> a, step |-> step, status |-> st] BY <1>2 DEF Job
<1>4. Job'.uid = a /\ Job'.step = step /\ Job'.status = st BY <1>3
<1>5. ElectrolytTypeOK' BY <1>1, <1>2 DEF ElectrolytInv, ElectrolytTypeOK, JobSteps
<1>6. \A u : Succeeded(u)' <=> Succeeded(u) BY <1>1 DEF Succeeded
<1>7. WorkingInv'
  <2>1. running' /\ a \notin Collected' BY <1>1 DEF GetElectrolytJob
  <2>2. Job'.step \in {"run", "end"} /\ Job'.status # "success" BY <1>4
  <2>3. ASSUME Job'.step # "end" PROVE ~DryRun /\ \A p \in ActionsBefore[a] : Succeeded(p)
    <3>1. ~ForceFail(a) /\ ~DryRun BY <1>4, <2>3
    <3>2. ActionsBefore[a] \subseteq Collected BY DEF GetElectrolytJob
    <3>3. QED BY <3>1, <3>2 DEF ForceFail, Succeeded
  <2>4. QED BY <1>4, <1>6, <2>1, <2>2, <2>3 DEF WorkingInv
<1>8. StatusInv' BY <1>6 DEF ElectrolytInv, StatusInv
<1>9. \A u : HasSucceeded(u)' <=> HasSucceeded(u) BY <1>2, <1>4, <1>6 DEF HasSucceeded
<1>10. SourceInv' BY <1>1, <1>9 DEF ElectrolytInv, SourceInv
<1>11. QED BY <1>5, <1>7, <1>8, <1>10 DEF ElectrolytInv

LEMMA CollectJobKeeps == ASSUME ElectrolytInv, CollectJob PROVE ElectrolytInv'
<1>1. working # <<>> /\ Job.step = "end" /\ working' = <<>>
      /\ UNCHANGED <<upstream, disk, space, running>>
  BY DEF CollectJob
<1>2. Collected' = Collected \cup {Job.uid} BY DEF CollectJob, Collected
<1>3. \A u : Succeeded(u)' <=> HasSucceeded(u)
  <2>1. Job.uid \notin Collected BY <1>1 DEF ElectrolytInv, WorkingInv
  <2>2. \A u \in Collected' : job_statuses'[u] = IF u = Job.uid THEN Job.status ELSE job_statuses[u]
    BY <1>2 DEF CollectJob
  <2>3. QED BY <1>1, <1>2, <2>1, <2>2 DEF Succeeded, HasSucceeded
<1>4. ElectrolytTypeOK'
  <2>1. Job.uid \in Actions BY <1>1, WorkingJob DEF ElectrolytInv
  <2>2. QED BY <1>1, <1>2, <2>1 DEF ElectrolytInv, ElectrolytTypeOK
<1>5. WorkingInv' BY <1>1 DEF WorkingInv
<1>6. StatusInv'
  <2>1. ASSUME NEW u \in Actions, HasSucceeded(u), NEW p \in ActionsBefore[u] PROVE Succeeded(p)
    <3>1. CASE Succeeded(u) BY <2>1, <3>1 DEF ElectrolytInv, StatusInv
    <3>2. CASE ~Succeeded(u) BY <2>1, <3>2 DEF HasSucceeded, ElectrolytInv, WorkingInv
    <3>3. QED BY <3>1, <3>2
  <2>2. QED BY <1>3, <2>1 DEF StatusInv, HasSucceeded
<1>7. \A u : HasSucceeded(u)' <=> HasSucceeded(u)
  <2>1. \A u : HasSucceeded(u)' <=> Succeeded(u)' BY <1>1 DEF HasSucceeded
  <2>2. QED BY <1>3, <2>1
<1>8. SourceInv' BY <1>1, <1>7 DEF ElectrolytInv, SourceInv
<1>9. QED BY <1>4, <1>5, <1>6, <1>8 DEF ElectrolytInv

\* A step of the job that is executed, to j: what is left to show.
LEMMA JobMoves ==
  ASSUME ElectrolytInv, working # <<>>, Job.step # "end", RestOfRun,
         NEW j \in [uid : {Job.uid}, step : JobSteps, status : {"unknown", "success", "failure"}],
         working' = <<j>>,
         disk' \in [vcs : Revisions \cup {NoRevision},
                    cache : SUBSET (Revisions \cup {NoRevision}),
                    src : SUBSET (Revisions \cup {NoRevision})],
         space' \in [dirs : SUBSET SpaceDirs, marker : BOOLEAN, tmp : BOOLEAN],
         j.step \in {"clean", "mkdir", "primitive"} => ActionKind[j.uid] = "primitive",
         j.step \in {"mkdir", "primitive"} => ~space'.tmp,
         j.step = "primitive" => SpaceExists',
         \A a \in Actions :
           HasSucceeded(a) \/ (a = j.uid /\ j.step = "end" /\ j.status = "success") =>
             /\ ActionKind[a] = "checkout" => disk'.vcs = upstream
             /\ ActionKind[a] = "createsource" /\ HasCheckout(a) => upstream \in disk'.cache
             /\ ActionKind[a] = "installsource" /\ MadeOfCheckout(a) => upstream \in disk'.src
  PROVE  ElectrolytInv'
<1>1. working' # <<>> /\ Job' = j BY DEF Job
<1>2. UNCHANGED <<job_statuses, upstream, running>> /\ Collected' = Collected
  BY DEF RestOfRun, Collected
<1>3. j.uid = Job.uid /\ Job.uid \in Actions BY WorkingJob DEF ElectrolytInv
<1>4. ElectrolytTypeOK'
  <2>1. j = [uid |-> j.uid, step |-> j.step, status |-> j.status]
        /\ j.uid \in Actions /\ j.step \in JobSteps /\ j.status \in {"unknown", "success", "failure"}
    BY <1>3
  <2>2. \E u \in Actions, step \in JobSteps, st \in {"unknown", "success", "failure"} :
          working' = <<[uid |-> u, step |-> step, status |-> st]>>
    BY <2>1
  <2>3. QED BY <1>2, <2>2 DEF ElectrolytInv, ElectrolytTypeOK
<1>5. \A u : Succeeded(u)' <=> Succeeded(u) BY <1>2 DEF Succeeded
<1>6. WorkingInv'
  <2>1. running /\ Job.uid \notin Collected BY DEF ElectrolytInv, WorkingInv
  <2>2. ~DryRun /\ \A p \in ActionsBefore[j.uid] : Succeeded(p)
    BY <1>3 DEF ElectrolytInv, WorkingInv
  <2>3. QED BY <1>1, <1>2, <1>3, <1>5, <2>1, <2>2 DEF WorkingInv
<1>7. StatusInv' BY <1>5 DEF ElectrolytInv, StatusInv
<1>8. ASSUME NEW u, HasSucceeded(u)'
      PROVE  HasSucceeded(u) \/ (u = j.uid /\ j.step = "end" /\ j.status = "success")
  BY <1>1, <1>5, <1>8 DEF HasSucceeded
<1>9. SourceInv' BY <1>2, <1>8 DEF SourceInv
<1>10. QED BY <1>4, <1>6, <1>7, <1>9 DEF ElectrolytInv

\* The job at its end, with a status; and at another step.
LEMMA JobComesToEnd ==
  ASSUME ElectrolytInv, working # <<>>, Job.step # "end", RestOfRun,
         NEW st \in {"unknown", "success", "failure"}, EndsWith(st),
         disk' \in [vcs : Revisions \cup {NoRevision},
                    cache : SUBSET (Revisions \cup {NoRevision}),
                    src : SUBSET (Revisions \cup {NoRevision})],
         space' \in [dirs : SUBSET SpaceDirs, marker : BOOLEAN, tmp : BOOLEAN],
         \A a \in Actions :
           HasSucceeded(a) \/ (a = Job.uid /\ st = "success") =>
             /\ ActionKind[a] = "checkout" => disk'.vcs = upstream
             /\ ActionKind[a] = "createsource" /\ HasCheckout(a) => upstream \in disk'.cache
             /\ ActionKind[a] = "installsource" /\ MadeOfCheckout(a) => upstream \in disk'.src
  PROVE  ElectrolytInv'
<1> DEFINE j == [Job EXCEPT !.step = "end", !.status = st]
<1>1. Job \in [uid : Actions, step : JobSteps, status : {"unknown", "success", "failure"}]
  BY WorkingJob DEF ElectrolytInv
<1>2. j \in [uid : {Job.uid}, step : JobSteps, status : {"unknown", "success", "failure"}]
      /\ j.uid = Job.uid /\ j.step = "end" /\ j.status = st
  BY <1>1 DEF JobSteps
<1>3. working' = <<j>> BY DEF EndsWith
<1> HIDE DEF j
<1>4. QED BY <1>2, <1>3, JobMoves

LEMMA JobContinues ==
  ASSUME ElectrolytInv, working # <<>>, Job.step # "end", RestOfRun, UNCHANGED disk,
         ActionKind[Job.uid] = "primitive",
         NEW step \in {"clean", "mkdir", "primitive"}, StepBecomes(step),
         space' \in [dirs : SUBSET SpaceDirs, marker : BOOLEAN, tmp : BOOLEAN],
         step \in {"mkdir", "primitive"} => ~space'.tmp,
         step = "primitive" => SpaceExists'
  PROVE  ElectrolytInv'
<1> DEFINE j == [Job EXCEPT !.step = step]
<1>1. Job \in [uid : Actions, step : JobSteps, status : {"unknown", "success", "failure"}]
  BY WorkingJob DEF ElectrolytInv
<1>2. j \in [uid : {Job.uid}, step : JobSteps, status : {"unknown", "success", "failure"}]
      /\ j.uid = Job.uid /\ j.step = step /\ j.step # "end"
  BY <1>1 DEF JobSteps
<1>3. working' = <<j>> BY DEF StepBecomes
<1> HIDE DEF j
<1>4. disk' \in [vcs : Revisions \cup {NoRevision},
                    cache : SUBSET (Revisions \cup {NoRevision}),
                    src : SUBSET (Revisions \cup {NoRevision})]
  BY DEF ElectrolytInv, ElectrolytTypeOK
<1>5. \A a \in Actions :
        HasSucceeded(a) \/ (a = j.uid /\ j.step = "end" /\ j.status = "success") =>
             /\ ActionKind[a] = "checkout" => disk'.vcs = upstream
             /\ ActionKind[a] = "createsource" /\ HasCheckout(a) => upstream \in disk'.cache
             /\ ActionKind[a] = "installsource" /\ MadeOfCheckout(a) => upstream \in disk'.src
  BY <1>2 DEF ElectrolytInv, SourceInv
<1>6. QED BY <1>2, <1>3, <1>4, <1>5, JobMoves

\* What a job that is at its work knows: its inputs are there.
LEMMA InputsSucceeded ==
  ASSUME ElectrolytInv, working # <<>>, Job.step # "end"
  PROVE  /\ Job.uid \in Actions
         /\ \A p \in Above[Job.uid] : p \in Actions /\ Succeeded(p)
         /\ ~HasSucceeded(Job.uid)
<1>1. Job.uid \in Actions BY WorkingJob DEF ElectrolytInv
<1>2. \A p \in ActionsBefore[Job.uid] : Succeeded(p) BY DEF ElectrolytInv, WorkingInv
<1>3. Job.uid \notin Collected BY DEF ElectrolytInv, WorkingInv
<1>4. QED BY <1>1, <1>2, <1>3, AboveSucceeded DEF ElectrolytInv, HasSucceeded, Succeeded

LEMMA DoNothingKeeps ==
  ASSUME ElectrolytInv, DoNothing \/ DoOtherCheckout
  PROVE  ElectrolytInv'
<1>1. /\ working # <<>> /\ Job.step # "end" /\ RestOfRun /\ UNCHANGED <<disk, space>>
      /\ ActionKind[Job.uid] \notin {"checkout", "createsource", "installsource"}
  BY DEF DoNothing, DoOtherCheckout, JobAt
<1>2. PICK st \in {"unknown", "success", "failure"} : EndsWith(st)
  BY DEF DoNothing, DoOtherCheckout
<1>3. \A a \in Actions :
        HasSucceeded(a) \/ (a = Job.uid /\ st = "success") =>
             /\ ActionKind[a] = "checkout" => disk'.vcs = upstream
             /\ ActionKind[a] = "createsource" /\ HasCheckout(a) => upstream \in disk'.cache
             /\ ActionKind[a] = "installsource" /\ MadeOfCheckout(a) => upstream \in disk'.src
  BY <1>1 DEF ElectrolytInv, SourceInv
<1>4. QED BY <1>1, <1>2, <1>3, JobComesToEnd DEF ElectrolytInv, ElectrolytTypeOK

LEMMA DoCheckoutKeeps == ASSUME ElectrolytInv, DoCheckout PROVE ElectrolytInv'
<1>1. /\ working # <<>> /\ Job.step # "end" /\ RestOfRun /\ UNCHANGED space
      /\ ActionKind[Job.uid] = "checkout" /\ EndsWith("success")
      /\ disk' = [disk EXCEPT !.vcs = upstream]
  BY DEF DoCheckout, JobAt
<1>2. /\ disk' \in [vcs : Revisions \cup {NoRevision},
                    cache : SUBSET (Revisions \cup {NoRevision}),
                    src : SUBSET (Revisions \cup {NoRevision})]
      /\ disk'.vcs = upstream /\ disk'.cache = disk.cache /\ disk'.src = disk.src
  BY <1>1 DEF ElectrolytInv, ElectrolytTypeOK
<1>3. \A a \in Actions :
        HasSucceeded(a) \/ (a = Job.uid /\ "success" = "success") =>
             /\ ActionKind[a] = "checkout" => disk'.vcs = upstream
             /\ ActionKind[a] = "createsource" /\ HasCheckout(a) => upstream \in disk'.cache
             /\ ActionKind[a] = "installsource" /\ MadeOfCheckout(a) => upstream \in disk'.src
  BY <1>1, <1>2 DEF ElectrolytInv, SourceInv
<1>4. QED BY <1>1, <1>2, <1>3, JobComesToEnd DEF ElectrolytInv, ElectrolytTypeOK

\* The checkouts below have succeeded: it is the revision upstream that is
\* prepared.
LEMMA DoCreateSourceKeeps == ASSUME ElectrolytInv, DoCreateSource PROVE ElectrolytInv'
<1>1. /\ working # <<>> /\ Job.step # "end" /\ RestOfRun /\ UNCHANGED space
      /\ ActionKind[Job.uid] = "createsource"
  BY DEF DoCreateSource, JobAt
<1>2. PICK st \in {"unknown", "success", "failure"} :
        EndsWith(st) /\ (st = "success" => disk' = [disk EXCEPT !.cache = @ \cup {disk.vcs}])
                     /\ (st # "success" => disk' = disk)
  BY DEF DoCreateSource
<1>3. /\ disk' \in [vcs : Revisions \cup {NoRevision},
                    cache : SUBSET (Revisions \cup {NoRevision}),
                    src : SUBSET (Revisions \cup {NoRevision})]
      /\ disk'.vcs = disk.vcs /\ disk.cache \subseteq disk'.cache /\ disk'.src = disk.src
      /\ (st = "success" => disk.vcs \in disk'.cache)
  BY <1>2 DEF ElectrolytInv, ElectrolytTypeOK
<1>4. ASSUME HasCheckout(Job.uid) PROVE disk.vcs = upstream
  BY <1>1, <1>4, InputsSucceeded DEF HasCheckout, ElectrolytInv, SourceInv, HasSucceeded
<1>5. \A a \in Actions :
        HasSucceeded(a) \/ (a = Job.uid /\ st = "success") =>
             /\ ActionKind[a] = "checkout" => disk'.vcs = upstream
             /\ ActionKind[a] = "createsource" /\ HasCheckout(a) => upstream \in disk'.cache
             /\ ActionKind[a] = "installsource" /\ MadeOfCheckout(a) => upstream \in disk'.src
  BY <1>1, <1>3, <1>4 DEF ElectrolytInv, SourceInv
<1>6. QED BY <1>1, <1>2, <1>3, <1>5, JobComesToEnd DEF ElectrolytInv, ElectrolytTypeOK

\* The source that is installed is in the cache by now.
LEMMA DoInstallSourceKeeps == ASSUME ElectrolytInv, OneSource, DoInstallSource PROVE ElectrolytInv'
<1>1. /\ working # <<>> /\ Job.step # "end" /\ RestOfRun /\ UNCHANGED space
      /\ ActionKind[Job.uid] = "installsource"
  BY DEF DoInstallSource, JobAt
<1>2. PICK st \in {"unknown", "success", "failure"} :
        EndsWith(st) /\ (st = "success" => disk' = [disk EXCEPT !.src = disk.cache])
                     /\ (st # "success" => disk' = disk)
  BY DEF DoInstallSource
<1>3. /\ disk' \in [vcs : Revisions \cup {NoRevision},
                    cache : SUBSET (Revisions \cup {NoRevision}),
                    src : SUBSET (Revisions \cup {NoRevision})]
      /\ disk'.vcs = disk.vcs /\ disk.cache = disk'.cache
      /\ (st = "success" => disk'.src = disk.cache)
  BY <1>2 DEF ElectrolytInv, ElectrolytTypeOK
<1>4. ASSUME MadeOfCheckout(Job.uid) PROVE upstream \in disk.cache
  BY <1>1, <1>4, InputsSucceeded DEF MadeOfCheckout, ElectrolytInv, SourceInv, HasSucceeded
<1>5. ASSUME NEW a \in Actions, HasSucceeded(a) PROVE ActionKind[a] # "installsource"
  BY <1>1, <1>5, InputsSucceeded DEF OneSource
<1>6. \A a \in Actions :
        HasSucceeded(a) \/ (a = Job.uid /\ st = "success") =>
             /\ ActionKind[a] = "checkout" => disk'.vcs = upstream
             /\ ActionKind[a] = "createsource" /\ HasCheckout(a) => upstream \in disk'.cache
             /\ ActionKind[a] = "installsource" /\ MadeOfCheckout(a) => upstream \in disk'.src
  BY <1>1, <1>3, <1>4, <1>5 DEF ElectrolytInv, SourceInv
<1>7. QED BY <1>1, <1>2, <1>3, <1>6, JobComesToEnd DEF ElectrolytInv, ElectrolytTypeOK

\* What is left half-way by a job that raises is not of an action that has
\* succeeded, or is the revision that it would be in the end.
LEMMA MethodRaisesKeeps == ASSUME ElectrolytInv, OneSource, MethodRaises PROVE ElectrolytInv'
<1>1. /\ working # <<>> /\ Job.step # "end" /\ RestOfRun /\ UNCHANGED space
      /\ EndsWith("failure") /\ disk' \in Partly(ActionKind[Job.uid])
  BY DEF MethodRaises
<1>2. disk \in [vcs : Revisions \cup {NoRevision},
                 cache : SUBSET (Revisions \cup {NoRevision}),
                 src : SUBSET (Revisions \cup {NoRevision})]
      /\ upstream \in Revisions
  BY DEF ElectrolytInv, ElectrolytTypeOK
<1>3. disk' \in [vcs : Revisions \cup {NoRevision},
                    cache : SUBSET (Revisions \cup {NoRevision}),
                    src : SUBSET (Revisions \cup {NoRevision})]
  BY <1>1, <1>2 DEF Partly
<1>4. /\ disk'.vcs \in {disk.vcs, upstream} /\ disk.cache \subseteq disk'.cache
      /\ (ActionKind[Job.uid] # "installsource" => disk'.src = disk.src)
  BY <1>1, <1>2 DEF Partly
<1>5. ASSUME NEW a \in Actions, HasSucceeded(a), ActionKind[Job.uid] = "installsource"
      PROVE  ActionKind[a] # "installsource"
  BY <1>1, <1>5, InputsSucceeded DEF OneSource
<1>6. \A a \in Actions :
        HasSucceeded(a) \/ (a = Job.uid /\ "failure" = "success") =>
             /\ ActionKind[a] = "checkout" => disk'.vcs = upstream
             /\ ActionKind[a] = "createsource" /\ HasCheckout(a) => upstream \in disk'.cache
             /\ ActionKind[a] = "installsource" /\ MadeOfCheckout(a) => upstream \in disk'.src
  BY <1>4, <1>5 DEF ElectrolytInv, SourceInv
<1>7. QED BY <1>1, <1>3, <1>6, JobComesToEnd DEF ElectrolytInv, ElectrolytTypeOK

\* The steps of a primitive: tmp is empty from its cleaning to the call.
LEMMA PrimitiveKeeps ==
  ASSUME ElectrolytInv, Activate \/ CleanTmp \/ MakeDir \/ Primitive
  PROVE  ElectrolytInv'
<1>1. /\ working # <<>> /\ Job.step # "end" /\ RestOfRun /\ UNCHANGED disk
      /\ ActionKind[Job.uid] = "primitive"
  BY DEF Activate, CleanTmp, MakeDir, Primitive, JobAt
<1>2. space \in [dirs : SUBSET SpaceDirs, marker : BOOLEAN, tmp : BOOLEAN]
  BY DEF ElectrolytInv, ElectrolytTypeOK
<1>3. space' \in [dirs : SUBSET SpaceDirs, marker : BOOLEAN, tmp : BOOLEAN]
  <2>1. CASE UNCHANGED space BY <1>2, <2>1
  <2>2. CASE CleanTmp BY <1>2, <2>2 DEF CleanTmp
  <2>3. CASE MakeDir /\ SpaceDirs \subseteq space.dirs
    <3>1. space' = [space EXCEPT !.marker = TRUE] BY <2>3 DEF MakeDir
    <3>2. QED BY <1>2, <3>1
  <2>4. CASE MakeDir /\ ~(SpaceDirs \subseteq space.dirs)
    <3>1. PICK d \in SpaceDirs : space' = [space EXCEPT !.dirs = @ \cup {d}]
      BY <2>4 DEF MakeDir
    <3>2. QED BY <1>2, <3>1
  <2>5. CASE Primitive
    <3>1. space' = [space EXCEPT !.tmp = TRUE] BY <2>5 DEF Primitive
    <3>2. QED BY <1>2, <3>1
  <2>6. QED BY <2>1, <2>2, <2>3, <2>4, <2>5 DEF Activate
<1>4. CASE Activate BY <1>1, <1>3, <1>4, JobContinues DEF Activate
<1>5. CASE CleanTmp
  <2>1. ~space'.tmp BY <1>2, <1>5 DEF CleanTmp
  <2>2. QED BY <1>1, <1>3, <1>5, <2>1, JobContinues DEF CleanTmp
<1>6. CASE MakeDir
  <2>1. Job.step = "mkdir" /\ ~space.tmp BY <1>6 DEF MakeDir, JobAt, ElectrolytInv, WorkingInv
  <2>2. ~space'.tmp BY <1>2, <1>6, <2>1 DEF MakeDir
  <2>3. CASE SpaceDirs \subseteq space.dirs
    <3>1. space' = [space EXCEPT !.marker = TRUE] /\ StepBecomes("primitive")
      BY <1>6, <2>3 DEF MakeDir
    <3>2. SpaceExists' BY <1>2, <2>3, <3>1 DEF SpaceExists
    <3>3. QED BY <1>1, <1>3, <2>2, <3>1, <3>2, JobContinues
  <2>4. CASE ~(SpaceDirs \subseteq space.dirs)
    <3>1. UNCHANGED working BY <1>6, <2>4 DEF MakeDir
    <3>2. Job = [Job EXCEPT !.step = "mkdir"]
      BY <1>1, <2>1, WorkingJob DEF ElectrolytInv
    <3>3. working = <<Job>> BY <1>1, WorkingJob DEF ElectrolytInv
    <3>4. StepBecomes("mkdir") BY <3>1, <3>2, <3>3 DEF StepBecomes
    <3>5. QED BY <1>1, <1>3, <2>2, <3>4, JobContinues
  <2>5. QED BY <2>3, <2>4
<1>7. CASE Primitive
  <2>1. PICK st \in {"unknown", "success", "failure"} : EndsWith(st) BY <1>7 DEF Primitive
  <2>2. \A a \in Actions :
          HasSucceeded(a) \/ (a = Job.uid /\ st = "success") =>
             /\ ActionKind[a] = "checkout" => disk'.vcs = upstream
             /\ ActionKind[a] = "createsource" /\ HasCheckout(a) => upstream \in disk'.cache
             /\ ActionKind[a] = "installsource" /\ MadeOfCheckout(a) => upstream \in disk'.src
    BY <1>1 DEF ElectrolytInv, SourceInv
  <2>3. QED BY <1>1, <1>3, <2>1, <2>2, JobComesToEnd DEF ElectrolytInv, ElectrolytTypeOK
<1>8. QED BY <1>4, <1>5, <1>6, <1>7

\* ExecutedOnItsInputs: an action is executed when all that is above it has
\* succeeded in this run, a primitive in a complete build space and on the
\* revision that this run checked out, for any graph of actions with one source
\* to install (ElectrolytJobFactory.get_job, ElectrolytJob.run).
THEOREM ExecutedOnItsInputsHolds ==
  ASSUME OneSource, CheckoutsAreInstalled
  PROVE  ElectrolytSpec => []ExecutedOnItsInputs
<1>1. ElectrolytInit => ElectrolytInv BY ElectrolytInitHolds
<1>2. ElectrolytInv /\ [ElectrolytNext]_electrolytVars => ElectrolytInv'
  <2>1. SUFFICES ASSUME ElectrolytInv, [ElectrolytNext]_electrolytVars PROVE ElectrolytInv'
    OBVIOUS
  <2>2. CASE UNCHANGED electrolytVars
    BY <2>1, <2>2 DEF electrolytVars, ElectrolytInv, ElectrolytTypeOK, WorkingInv, StatusInv,
       SourceInv, HasSucceeded, Succeeded, Collected, Job, SpaceExists
  <2>3. CASE StartRun BY <2>1, <2>3, StartRunKeeps
  <2>4. CASE EndRun \/ ResetSpace BY <2>1, <2>4, IdleKeeps
  <2>5. CASE \E a \in Actions : GetElectrolytJob(a) BY <2>1, <2>5, GetElectrolytJobKeeps
  <2>6. CASE MethodRaises BY <2>1, <2>6, MethodRaisesKeeps
  <2>7. CASE CollectJob BY <2>1, <2>7, CollectJobKeeps
  <2>8. CASE DoNothing \/ DoOtherCheckout BY <2>1, <2>8, DoNothingKeeps
  <2>9. CASE DoCheckout BY <2>1, <2>9, DoCheckoutKeeps
  <2>10. CASE DoCreateSource BY <2>1, <2>10, DoCreateSourceKeeps
  <2>11. CASE DoInstallSource BY <2>1, <2>11, DoInstallSourceKeeps
  <2>12. CASE Activate \/ CleanTmp \/ MakeDir \/ Primitive BY <2>1, <2>12, PrimitiveKeeps
  <2>13. CASE RunKilled BY <2>1, <2>13, RunKilledKeeps
  <2>14. QED
    BY <2>1, <2>2, <2>3, <2>4, <2>5, <2>6, <2>7, <2>8, <2>9, <2>10, <2>11, <2>12, <2>13
    DEF ElectrolytNext
<1>3. ElectrolytInv => ExecutedOnItsInputs BY ElectrolytInvImplies
<1>4. QED BY <1>1, <1>2, <1>3, PTL DEF ElectrolytSpec

=============================================================================
