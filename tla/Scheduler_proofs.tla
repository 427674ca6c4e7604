-------------------------- MODULE Scheduler_proofs --------------------------
(***************************************************************************)
(* Theorems about Scheduler, for every finite set of jobs, every graph     *)
(* over it and every assignment of queues, tokens and priorities.          *)
(*                                                                         *)
(* The iterator's invariant comes with the lemmas of DagIterator_proofs.   *)
(* What the scheduler adds is where a job is: the argument is that a job   *)
(* that is BUSY is in one place (a queue, the local variable of launch(),  *)
(* active_jobs) and that its thread agrees with this place, so that the    *)
(* job left by wait() has ended and the one that starts was not running.   *)
(* From this follow the account of the tokens, which are counted as the    *)
(* elements of a set (a sum over jobs would need an induction), and the    *)
(* steps of DagExecution that those of the scheduler stand for.            *)
(***************************************************************************)
EXTENDS Scheduler, DagIterator_proofs, SequenceTheorems, TLAPS

----------------------------------------------------------------------------
(* Sequences: what the operators used here do to the set of the elements   *)
(* of a sequence, and to a sequence without repetition.                    *)

LEMMA SeqElements ==
  ASSUME NEW S, NEW s \in Seq(S)
  PROVE  /\ DOMAIN s = 1..Len(s)
         /\ Len(s) \in Nat
         /\ \A i \in DOMAIN s : s[i] \in S
         /\ ToSet(s) \subseteq S
BY LenProperties, ElementOfSeq DEF ToSet

LEMMA AppendElements ==
  ASSUME NEW S, NEW s \in Seq(S), NEW e \in S
  PROVE  /\ Append(s, e) \in Seq(S)
         /\ ToSet(Append(s, e)) = ToSet(s) \cup {e}
         /\ IsInjective(s) /\ e \notin ToSet(s) => IsInjective(Append(s, e))
<1> DEFINE t == Append(s, e)
<1>1. /\ t \in Seq(S)
      /\ Len(t) = Len(s) + 1
      /\ \A i \in 1..Len(s) : t[i] = s[i]
      /\ t[Len(s) + 1] = e
  BY AppendProperties
<1>2. /\ DOMAIN s = 1..Len(s)
      /\ DOMAIN t = 1..(Len(s) + 1)
      /\ Len(s) \in Nat
  BY <1>1, LenProperties
<1> HIDE DEF t
<1>3. ToSet(t) = ToSet(s) \cup {e}
  BY <1>1, <1>2 DEF ToSet
<1>4. IsInjective(s) /\ e \notin ToSet(s) => IsInjective(t)
  BY <1>1, <1>2 DEF ToSet, IsInjective
<1>5. QED
  BY <1>1, <1>3, <1>4 DEF t

LEMMA TailElements ==
  ASSUME NEW S, NEW s \in Seq(S), s # <<>>
  PROVE  /\ Tail(s) \in Seq(S)
         /\ Head(s) \in S
         /\ Head(s) \in ToSet(s)
         /\ ToSet(s) = ToSet(Tail(s)) \cup {Head(s)}
         /\ IsInjective(s) => /\ IsInjective(Tail(s))
                              /\ Head(s) \notin ToSet(Tail(s))
<1> DEFINE t == Tail(s)
           h == Head(s)
<1>1. /\ h \in S
      /\ t \in Seq(S)
      /\ Len(t) = Len(s) - 1
      /\ \A i \in 1..Len(t) : t[i] = s[i + 1]
  BY HeadTailProperties
<1>2. /\ DOMAIN s = 1..Len(s)
      /\ DOMAIN t = 1..(Len(s) - 1)
      /\ Len(s) \in Nat \ {0}
      /\ h = s[1]
  BY <1>1, LenProperties, EmptySeq
<1> HIDE DEF t, h
<1>3. h \in ToSet(s)
  BY <1>2 DEF ToSet
<1>4. ToSet(s) = ToSet(t) \cup {h}
  <2>1. \A i \in 1..Len(s) : i = 1 \/ (i - 1 \in 1..Len(t) /\ t[i - 1] = s[i])
    BY <1>1, <1>2
  <2>2. \A i \in 1..Len(t) : i + 1 \in 1..Len(s) /\ t[i] = s[i + 1]
    BY <1>1, <1>2
  <2>3. ToSet(s) \subseteq ToSet(t) \cup {h}
    BY <1>1, <1>2, <2>1 DEF ToSet
  <2>4. ToSet(t) \subseteq ToSet(s)
    BY <1>1, <1>2, <2>2 DEF ToSet
  <2>5. QED
    BY <1>3, <2>3, <2>4
<1>5. IsInjective(s) => IsInjective(t) /\ h \notin ToSet(t)
  <2>1. \A i \in DOMAIN t : i + 1 \in DOMAIN s /\ i + 1 # 1 /\ t[i] = s[i + 1]
    BY <1>1, <1>2
  <2>2. 1 \in DOMAIN s
    BY <1>2
  <2>3. IsInjective(s) => IsInjective(t)
    <3>1. \A i, k \in DOMAIN t : i + 1 = k + 1 => i = k
      BY <1>2
    <3>2. QED
      BY <2>1, <3>1 DEF IsInjective
  <2>4. IsInjective(s) => h \notin ToSet(t)
    BY <1>2, <2>1, <2>2 DEF ToSet, IsInjective
  <2>5. QED
    BY <2>3, <2>4
<1>6. QED
  BY <1>1, <1>3, <1>4, <1>5 DEF t, h

LEMMA FrontElements ==
  ASSUME NEW S, NEW s \in Seq(S), s # <<>>
  PROVE  /\ Front(s) \in Seq(S)
         /\ Last(s) \in S
         /\ ToSet(s) = ToSet(Front(s)) \cup {Last(s)}
         /\ IsInjective(s) => /\ IsInjective(Front(s))
                              /\ Last(s) \notin ToSet(Front(s))
<1> DEFINE t == Front(s)
           l == Last(s)
           n == Len(s)
<1>1. /\ DOMAIN s = 1..n
      /\ n \in Nat \ {0}
      /\ \A i \in 1..n : s[i] \in S
      /\ l = s[n]
  BY LenProperties, ElementOfSeq, EmptySeq DEF Last
<1>2. /\ t \in Seq(S)
      /\ Len(t) = n - 1
      /\ \A i \in 1..(n - 1) : t[i] = s[i]
  <2>1. \A i \in 1..(n - 1) : s[i] \in S
    BY <1>1
  <2>2. t = SubSeq(s, 1, n - 1)
    BY DEF Front
  <2>3. QED
    BY <1>1, <2>1, <2>2, SubSeqProperties
<1>3. DOMAIN t = 1..(n - 1)
  BY <1>2, LenProperties
<1> HIDE DEF t, l, n
<1>4. ToSet(s) = ToSet(t) \cup {l}
  BY <1>1, <1>2, <1>3 DEF ToSet
<1>5. IsInjective(s) => IsInjective(t) /\ l \notin ToSet(t)
  BY <1>1, <1>2, <1>3 DEF ToSet, IsInjective
<1>6. QED
  BY <1>1, <1>2, <1>4, <1>5 DEF t, l, n

\* The element at i is removed, and with it every trace of it.
LEMMA RemoveAtElements ==
  ASSUME NEW S, NEW s \in Seq(S), NEW i \in DOMAIN s
  PROVE  /\ RemoveAt(s, i) \in Seq(S)
         /\ ToSet(s) = ToSet(RemoveAt(s, i)) \cup {s[i]}
         /\ IsInjective(s) => /\ IsInjective(RemoveAt(s, i))
                              /\ s[i] \notin ToSet(RemoveAt(s, i))
<1> DEFINE n == Len(s)
           a == SubSeq(s, 1, i - 1)
           b == SubSeq(s, i + 1, n)
           t == a \o b
<1>1. /\ DOMAIN s = 1..n
      /\ n \in Nat
      /\ i \in 1..n
      /\ \A k \in 1..n : s[k] \in S
  BY LenProperties, ElementOfSeq
<1>2. /\ a \in Seq(S)
      /\ Len(a) = i - 1
      /\ \A k \in 1..(i - 1) : a[k] = s[k]
  <2>1. \A k \in 1..(i - 1) : s[k] \in S
    BY <1>1
  <2>2. QED
    BY <1>1, <2>1, SubSeqProperties
<1>3. /\ b \in Seq(S)
      /\ Len(b) = n - i
      /\ \A k \in 1..(n - i) : b[k] = s[i + k]
  <2>1. \A k \in (i + 1)..n : s[k] \in S
    BY <1>1
  <2>2. QED
    BY <1>1, <2>1, SubSeqProperties
<1> HIDE DEF a, b, n
<1>4. /\ t \in Seq(S)
      /\ Len(t) = n - 1
      /\ \A k \in 1..(n - 1) : t[k] = IF k < i THEN s[k] ELSE s[k + 1]
  <2>1. /\ t \in Seq(S)
        /\ Len(t) = Len(a) + Len(b)
        /\ \A k \in 1..(Len(a) + Len(b)) :
             t[k] = IF k <= Len(a) THEN a[k] ELSE b[k - Len(a)]
    BY <1>2, <1>3, ConcatProperties
  <2>2. Len(a) + Len(b) = n - 1
    BY <1>1, <1>2, <1>3
  <2>3. ASSUME NEW k \in 1..(n - 1)
        PROVE  t[k] = IF k < i THEN s[k] ELSE s[k + 1]
    <3> HIDE DEF t
    <3>1. CASE k < i
      BY <1>1, <1>2, <2>1, <2>2, <3>1
    <3>2. CASE ~(k < i)
      <4>1. k - (i - 1) \in 1..(n - i) /\ i + (k - (i - 1)) = k + 1
        BY <1>1, <3>2
      <4>2. t[k] = b[k - (i - 1)]
        BY <1>1, <1>2, <2>1, <2>2, <3>2
      <4>3. QED
        BY <1>3, <3>2, <4>1, <4>2
    <3>3. QED
      BY <3>1, <3>2
  <2>4. QED
    BY <2>1, <2>2, <2>3
<1>5. DOMAIN t = 1..(n - 1)
  BY <1>4, LenProperties
<1> HIDE DEF t
<1>6. ToSet(s) = ToSet(t) \cup {s[i]}
  <2>1. \A k \in 1..n : \/ k = i
                        \/ k \in 1..(n - 1) /\ k < i /\ t[k] = s[k]
                        \/ k - 1 \in 1..(n - 1) /\ t[k - 1] = s[k]
    BY <1>1, <1>4
  <2>2. \A k \in 1..(n - 1) : \E m \in 1..n : t[k] = s[m]
    <3>1. \A k \in 1..(n - 1) : k + 1 \in 1..n /\ k \in 1..n
      BY <1>1
    <3>2. QED
      BY <1>4, <3>1
  <2>3. ToSet(t) \subseteq ToSet(s)
    BY <1>1, <1>5, <2>2 DEF ToSet
  <2>4. ToSet(s) \subseteq ToSet(t) \cup {s[i]}
    BY <1>1, <1>5, <2>1 DEF ToSet
  <2>5. QED
    BY <1>1, <2>3, <2>4 DEF ToSet
<1>7. ASSUME IsInjective(s)
      PROVE  IsInjective(t) /\ s[i] \notin ToSet(t)
  <2>1. \A k, m \in 1..n : s[k] = s[m] => k = m
    BY <1>1, <1>7 DEF IsInjective
  <2>2. ASSUME NEW k \in 1..(n - 1), NEW m \in 1..(n - 1), t[k] = t[m]
        PROVE  k = m
    <3>1. k \in 1..n /\ k + 1 \in 1..n /\ m \in 1..n /\ m + 1 \in 1..n
      BY <1>1
    <3>2. QED
      BY <1>1, <1>4, <2>1, <2>2, <3>1
  <2>3. ASSUME NEW k \in 1..(n - 1)
        PROVE  t[k] # s[i]
    <3>1. k \in 1..n /\ k + 1 \in 1..n
      BY <1>1
    <3>2. QED
      BY <1>1, <1>4, <2>1, <3>1
  <2>4. QED
    BY <1>5, <2>2, <2>3 DEF IsInjective, ToSet
<1>8. RemoveAt(s, i) = t
  BY DEF RemoveAt, t, a, b, n
<1>9. QED
  BY <1>4, <1>6, <1>7, <1>8

LEMMA InsertAtElements ==
  ASSUME NEW S, NEW s \in Seq(S), NEW i \in 1..(Len(s) + 1), NEW e \in S
  PROVE  /\ InsertAt(s, i, e) \in Seq(S)
         /\ ToSet(InsertAt(s, i, e)) = ToSet(s) \cup {e}
         /\ IsInjective(s) /\ e \notin ToSet(s) => IsInjective(InsertAt(s, i, e))
<1> DEFINE n == Len(s)
           a == SubSeq(s, 1, i - 1)
           b == SubSeq(s, i, n)
           m == <<e>>
           t == a \o m \o b
<1>1. /\ DOMAIN s = 1..n
      /\ n \in Nat
      /\ i \in 1..(n + 1)
      /\ \A k \in 1..n : s[k] \in S
  BY LenProperties, ElementOfSeq
<1>2. /\ a \in Seq(S)
      /\ Len(a) = i - 1
      /\ \A k \in 1..(i - 1) : a[k] = s[k]
  <2>1. \A k \in 1..(i - 1) : s[k] \in S
    BY <1>1
  <2>2. QED
    BY <1>1, <2>1, SubSeqProperties
<1>3. /\ b \in Seq(S)
      /\ Len(b) = n - i + 1
      /\ \A k \in 1..(n - i + 1) : b[k] = s[i + k - 1]
  <2>1. \A k \in i..n : s[k] \in S
    BY <1>1
  <2>2. QED
    BY <1>1, <2>1, SubSeqProperties
<1>4. m \in Seq(S) /\ Len(m) = 1 /\ m[1] = e
  OBVIOUS
<1> HIDE DEF a, b, n, m
<1>5. /\ a \o m \in Seq(S)
      /\ Len(a \o m) = i
      /\ \A k \in 1..i : (a \o m)[k] = IF k < i THEN s[k] ELSE e
  <2>1. /\ a \o m \in Seq(S)
        /\ Len(a \o m) = Len(a) + Len(m)
        /\ \A k \in 1..(Len(a) + Len(m)) :
             (a \o m)[k] = IF k <= Len(a) THEN a[k] ELSE m[k - Len(a)]
    BY <1>2, <1>4, ConcatProperties
  <2>2. Len(a) + Len(m) = i
    BY <1>1, <1>2, <1>4
  <2>3. \A k \in 1..i : IF k < i THEN k <= Len(a) /\ k \in 1..(i - 1)
                                 ELSE ~(k <= Len(a)) /\ k - Len(a) = 1
    BY <1>1, <1>2
  <2>4. QED
    BY <1>2, <1>4, <2>1, <2>2, <2>3
<1>6. /\ t \in Seq(S)
      /\ Len(t) = n + 1
      /\ \A k \in 1..(n + 1) :
           t[k] = IF k < i THEN s[k] ELSE IF k = i THEN e ELSE s[k - 1]
  <2>1. /\ t \in Seq(S)
        /\ Len(t) = i + Len(b)
        /\ \A k \in 1..(i + Len(b)) :
             t[k] = IF k <= i THEN (a \o m)[k] ELSE b[k - i]
    <3> DEFINE c == a \o m
    <3>1. c \in Seq(S) /\ Len(c) = i /\ t = c \o b
      BY <1>5
    <3> HIDE DEF c
    <3>2. /\ c \o b \in Seq(S)
          /\ Len(c \o b) = Len(c) + Len(b)
          /\ \A k \in 1..(Len(c) + Len(b)) :
               (c \o b)[k] = IF k <= Len(c) THEN c[k] ELSE b[k - Len(c)]
      BY <1>3, <3>1, ConcatProperties
    <3>3. QED
      BY <3>1, <3>2 DEF c
  <2>2. i + Len(b) = n + 1
    BY <1>1, <1>3
  <2>3. \A k \in 1..(n + 1) :
          IF k <= i THEN k \in 1..i
                    ELSE k - i \in 1..(n - i + 1) /\ i + (k - i) - 1 = k - 1
    BY <1>1
  <2>4. \A k \in 1..(n + 1) : k <= i <=> k < i \/ k = i
    BY <1>1
  <2>5. QED
    BY <1>3, <1>5, <2>1, <2>2, <2>3, <2>4
<1>7. DOMAIN t = 1..(n + 1)
  BY <1>6, LenProperties
<1> HIDE DEF t
<1>8. ToSet(t) = ToSet(s) \cup {e}
  <2>1. \A k \in 1..n : \/ k \in 1..(n + 1) /\ k < i /\ t[k] = s[k]
                        \/ k + 1 \in 1..(n + 1) /\ t[k + 1] = s[k]
    BY <1>1, <1>6
  <2>2. \A k \in 1..(n + 1) : \/ k \in 1..n /\ t[k] = s[k]
                              \/ k = i /\ t[k] = e
                              \/ k - 1 \in 1..n /\ t[k] = s[k - 1]
    BY <1>1, <1>6
  <2>3. i \in 1..(n + 1) /\ t[i] = e
    BY <1>1, <1>6
  <2>4. ToSet(s) \subseteq ToSet(t)
    BY <1>1, <1>7, <2>1 DEF ToSet
  <2>5. ToSet(t) \subseteq ToSet(s) \cup {e}
    BY <1>1, <1>7, <2>2 DEF ToSet
  <2>6. e \in ToSet(t)
    BY <1>7, <2>3 DEF ToSet
  <2>7. QED
    BY <2>4, <2>5, <2>6
<1>9. ASSUME IsInjective(s), e \notin ToSet(s)
      PROVE  IsInjective(t)
  <2>1. \A k, m1 \in 1..n : s[k] = s[m1] => k = m1
    BY <1>1, <1>9 DEF IsInjective
  <2>2. \A k \in 1..n : s[k] # e
    BY <1>1, <1>9 DEF ToSet
  <2>3. ASSUME NEW k \in 1..(n + 1), NEW k2 \in 1..(n + 1), t[k] = t[k2]
        PROVE  k = k2
    <3>1. /\ k < i => k \in 1..n
          /\ ~(k < i) /\ k # i => k - 1 \in 1..n
          /\ k2 < i => k2 \in 1..n
          /\ ~(k2 < i) /\ k2 # i => k2 - 1 \in 1..n
      BY <1>1
    <3>2. QED
      BY <1>1, <1>6, <2>1, <2>2, <2>3, <3>1
  <2>4. QED
    BY <1>7, <2>3 DEF IsInjective
<1>10. InsertAt(s, i, e) = t
  BY DEF InsertAt, t, a, b, n, m
<1>11. QED
  BY <1>6, <1>8, <1>9, <1>10

----------------------------------------------------------------------------
(* Tokens: a set of pairs for each queue, which grows and shrinks with the  *)
(* set of the jobs that hold them.                                         *)

LEMMA PairsCount ==
  ASSUME NEW x, NEW n \in Nat
  PROVE  /\ IsFiniteSet({x} \X (1..n))
         /\ Cardinality({x} \X (1..n)) = n
<1>1. IsFiniteSet({x}) /\ Cardinality({x}) = 1
  BY FS_Singleton
<1>2. IsFiniteSet(1..n) /\ Cardinality(1..n) = n
  BY FS_Interval
<1>3. Cardinality({x}) * Cardinality(1..n) = n
  BY <1>1, <1>2
<1>4. QED
  BY <1>1, <1>2, <1>3, FS_Product

LEMMA PairsFinite ==
  ASSUME NEW K, IsFiniteSet(K), NEW n \in [K -> Nat]
  PROVE  IsFiniteSet(UNION {{x} \X (1..n[x]) : x \in K})
<1> DEFINE T == {{x} \X (1..n[x]) : x \in K}
           f == [x \in K |-> {x} \X (1..n[x])]
<1>1. f \in Surjection(K, T)
  BY DEF Surjection
<1>2. IsFiniteSet(T)
  BY <1>1, FS_Surjection
<1>3. \A x \in K : IsFiniteSet({x} \X (1..n[x]))
  BY PairsCount
<1>4. QED
  BY <1>2, <1>3, FS_UNION DEF T

LEMMA NumTokensNat ==
  /\ IsFiniteSet(AllTokens)
  /\ NumTokens \in Nat
<1>1. IsFiniteSet(Queue)
  BY SchedulerAssumption, FS_Interval DEF Queue
<1>2. IsFiniteSet(AllTokens)
  BY <1>1, PairsFinite, SchedulerAssumption DEF AllTokens
<1>3. QED
  BY <1>2, FS_CardinalityType DEF NumTokens

LEMMA TokensFinite ==
  ASSUME NEW S \in SUBSET Vertex, NEW q
  PROVE  /\ IsFiniteSet(TokensOf(S, q))
         /\ UsedTokens(S, q) \in Nat
<1> DEFINE K == {i \in S : JobQueue[i] = q}
           n == [j \in K |-> JobTokens[j]]
<1>1. IsFiniteSet(K)
  <2>1. K \in SUBSET Vertex
    OBVIOUS
  <2>2. QED
    BY <2>1, VertexAssumption, FS_Subset
<1>2. n \in [K -> Nat]
  BY SchedulerAssumption
<1>3. TokensOf(S, q) = UNION {{j} \X (1..n[j]) : j \in K}
  BY DEF TokensOf
<1> HIDE DEF K, n
<1>4. IsFiniteSet(TokensOf(S, q))
  BY <1>1, <1>2, <1>3, PairsFinite
<1>5. QED
  BY <1>4, FS_CardinalityType DEF UsedTokens

\* More jobs do not take less tokens.
LEMMA TokensMonotone ==
  ASSUME NEW T \in SUBSET Vertex, NEW S \in SUBSET T, NEW q
  PROVE  UsedTokens(S, q) <= UsedTokens(T, q)
<1>1. TokensOf(S, q) \subseteq TokensOf(T, q)
  BY DEF TokensOf
<1>2. QED
  BY <1>1, TokensFinite, FS_Subset DEF UsedTokens

\* One more job takes its tokens from its queue, and none from the others.
LEMMA TokensAdd ==
  ASSUME NEW S \in SUBSET Vertex, NEW j \in Vertex \ S, NEW q
  PROVE  UsedTokens(S \cup {j}, q) =
           UsedTokens(S, q) + (IF JobQueue[j] = q THEN JobTokens[j] ELSE 0)
<1>1. CASE JobQueue[j] = q
  <2> DEFINE new == {j} \X (1..JobTokens[j])
  <2>1. IsFiniteSet(new) /\ Cardinality(new) = JobTokens[j]
    BY PairsCount, SchedulerAssumption
  <2>2. TokensOf(S \cup {j}, q) = TokensOf(S, q) \cup new
    <3>1. {i \in S \cup {j} : JobQueue[i] = q} = {i \in S : JobQueue[i] = q} \cup {j}
      BY <1>1
    <3>2. QED
      BY <3>1 DEF TokensOf
  <2>3. TokensOf(S, q) \cap new = {}
    BY DEF TokensOf
  <2>4. Cardinality(TokensOf(S, q) \cap new) = 0
    BY <2>3, FS_EmptySet
  <2>5. IsFiniteSet(TokensOf(S, q)) /\ UsedTokens(S, q) \in Nat
    BY TokensFinite
  <2> HIDE DEF new
  <2>6. Cardinality(TokensOf(S, q) \cup new)
          = Cardinality(TokensOf(S, q)) + Cardinality(new) - 0
    BY <2>1, <2>4, <2>5, FS_Union
  <2>7. UsedTokens(S \cup {j}, q) = UsedTokens(S, q) + Cardinality(new) - 0
    BY <2>2, <2>6 DEF UsedTokens
  <2>8. JobTokens[j] \in Nat
    BY SchedulerAssumption
  <2>9. QED
    BY <1>1, <2>1, <2>5, <2>7, <2>8
<1>2. CASE JobQueue[j] # q
  <2>1. {i \in S \cup {j} : JobQueue[i] = q} = {i \in S : JobQueue[i] = q}
    BY <1>2
  <2>2. TokensOf(S \cup {j}, q) = TokensOf(S, q)
    BY <2>1 DEF TokensOf
  <2>3. QED
    BY <1>2, <2>2, TokensFinite DEF UsedTokens
<1>3. QED
  BY <1>1, <1>2

\* As long as a queue has a token left, the jobs that hold tokens are fewer
\* than the tokens there are: each of them holds one of its own.
LEMMA HoldersFewer ==
  ASSUME NEW S \in SUBSET Vertex, NEW free \in [Queue -> Nat],
         \A q \in Queue : free[q] + UsedTokens(S, q) = QueueTokens[q],
         NEW r \in Queue, free[r] > 0
  PROVE  /\ IsFiniteSet(S)
         /\ Cardinality(S) < NumTokens
<1> DEFINE Of(q) == {j \in S : JobQueue[j] = q}
           Numbered(q) == Injection(Of(q), 1..UsedTokens(S, q))
           number == [q \in Queue |-> CHOOSE f : f \in Numbered(q)]
           last == <<r, QueueTokens[r]>>
           hold == [j \in S |-> <<JobQueue[j], number[JobQueue[j]][j]>>]
<1>1. \A j \in S : j \in Vertex /\ JobQueue[j] \in Queue /\ JobTokens[j] \in Nat \ {0}
  BY SchedulerAssumption
<1>2. ASSUME NEW q \in Queue
      PROVE  number[q] \in Numbered(q)
  <2>1. IsFiniteSet(TokensOf(S, q)) /\ UsedTokens(S, q) \in Nat
    BY TokensFinite
  <2>2. PICK g : g \in Bijection(1..UsedTokens(S, q), TokensOf(S, q))
    BY <2>1, FS_CardinalityType DEF UsedTokens, ExistsBijection
  <2>3. \A j \in Of(q) : <<j, 1>> \in TokensOf(S, q)
    BY <1>1 DEF TokensOf
  <2> DEFINE f == [j \in Of(q) |-> CHOOSE i \in 1..UsedTokens(S, q) : g[i] = <<j, 1>>]
  <2>4. \A j \in Of(q) : f[j] \in 1..UsedTokens(S, q) /\ g[f[j]] = <<j, 1>>
    BY <2>2, <2>3 DEF Bijection, Surjection
  <2>5. f \in [Of(q) -> 1..UsedTokens(S, q)] /\ IsInjective(f)
    <3>1. f \in [Of(q) -> 1..UsedTokens(S, q)]
      BY <2>4
    <3> HIDE DEF f
    <3>2. \A j, k \in Of(q) : f[j] = f[k] => j = k
      BY <2>4
    <3>3. QED
      BY <3>1, <3>2 DEF IsInjective
  <2>6. f \in Numbered(q)
    BY <2>5 DEF Injection
  <2>7. QED
    BY <2>6
<1>3. IsFiniteSet(AllTokens) /\ NumTokens \in Nat
  BY NumTokensNat
<1>4. last \in AllTokens
  <2>1. UsedTokens(S, r) \in Nat /\ QueueTokens[r] \in Nat
    BY TokensFinite, SchedulerAssumption
  <2>2. QueueTokens[r] \in 1..QueueTokens[r]
    BY <2>1
  <2>3. QED
    BY <2>2 DEF AllTokens
<1>5. ASSUME NEW j \in S
      PROVE  hold[j] \in AllTokens \ {last}
  <2> DEFINE q == JobQueue[j]
             i == number[q][j]
  <2>1. q \in Queue /\ j \in Of(q)
    BY <1>1
  <2>2. i \in 1..UsedTokens(S, q)
    BY <1>2, <2>1 DEF Injection
  <2>3. UsedTokens(S, q) \in Nat /\ QueueTokens[q] \in Nat
    BY <2>1, TokensFinite, SchedulerAssumption
  <2>4. i \in 1..QueueTokens[q] /\ (q = r => i # QueueTokens[q])
    BY <2>1, <2>2, <2>3
  <2>5. hold[j] = <<q, i>>
    OBVIOUS
  <2> HIDE DEF q, i, hold, number
  <2>6. <<q, i>> \in AllTokens
    BY <2>1, <2>4 DEF AllTokens
  <2>7. QED
    BY <2>4, <2>5, <2>6
<1>6. hold \in Injection(S, AllTokens \ {last})
  <2>1. ASSUME NEW j \in S, NEW k \in S, hold[j] = hold[k]
        PROVE  j = k
    <3> HIDE DEF number
    <3>1. JobQueue[j] = JobQueue[k] /\ number[JobQueue[j]][j] = number[JobQueue[j]][k]
      BY <2>1
    <3>2. number[JobQueue[j]] \in Numbered(JobQueue[j])
      BY <1>1, <1>2
    <3>3. j \in Of(JobQueue[j]) /\ k \in Of(JobQueue[j])
      BY <3>1
    <3>4. QED
      BY <3>1, <3>2, <3>3 DEF Injection, IsInjective
  <2> HIDE DEF hold, last
  <2>2. hold \in [S -> AllTokens \ {last}]
    BY <1>5 DEF hold
  <2>3. QED
    BY <2>1, <2>2 DEF Injection, IsInjective
<1>7. /\ IsFiniteSet(AllTokens \ {last})
      /\ Cardinality(AllTokens \ {last}) = NumTokens - 1
  BY <1>3, <1>4, FS_RemoveElement DEF NumTokens
<1>8. IsFiniteSet(S) /\ Cardinality(S) <= Cardinality(AllTokens \ {last})
  BY <1>6, <1>7, FS_Injection
<1>9. QED
  BY <1>3, <1>7, <1>8, FS_CardinalityType

----------------------------------------------------------------------------
(* What a state of the scheduler keeps to.                                 *)

\* The thread of a job agrees with its state in the iterator.
ThreadsAgree ==
  \A j \in Vertex :
    /\ states[j] = NOT_VISITED => thread[j] = "none"
    /\ states[j] = VISITED => thread[j] # "running"

\* While run() is in its try block, a running job is being started or active.
RunningInPlace ==
  pc \in InRun => RunningJobs \subseteq Starting \cup ToSet(active_jobs)

\* `current' is a job wherever it is used; in wait() it is active, it has
\* ended, and its message has been consumed.
CurrentOK ==
  /\ pc = "started" => current \in Vertex
  /\ pc \in {"collect", "finish"} =>
       /\ current \in ToSet(active_jobs)
       /\ current \notin ToSet(message_queue)
       /\ thread[current] = "ended"

\* A job is notified once.
MessagesOnce == pc \in InRun => IsInjective(message_queue)

\* The slot numbers that are free or in use are distinct.
SlotsInv ==
  /\ IsInjective(slots)
  /\ pc \in InRun => \A j \in Holders :
       /\ slot[j] \notin ToSet(slots)
       /\ \A k \in Holders : slot[j] = slot[k] => j = k

\* launch() and wait() are reached with nothing ready in the iterator, and
\* wait() blocks only with an active job.
WaitInv ==
  /\ pc \in {"launch", "started", "wait"} => Ready = {}
  /\ pc = "wait" => active_jobs # <<>> /\ \A q \in Queue : ~Launchable(q)

\* The handler has interrupted the first `handled' active jobs.
InterruptInv ==
  /\ pc \in InRun => handled = 0
  /\ pc \in {"interrupt", "interrupted"} =>
       /\ handled <= Len(active_jobs)
       /\ \A i \in 1..handled : interrupted[active_jobs[i]]
       /\ RunningJobs \subseteq {current} \cup ToSet(active_jobs)
  /\ pc = "interrupted" => handled = Len(active_jobs)

\* A job that is left has been collected; once all jobs are queued no vertex
\* remains; and the loop test of run() finds nothing in progress.
DoneInv ==
  /\ \A j \in Vertex : states[j] = VISITED => collected[j] > 0
  /\ pc = "finish" => collected[current] > 0
  /\ all_jobs_queued => non_visited = {}
  /\ pc = "finished" =>
       /\ all_jobs_queued
       /\ RunningJobs = {}
       /\ message_queue = <<>>
       /\ \A j \in Vertex : states[j] # BUSY

SchedInv ==
  /\ IterInv
  /\ SchedTypeOK
  /\ ThreadsAgree
  /\ OnePlace
  /\ QueuedJobsExact
  /\ RunningInPlace
  /\ MessageExpected
  /\ CurrentOK
  /\ MessagesOnce
  /\ SlotsInv
  /\ SlotsDistinct
  /\ WaitInv
  /\ InterruptInv
  /\ DoneInv

----------------------------------------------------------------------------
(* Lemmas on the operators.                                                *)

LEMMA PcFacts ==
  /\ {"test", "enqueue", "launch", "started", "wait", "collect", "finish"} = InRun
  /\ "interrupt" \notin InRun
  /\ "finished" \notin InRun
  /\ "interrupted" \notin InRun
BY DEF InRun

\* Pushing a job adds it to its queue and changes no other one.
LEMMA PushPlaces ==
  ASSUME SchedTypeOK, NEW j \in Vertex, Push(j)
  PROVE  /\ queues' \in [Queue -> Seq(Vertex)]
         /\ queued_jobs' = queued_jobs + 1
         /\ queued_jobs' \in Nat
         /\ \A q \in Queue :
              /\ ToSet(queues'[q]) =
                   ToSet(queues[q]) \cup (IF q = JobQueue[j] THEN {j} ELSE {})
              /\ IsInjective(queues[q]) /\ j \notin ToSet(queues[q])
                   => IsInjective(queues'[q])
<1> DEFINE q0 == JobQueue[j]
           s == queues[q0]
           Before == {i \in DOMAIN s : JobPriority[s[i]] >= JobPriority[j]}
<1>1. q0 \in Queue /\ s \in Seq(Vertex)
  BY SchedulerAssumption DEF SchedTypeOK
<1>2. DOMAIN s = 1..Len(s) /\ Len(s) \in Nat
  BY <1>1, SeqElements
<1>3. Cardinality(Before) + 1 \in 1..(Len(s) + 1)
  <2>1. IsFiniteSet(1..Len(s)) /\ Cardinality(1..Len(s)) = Len(s)
    BY <1>2, FS_Interval
  <2>2. Before \subseteq 1..Len(s)
    BY <1>2
  <2>3. /\ IsFiniteSet(Before)
        /\ Cardinality(Before) \in Nat
        /\ Cardinality(Before) <= Len(s)
    BY <2>1, <2>2, FS_Subset, FS_CardinalityType
  <2>4. QED
    BY <1>2, <2>3
<1>4. /\ InQueueOrder(s, j) \in Seq(Vertex)
      /\ ToSet(InQueueOrder(s, j)) = ToSet(s) \cup {j}
      /\ IsInjective(s) /\ j \notin ToSet(s) => IsInjective(InQueueOrder(s, j))
  BY <1>1, <1>3, InsertAtElements DEF InQueueOrder
<1>5. queues' = [queues EXCEPT ![q0] = InQueueOrder(s, j)]
  BY DEF Push
<1> HIDE DEF q0, s
<1>6. \A q \in Queue : queues'[q] = IF q = q0 THEN InQueueOrder(s, j) ELSE queues[q]
  BY <1>5 DEF SchedTypeOK
<1>7. s = queues[q0]
  BY DEF s
<1>8. QED
  BY <1>1, <1>4, <1>5, <1>6, <1>7 DEF SchedTypeOK, Push, q0

LEMMA QueuedFinite ==
  ASSUME SchedTypeOK
  PROVE  /\ Queued \subseteq Vertex
         /\ IsFiniteSet(Queued)
         /\ Cardinality(Queued) \in Nat
         /\ Cardinality(Queued) = 0 <=> Queued = {}
<1>1. Queued \subseteq Vertex
  <2>1. \A q \in Queue : ToSet(queues[q]) \subseteq Vertex
    BY SeqElements DEF SchedTypeOK
  <2>2. QED
    BY <2>1 DEF Queued
<1>2. IsFiniteSet(Queued)
  BY <1>1, VertexAssumption, FS_Subset
<1>3. QED
  BY <1>1, <1>2, FS_CardinalityType, FS_EmptySet

----------------------------------------------------------------------------
(* The invariant holds initially, and every step preserves it.             *)

LEMMA SchedInitInv == SchedInit => SchedInv
<1> SUFFICES ASSUME SchedInit PROVE SchedInv
  OBVIOUS
<1> USE DEF SchedInit
<1>1. IterInv
  BY IterInitInv
<1>2. slots \in Seq(Nat) /\ IsInjective(slots)
  <2>1. \A i \in 1..NumTokens : i - 1 \in Nat
    BY NumTokensNat
  <2>2. slots \in [1..NumTokens -> Nat]
    BY <2>1
  <2>3. slots \in Seq(Nat)
    BY <2>2, NumTokensNat, SeqDef
  <2>4. IsInjective(slots)
    BY NumTokensNat DEF IsInjective
  <2>5. QED
    BY <2>3, <2>4
<1>3. SchedTypeOK
  <2>1. <<>> \in Seq(Vertex)
    BY EmptySeq
  <2>2. queues \in [Queue -> Seq(Vertex)]
    BY <2>1
  <2>3. tokens \in [Queue -> Int]
    BY SchedulerAssumption
  <2>4. /\ slot \in [Vertex -> Nat]
        /\ thread \in [Vertex -> {"none", "running", "ended"}]
        /\ interrupted \in [Vertex -> BOOLEAN]
        /\ collected \in [Vertex -> Nat]
    OBVIOUS
  <2>5. /\ pc \in InRun
        /\ all_jobs_queued \in BOOLEAN
        /\ queued_jobs \in Nat
        /\ active_jobs \in Seq(Vertex)
        /\ message_queue \in Seq(Vertex)
        /\ current \in Vertex \cup {NoJob}
        /\ collect_result \in BOOLEAN
        /\ handled \in Nat
    <3>1. all_jobs_queued = FALSE /\ collect_result = FALSE
      OBVIOUS
    <3>2. all_jobs_queued \in BOOLEAN /\ collect_result \in BOOLEAN
      BY <3>1, Zenon
    <3>3. pc \in InRun /\ queued_jobs \in Nat /\ handled \in Nat
      BY DEF InRun
    <3>4. current \in Vertex \cup {NoJob}
      OBVIOUS
    <3>5. active_jobs \in Seq(Vertex) /\ message_queue \in Seq(Vertex)
      BY <2>1
    <3>6. QED
      BY <3>2, <3>3, <3>4, <3>5
  <2> HIDE DEF SchedInit
  <2>6. QED
    BY <1>1, <1>2, <2>2, <2>3, <2>4, <2>5 DEF SchedTypeOK, IterInv
<1>4. ThreadsAgree
  BY StatesDiffer DEF ThreadsAgree, IterInit
<1>5. ToSet(<<>>) = {} /\ IsInjective(<<>>)
  BY DEF ToSet, IsInjective
<1>6. Queued = {} /\ Starting = {} /\ RunningJobs = {} /\ Holders = {}
  <2>1. \A q \in Queue : ToSet(queues[q]) = {}
    BY <1>5
  <2>2. QED
    BY <1>5, <2>1 DEF Queued, Starting, RunningJobs, Holders
<1>7. OnePlace
  BY <1>5, <1>6, StatesDiffer DEF OnePlace, IterInit
<1>8. RunningInPlace /\ MessageExpected /\ CurrentOK /\ MessagesOnce
  BY <1>5, <1>6 DEF RunningInPlace, MessageExpected, CurrentOK, MessagesOnce
<1>9. SlotsInv /\ SlotsDistinct
  BY <1>2, <1>6 DEF SlotsInv, SlotsDistinct
<1>10. WaitInv /\ InterruptInv
  BY DEF WaitInv, InterruptInv
<1>11. QueuedJobsExact
  BY <1>6, FS_EmptySet DEF QueuedJobsExact
<1>12. DoneInv
  <2>1. \A j \in Vertex : states[j] # VISITED
    BY StatesDiffer DEF IterInit
  <2>2. pc = "test" /\ ~all_jobs_queued
    OBVIOUS
  <2> HIDE DEF SchedInit
  <2>3. QED
    BY <2>1, <2>2 DEF DoneInv
<1>13. QED
  BY <1>1, <1>3, <1>4, <1>7, <1>8, <1>9, <1>10, <1>11, <1>12 DEF SchedInv

LEMMA TestInv ==
  ASSUME SchedInv, Test
  PROVE  SchedInv'
<1> USE DEF Test, queueVars, resourceVars, localVars, jobVars
<1>1. IterInv'
  BY StutterInv DEF SchedInv
<1>2. SchedTypeOK'
  BY <1>1 DEF SchedInv, SchedTypeOK, IterInv, InRun
<1>3. ThreadsAgree'
  BY DEF SchedInv, ThreadsAgree, iterVars
<1>4. /\ Starting' = {} /\ Starting = {} /\ Queued' = Queued /\ RunningJobs' = RunningJobs
      /\ Holders' = Holders
  BY DEF Starting, Queued, RunningJobs, Holders, Ending
<1>5. OnePlace'
  BY <1>4 DEF SchedInv, OnePlace, iterVars, InRun
<1>6. RunningInPlace' /\ MessageExpected' /\ CurrentOK' /\ MessagesOnce'
  BY <1>4 DEF SchedInv, RunningInPlace, MessageExpected, CurrentOK, MessagesOnce, InRun
<1>7. SlotsInv' /\ SlotsDistinct'
  BY <1>4 DEF SchedInv, SlotsInv, SlotsDistinct, InRun
<1>8. WaitInv' /\ InterruptInv'
  BY <1>4 DEF SchedInv, WaitInv, InterruptInv, InRun
<1>9. QueuedJobsExact'
  BY DEF SchedInv, QueuedJobsExact, Queued, InRun
<1>10. DoneInv'
  <2>1. ASSUME pc' = "finished"
        PROVE  /\ all_jobs_queued
               /\ RunningJobs = {}
               /\ message_queue = <<>>
               /\ \A j \in Vertex : states[j] # BUSY
    <3>1. all_jobs_queued /\ queued_jobs = 0 /\ active_jobs = <<>>
      BY <2>1 DEF is_finished
    <3>2. ToSet(active_jobs) = {} /\ Queued = {}
      <4>1. Queued = {}
        BY <3>1, QueuedFinite DEF SchedInv, QueuedJobsExact, InRun
      <4>2. QED
        BY <3>1, <4>1 DEF ToSet
    <3>3. RunningJobs = {} /\ ToSet(message_queue) = {}
      BY <1>4, <3>2 DEF SchedInv, RunningInPlace, MessageExpected, InRun
    <3>4. message_queue = <<>>
      <4>1. message_queue \in Seq(Vertex)
        BY DEF SchedInv, SchedTypeOK
      <4>2. ASSUME message_queue # <<>> PROVE FALSE
        BY <3>3, <4>1, <4>2, TailElements
      <4>3. QED
        BY <4>2
    <3>5. \A j \in Vertex : states[j] # BUSY
      BY <1>4, <3>2 DEF SchedInv, OnePlace, InRun
    <3>6. QED
      BY <3>1, <3>3, <3>4, <3>5
  <2>2. QED
    BY <1>4, <2>1 DEF SchedInv, DoneInv, iterVars
<1>11. QED
  BY <1>1, <1>2, <1>3, <1>5, <1>6, <1>7, <1>8, <1>9, <1>10 DEF SchedInv


\* What it takes to add a BUSY job to its queue.
LEMMA EnqueueJobInv ==
  ASSUME SchedInv, NEW j \in Vertex, EnqueueJob(j)
  PROVE  SchedInv'
<1> USE DEF EnqueueJob, resourceVars, localVars, jobVars
<1>1. IterInv'
  BY NextBusyInv DEF SchedInv
<1>2. /\ states[j] = NOT_VISITED
      /\ states' = [states EXCEPT ![j] = BUSY]
      /\ states'[j] = BUSY
      /\ \A k \in Vertex \ {j} : states'[k] = states[k]
  BY DEF NextBusy, Ready, SchedInv, IterInv, NonVisitedExact, IterTypeOK
<1>3. /\ queues' \in [Queue -> Seq(Vertex)]
      /\ queued_jobs' = queued_jobs + 1
      /\ queued_jobs' \in Nat
      /\ \A q \in Queue :
           /\ ToSet(queues'[q]) =
                ToSet(queues[q]) \cup (IF q = JobQueue[j] THEN {j} ELSE {})
           /\ IsInjective(queues[q]) /\ j \notin ToSet(queues[q])
                => IsInjective(queues'[q])
  BY PushPlaces DEF SchedInv
<1>4. SchedTypeOK'
  BY <1>1, <1>3 DEF SchedInv, SchedTypeOK, IterInv
<1>5. ThreadsAgree'
  BY <1>2, StatesDiffer DEF SchedInv, ThreadsAgree
<1>6. /\ Starting' = {} /\ Starting = {} /\ RunningJobs' = RunningJobs
      /\ Holders' = Holders
  BY DEF Starting, RunningJobs, Holders, Ending
<1>7. JobQueue[j] \in Queue
  BY SchedulerAssumption
<1>8. Queued' = Queued \cup {j}
  BY <1>3, <1>7 DEF Queued
<1>9. j \notin Queued \cup ToSet(active_jobs)
  BY <1>2, StatesDiffer DEF SchedInv, OnePlace, InRun
<1>10. OnePlace'
  <2>1. \A k \in Vertex :
          states'[k] = BUSY <=> k \in Queued' \cup Starting' \cup ToSet(active_jobs)'
    BY <1>2, <1>6, <1>8 DEF SchedInv, OnePlace, InRun
  <2>2. \A q \in Queue : /\ IsInjective(queues'[q])
                         /\ \A k \in ToSet(queues'[q]) : JobQueue[k] = q
    BY <1>3, <1>9 DEF SchedInv, OnePlace, InRun, Queued
  <2>3. QED
    BY <1>6, <1>8, <1>9, <2>1, <2>2 DEF SchedInv, OnePlace, InRun
<1>11. RunningInPlace' /\ MessageExpected' /\ CurrentOK' /\ MessagesOnce'
  BY <1>6 DEF SchedInv, RunningInPlace, MessageExpected, CurrentOK, MessagesOnce, InRun
<1>12. SlotsInv' /\ SlotsDistinct'
  BY <1>6 DEF SchedInv, SlotsInv, SlotsDistinct, InRun
<1>13. WaitInv' /\ InterruptInv'
  BY <1>6 DEF SchedInv, WaitInv, InterruptInv, InRun
<1>14. QueuedJobsExact'
  BY <1>3, <1>8, <1>9, QueuedFinite, FS_AddElement DEF SchedInv, QueuedJobsExact, InRun
<1>15. DoneInv'
  <2>1. \A k \in Vertex : states'[k] = VISITED => states[k] = VISITED
    BY <1>2, StatesDiffer
  <2>2. ~all_jobs_queued
    BY DEF NextBusy, Ready, SchedInv, DoneInv
  <2>3. QED
    BY <2>1, <2>2 DEF SchedInv, DoneInv
<1>16. QED
  BY <1>1, <1>4, <1>5, <1>10, <1>11, <1>12, <1>13, <1>14, <1>15 DEF SchedInv

LEMMA EnqueueSkippedInv ==
  ASSUME SchedInv, NEW j \in Vertex, EnqueueSkipped(j)
  PROVE  SchedInv'
<1> USE DEF EnqueueSkipped, queueVars, resourceVars, localVars, jobVars
<1>1. IterInv'
  BY NextVisitedInv DEF SchedInv
<1>2. /\ states[j] = NOT_VISITED
      /\ states'[j] = VISITED
      /\ \A k \in Vertex \ {j} : states'[k] = states[k]
  BY DEF NextVisited, MarkVisited, Ready, SchedInv, IterInv, NonVisitedExact, IterTypeOK
<1>3. SchedTypeOK'
  BY <1>1 DEF SchedInv, SchedTypeOK, IterInv, Collected
<1>4. ThreadsAgree'
  BY <1>2, StatesDiffer DEF SchedInv, ThreadsAgree
<1>5. /\ Starting' = {} /\ Starting = {} /\ Queued' = Queued /\ RunningJobs' = RunningJobs
      /\ Holders' = Holders
  BY DEF Starting, Queued, RunningJobs, Holders, Ending
<1>6. \A k \in Vertex : states'[k] = BUSY <=> states[k] = BUSY
  BY <1>2, StatesDiffer
<1>7. OnePlace'
  BY <1>5, <1>6 DEF SchedInv, OnePlace, InRun
<1>8. RunningInPlace' /\ MessageExpected' /\ CurrentOK' /\ MessagesOnce'
  BY <1>5 DEF SchedInv, RunningInPlace, MessageExpected, CurrentOK, MessagesOnce, InRun
<1>9. SlotsInv' /\ SlotsDistinct'
  BY <1>5 DEF SchedInv, SlotsInv, SlotsDistinct, InRun
<1>10. WaitInv' /\ InterruptInv'
  BY <1>5 DEF SchedInv, WaitInv, InterruptInv, InRun
<1>11. QueuedJobsExact'
  BY DEF SchedInv, QueuedJobsExact, Queued, InRun
<1>12. DoneInv'
  <2>1. \A k \in Vertex : states'[k] = VISITED => k = j \/ states[k] = VISITED
    BY <1>2
  <2>2. \A k \in Vertex : collected'[k] = IF k = j THEN collected[k] + 1 ELSE collected[k]
    BY DEF Collected, SchedInv, SchedTypeOK
  <2>3. \A k \in Vertex : collected[k] \in Nat
    BY DEF SchedInv, SchedTypeOK
  <2>4. \A k \in Vertex : states'[k] = VISITED => collected'[k] > 0
    BY <2>1, <2>2, <2>3 DEF SchedInv, DoneInv
  <2>5. ~all_jobs_queued
    BY DEF NextVisited, Ready, SchedInv, DoneInv
  <2>6. QED
    BY <2>4, <2>5 DEF SchedInv, DoneInv
<1>13. QED
  BY <1>1, <1>3, <1>4, <1>7, <1>8, <1>9, <1>10, <1>11, <1>12 DEF SchedInv

LEMMA EnqueueReturnsInv ==
  ASSUME SchedInv, EnqueueReturns
  PROVE  SchedInv'
<1> USE DEF EnqueueReturns, queueVars, resourceVars, localVars, jobVars
<1>1. IterInv'
  BY StutterInv DEF SchedInv
<1>2. all_jobs_queued' \in BOOLEAN
  BY DEF Exhausted
<1>3. SchedTypeOK'
  BY <1>1, <1>2 DEF SchedInv, SchedTypeOK, IterInv, InRun
<1>4. ThreadsAgree'
  BY DEF SchedInv, ThreadsAgree, iterVars
<1>5. /\ Starting' = {} /\ Starting = {} /\ Queued' = Queued /\ RunningJobs' = RunningJobs
      /\ Holders' = Holders
  BY DEF Starting, Queued, RunningJobs, Holders, Ending
<1>6. OnePlace'
  BY <1>5 DEF SchedInv, OnePlace, iterVars, InRun
<1>7. RunningInPlace' /\ MessageExpected' /\ CurrentOK' /\ MessagesOnce'
  BY <1>5 DEF SchedInv, RunningInPlace, MessageExpected, CurrentOK, MessagesOnce, InRun
<1>8. SlotsInv' /\ SlotsDistinct'
  BY <1>5 DEF SchedInv, SlotsInv, SlotsDistinct, InRun
<1>9. Ready' = {}
  BY DEF Ready, iterVars
<1>10. WaitInv' /\ InterruptInv'
  BY <1>5, <1>9 DEF SchedInv, WaitInv, InterruptInv, InRun
<1>11. QueuedJobsExact'
  BY DEF SchedInv, QueuedJobsExact, Queued, InRun
<1>12. DoneInv'
  BY DEF SchedInv, DoneInv, Exhausted, iterVars
<1>13. QED
  BY <1>1, <1>3, <1>4, <1>6, <1>7, <1>8, <1>10, <1>11, <1>12 DEF SchedInv


LEMMA StartJobInv ==
  ASSUME SchedInv, NEW q \in Queue, StartJob(q)
  PROVE  SchedInv'
<1> USE DEF StartJob
<1> DEFINE j == Head(queues[q])
<1>1. IterInv'
  BY StutterInv DEF SchedInv
<1>2. /\ queues[q] \in Seq(Vertex)
      /\ queues[q] # <<>>
      /\ slots \in Seq(Nat)
  BY DEF SchedInv, SchedTypeOK, Launchable
<1>3. /\ j \in Vertex
      /\ j \in ToSet(queues[q])
      /\ Tail(queues[q]) \in Seq(Vertex)
      /\ ToSet(queues[q]) = ToSet(Tail(queues[q])) \cup {j}
      /\ IsInjective(queues[q]) => /\ IsInjective(Tail(queues[q]))
                                   /\ j \notin ToSet(Tail(queues[q]))
  BY <1>2, TailElements
<1>4. /\ Front(slots) \in Seq(Nat)
      /\ Last(slots) \in Nat
      /\ ToSet(slots) = ToSet(Front(slots)) \cup {Last(slots)}
      /\ IsInjective(slots) => /\ IsInjective(Front(slots))
                               /\ Last(slots) \notin ToSet(Front(slots))
  BY <1>2, FrontElements
<1>5. /\ pc = "launch" /\ pc' = "started"
      /\ current' = j
      /\ queues' = [queues EXCEPT ![q] = Tail(queues[q])]
      /\ slot' = [slot EXCEPT ![j] = Last(slots)]
      /\ thread' = [thread EXCEPT ![j] = "running"]
      /\ slots' = Front(slots)
  OBVIOUS
<1> HIDE DEF j
<1>22. queued_jobs' \in Nat
  <2>1. j \in Queued
    BY <1>3 DEF Queued
  <2>2. /\ queued_jobs = Cardinality(Queued)
        /\ Cardinality(Queued) \in Nat \ {0}
    BY <1>5, <2>1, QueuedFinite DEF SchedInv, QueuedJobsExact, InRun
  <2>3. QED
    BY <2>2
<1>6. SchedTypeOK'
  <2>1. queues' \in [Queue -> Seq(Vertex)]
    BY <1>3, <1>5 DEF SchedInv, SchedTypeOK
  <2>2. slot' \in [Vertex -> Nat]
    BY <1>4, <1>5 DEF SchedInv, SchedTypeOK
  <2>3. thread' \in [Vertex -> {"none", "running", "ended"}]
    BY <1>5 DEF SchedInv, SchedTypeOK
  <2>4. /\ pc' \in InRun
        /\ slots' \in Seq(Nat)
        /\ current' \in Vertex
    BY <1>3, <1>4, <1>5 DEF InRun
  <2>5. QED
    BY <1>1, <1>22, <2>1, <2>2, <2>3, <2>4 DEF SchedInv, SchedTypeOK, IterInv
<1>7. /\ Starting = {} /\ Starting' = {j}
      /\ \A k \in Vertex : thread'[k] = IF k = j THEN "running" ELSE thread[k]
      /\ \A k \in Vertex : slot'[k] = IF k = j THEN Last(slots) ELSE slot[k]
      /\ \A r \in Queue : queues'[r] = IF r = q THEN Tail(queues[q]) ELSE queues[r]
      /\ active_jobs' = active_jobs /\ states' = states
  BY <1>5 DEF SchedInv, SchedTypeOK, Starting, iterVars
<1>8. /\ ToSet(active_jobs) \subseteq Vertex
      /\ Queued \subseteq Vertex
  <2>1. \A r \in Queue : ToSet(queues[r]) \subseteq Vertex
    BY SeqElements DEF SchedInv, SchedTypeOK
  <2>2. QED
    BY <2>1, SeqElements DEF SchedInv, SchedTypeOK, Queued
<1>9. /\ j \in Queued
      /\ j \notin ToSet(active_jobs)
      /\ states[j] = BUSY
  BY <1>3, <1>5 DEF SchedInv, OnePlace, Queued, InRun
<1>10. Queued' = Queued \ {j}
  <2>1. \A r \in Queue : r # q => j \notin ToSet(queues[r])
    BY <1>3, <1>5 DEF SchedInv, OnePlace, InRun
  <2>2. IsInjective(queues[q])
    BY <1>5 DEF SchedInv, OnePlace, InRun
  <2>3. \A r \in Queue : ToSet(queues'[r]) = ToSet(queues[r]) \ {j}
    BY <1>3, <1>7, <2>1, <2>2
  <2>4. \A x : x \in Queued' <=> x \in Queued /\ x # j
    <3>1. \A x : x \in Queued' <=> \E r \in Queue : x \in ToSet(queues'[r])
      BY DEF Queued
    <3>2. \A x : x \in Queued <=> \E r \in Queue : x \in ToSet(queues[r])
      BY DEF Queued
    <3>3. QED
      BY <2>3, <3>1, <3>2
  <2>5. QED
    BY <2>4
<1>11. RunningJobs' = RunningJobs \cup {j}
  BY <1>3, <1>7 DEF RunningJobs
<1>12. ThreadsAgree'
  BY <1>7, <1>9, StatesDiffer DEF SchedInv, ThreadsAgree
<1>13. OnePlace'
  <2>1. \A r \in Queue : /\ IsInjective(queues'[r])
                         /\ \A k \in ToSet(queues'[r]) : JobQueue[k] = r
    BY <1>3, <1>5, <1>7 DEF SchedInv, OnePlace, InRun
  <2>2. QED
    BY <1>3, <1>5, <1>7, <1>9, <1>10, <2>1 DEF SchedInv, OnePlace, InRun
<1>14. RunningInPlace'
  BY <1>5, <1>7, <1>11 DEF SchedInv, RunningInPlace, InRun
<1>15. MessageExpected'
  BY <1>5, <1>7, <1>8, <1>9 DEF SchedInv, MessageExpected, InRun
<1>16. CurrentOK' /\ MessagesOnce'
  BY <1>3, <1>5 DEF SchedInv, CurrentOK, MessagesOnce, InRun
<1>17. /\ Holders = ToSet(active_jobs)
       /\ Holders' = Holders \cup {j}
       /\ RunningJobs \subseteq Holders
  BY <1>5, <1>7 DEF Holders, Ending, SchedInv, RunningInPlace, InRun
<1>18. SlotsInv' /\ SlotsDistinct'
  <2>1. /\ IsInjective(slots')
        /\ Last(slots) \notin ToSet(slots')
        /\ ToSet(slots') \subseteq ToSet(slots)
        /\ Last(slots) \in ToSet(slots)
    BY <1>4, <1>5 DEF SchedInv, SlotsInv
  <2>2. \A k \in Holders : k \in Vertex /\ k # j /\ slot[k] # Last(slots)
    BY <1>5, <1>8, <1>9, <1>17, <2>1 DEF SchedInv, SlotsInv, InRun
  <2>3. \A k \in Holders' : /\ slot'[k] \notin ToSet(slots')
                            /\ \A l \in Holders' : slot'[k] = slot'[l] => k = l
    BY <1>3, <1>5, <1>7, <1>17, <2>1, <2>2 DEF SchedInv, SlotsInv, InRun
  <2>4. RunningJobs' \subseteq Holders'
    BY <1>11, <1>17
  <2>5. QED
    BY <2>1, <2>3, <2>4 DEF SlotsInv, SlotsDistinct
<1>19. WaitInv' /\ InterruptInv'
  BY <1>5 DEF SchedInv, WaitInv, InterruptInv, InRun, Ready, iterVars
<1>20. QueuedJobsExact'
  BY <1>7, <1>9, <1>10, QueuedFinite, FS_RemoveElement
     DEF SchedInv, QueuedJobsExact, InRun
<1>21. DoneInv'
  BY DEF SchedInv, DoneInv, InRun, iterVars
<1>23. QED
  BY <1>1, <1>6, <1>12, <1>13, <1>14, <1>15, <1>16, <1>18, <1>19, <1>20, <1>21 DEF SchedInv

LEMMA AccountInv ==
  ASSUME SchedInv, Account
  PROVE  SchedInv'
<1> USE DEF Account, queueVars, localVars, jobVars
<1>1. IterInv'
  BY StutterInv DEF SchedInv
<1>2. /\ current \in Vertex
      /\ active_jobs \in Seq(Vertex)
      /\ current \notin ToSet(active_jobs)
  BY DEF SchedInv, SchedTypeOK, CurrentOK, OnePlace, Starting, InRun
<1>3. /\ active_jobs' \in Seq(Vertex)
      /\ ToSet(active_jobs') = ToSet(active_jobs) \cup {current}
      /\ IsInjective(active_jobs) => IsInjective(active_jobs')
  BY <1>2, AppendElements
<1>4. JobTokens[current] \in Int /\ JobQueue[current] \in Queue
  BY <1>2, SchedulerAssumption
<1>5. SchedTypeOK'
  BY <1>1, <1>3, <1>4, SMTT(30) DEF SchedInv, SchedTypeOK, IterInv, InRun
<1>6. ThreadsAgree'
  BY DEF SchedInv, ThreadsAgree, iterVars
<1>7. /\ Starting = {current} /\ Starting' = {} /\ Queued' = Queued
      /\ RunningJobs' = RunningJobs /\ Holders' = Holders
  BY <1>3 DEF Starting, Queued, RunningJobs, Holders, Ending
<1>8. OnePlace'
  BY <1>3, <1>7 DEF SchedInv, OnePlace, iterVars, InRun
<1>9. RunningInPlace' /\ MessageExpected' /\ CurrentOK' /\ MessagesOnce'
  BY <1>3, <1>7 DEF SchedInv, RunningInPlace, MessageExpected, CurrentOK, MessagesOnce, InRun
<1>10. SlotsInv' /\ SlotsDistinct'
  BY <1>7 DEF SchedInv, SlotsInv, SlotsDistinct, InRun
<1>11. WaitInv' /\ InterruptInv'
  BY DEF SchedInv, WaitInv, InterruptInv, InRun, Ready, iterVars
<1>12. QueuedJobsExact'
  BY DEF SchedInv, QueuedJobsExact, Queued, InRun
<1>13. DoneInv'
  BY DEF SchedInv, DoneInv, InRun, iterVars
<1>14. QED
  BY <1>1, <1>5, <1>6, <1>8, <1>9, <1>10, <1>11, <1>12, <1>13 DEF SchedInv

LEMMA LaunchReturnsInv ==
  ASSUME SchedInv, LaunchReturns
  PROVE  SchedInv'
<1> USE DEF LaunchReturns, queueVars, resourceVars, localVars, jobVars
<1>1. IterInv'
  BY StutterInv DEF SchedInv
<1>2. SchedTypeOK'
  BY <1>1 DEF SchedInv, SchedTypeOK, IterInv, InRun
<1>3. ThreadsAgree'
  BY DEF SchedInv, ThreadsAgree, iterVars
<1>4. /\ Starting' = {} /\ Starting = {} /\ Queued' = Queued /\ RunningJobs' = RunningJobs
      /\ Holders' = Holders
  BY DEF Starting, Queued, RunningJobs, Holders, Ending
<1>5. OnePlace'
  BY <1>4 DEF SchedInv, OnePlace, iterVars, InRun
<1>6. RunningInPlace' /\ MessageExpected' /\ CurrentOK' /\ MessagesOnce'
  BY <1>4 DEF SchedInv, RunningInPlace, MessageExpected, CurrentOK, MessagesOnce, InRun
<1>7. SlotsInv' /\ SlotsDistinct'
  BY <1>4 DEF SchedInv, SlotsInv, SlotsDistinct, InRun
<1>8. \A q \in Queue : Launchable(q)' <=> Launchable(q)
  BY DEF Launchable
<1>9. Ready' = Ready
  BY DEF Ready, iterVars
<1>10. WaitInv' /\ InterruptInv'
  BY <1>4, <1>8, <1>9 DEF SchedInv, WaitInv, InterruptInv, InRun
<1>11. QueuedJobsExact'
  BY DEF SchedInv, QueuedJobsExact, Queued, InRun
<1>12. DoneInv'
  BY DEF SchedInv, DoneInv, InRun, iterVars
<1>13. QED
  BY <1>1, <1>2, <1>3, <1>5, <1>6, <1>7, <1>10, <1>11, <1>12 DEF SchedInv


LEMMA WaitTimeoutInv ==
  ASSUME SchedInv, WaitTimeout
  PROVE  SchedInv'
<1> USE DEF WaitTimeout, queueVars, resourceVars, localVars
<1>1. IterInv'
  BY StutterInv DEF SchedInv
<1>2. SchedTypeOK'
  BY <1>1 DEF SchedInv, SchedTypeOK, IterInv
<1>3. ThreadsAgree'
  BY DEF SchedInv, ThreadsAgree, iterVars
<1>4. /\ Starting' = Starting /\ Queued' = Queued /\ RunningJobs' = RunningJobs
      /\ Holders' = Holders
  BY DEF Starting, Queued, RunningJobs, Holders, Ending
<1>5. OnePlace'
  BY <1>4 DEF SchedInv, OnePlace, iterVars
<1>6. RunningInPlace' /\ MessageExpected' /\ CurrentOK' /\ MessagesOnce'
  BY <1>4 DEF SchedInv, RunningInPlace, MessageExpected, CurrentOK, MessagesOnce
<1>7. SlotsInv' /\ SlotsDistinct'
  BY <1>4 DEF SchedInv, SlotsInv, SlotsDistinct
<1>8. WaitInv'
  BY DEF SchedInv, WaitInv, Ready, iterVars, Launchable
<1>9. InterruptInv'
  BY DEF SchedInv, InterruptInv, InRun
<1>10. QueuedJobsExact'
  BY DEF SchedInv, QueuedJobsExact, Queued, InRun
<1>11. DoneInv'
  BY DEF SchedInv, DoneInv, InRun, iterVars
<1>12. QED
  BY <1>1, <1>2, <1>3, <1>5, <1>6, <1>7, <1>8, <1>9, <1>10, <1>11 DEF SchedInv

LEMMA WaitGetInv ==
  ASSUME SchedInv, WaitGet
  PROVE  SchedInv'
<1> USE DEF WaitGet, queueVars, jobVars
<1> DEFINE j == Head(message_queue)
<1>1. IterInv'
  BY StutterInv DEF SchedInv
<1>2. /\ message_queue \in Seq(Vertex)
      /\ message_queue # <<>>
  BY DEF SchedInv, SchedTypeOK
<1>3. /\ message_queue' \in Seq(Vertex)
      /\ j \in Vertex
      /\ j \in ToSet(message_queue)
      /\ ToSet(message_queue') \subseteq ToSet(message_queue)
      /\ IsInjective(message_queue')
      /\ j \notin ToSet(message_queue')
  BY <1>2, TailElements DEF SchedInv, MessagesOnce, InRun
<1>4. /\ pc = "wait" /\ pc' = "collect" /\ current' = j
      /\ slots' = Append(slots, slot[j])
      /\ tokens' = [tokens EXCEPT ![JobQueue[j]] = @ + JobTokens[j]]
      /\ j \in ToSet(active_jobs)
  OBVIOUS
<1> HIDE DEF j
<1>5. slot[j] \in Nat /\ slots \in Seq(Nat)
  BY <1>3 DEF SchedInv, SchedTypeOK
<1>6. /\ slots' \in Seq(Nat)
      /\ ToSet(slots') = ToSet(slots) \cup {slot[j]}
      /\ IsInjective(slots) /\ slot[j] \notin ToSet(slots) => IsInjective(slots')
  BY <1>4, <1>5, AppendElements
<1>7. tokens' \in [Queue -> Int]
  <2>1. /\ tokens \in [Queue -> Int]
        /\ JobQueue[j] \in Queue
        /\ tokens[JobQueue[j]] + JobTokens[j] \in Int
    <3>1. tokens \in [Queue -> Int]
      BY DEF SchedInv, SchedTypeOK
    <3>2. JobQueue[j] \in Queue /\ JobTokens[j] \in Int
      BY <1>3, SchedulerAssumption
    <3>3. QED
      BY <3>1, <3>2
  <2>2. QED
    BY <1>4, <2>1
<1>8. SchedTypeOK'
  BY <1>1, <1>3, <1>4, <1>6, <1>7 DEF SchedInv, SchedTypeOK, IterInv, InRun
<1>9. ThreadsAgree'
  BY DEF SchedInv, ThreadsAgree, iterVars
<1>10. thread[j] = "ended"
  BY <1>3, <1>4 DEF SchedInv, MessageExpected, InRun
<1>11. /\ Starting' = {} /\ Starting = {} /\ Queued' = Queued
       /\ RunningJobs' = RunningJobs
       /\ Holders = ToSet(active_jobs)
       /\ Holders' = Holders \ {j}
  BY <1>4 DEF Starting, Queued, RunningJobs, Holders, Ending
<1>12. OnePlace'
  BY <1>4, <1>11 DEF SchedInv, OnePlace, iterVars, InRun
<1>13. RunningInPlace' /\ MessageExpected'
  BY <1>3, <1>4, <1>11 DEF SchedInv, RunningInPlace, MessageExpected, InRun
<1>14. CurrentOK' /\ MessagesOnce'
  BY <1>3, <1>4, <1>10 DEF CurrentOK, MessagesOnce, InRun
<1>15. SlotsInv' /\ SlotsDistinct'
  <2>1. j \in Holders /\ slot[j] \notin ToSet(slots)
    BY <1>4, <1>11 DEF SchedInv, SlotsInv, InRun
  <2>2. \A k \in Holders' : /\ slot'[k] \notin ToSet(slots')
                            /\ \A l \in Holders' : slot'[k] = slot'[l] => k = l
    BY <1>4, <1>6, <1>11, <2>1 DEF SchedInv, SlotsInv, InRun
  <2>3. RunningJobs' \subseteq Holders'
    BY <1>4, <1>10, <1>11 DEF SchedInv, RunningInPlace, InRun, RunningJobs
  <2>4. QED
    BY <1>6, <2>1, <2>2, <2>3 DEF SchedInv, SlotsInv, SlotsDistinct
<1>16. WaitInv' /\ InterruptInv'
  BY <1>4 DEF SchedInv, WaitInv, InterruptInv, InRun
<1>17. QueuedJobsExact'
  BY DEF SchedInv, QueuedJobsExact, Queued, InRun
<1>18. DoneInv'
  BY DEF SchedInv, DoneInv, InRun, iterVars
<1>19. QED
  BY <1>1, <1>8, <1>9, <1>12, <1>13, <1>14, <1>15, <1>16, <1>17, <1>18 DEF SchedInv

LEMMA CollectInv ==
  ASSUME SchedInv, Collect
  PROVE  SchedInv'
<1> USE DEF Collect, queueVars, resourceVars, jobVars
<1>1. IterInv'
  BY StutterInv DEF SchedInv
<1>2. collected' \in [Vertex -> Nat]
  <2>1. current \in Vertex
    BY SeqElements DEF SchedInv, SchedTypeOK, CurrentOK
  <2>2. collected[current] + 1 \in Nat
    BY <2>1 DEF SchedInv, SchedTypeOK
  <2>3. QED
    BY <2>2 DEF Collected, SchedInv, SchedTypeOK
<1>3. collect_result' \in BOOLEAN /\ pc' \in InRun
  <2>1. PICK again \in BOOLEAN : collect_result' = again
    BY Zenon
  <2>2. QED
    BY <2>1 DEF InRun
<1>4. SchedTypeOK'
  BY <1>1, <1>2, <1>3 DEF SchedInv, SchedTypeOK, IterInv
<1>5. ThreadsAgree'
  BY DEF SchedInv, ThreadsAgree, iterVars
<1>6. /\ Starting' = {} /\ Starting = {} /\ Queued' = Queued /\ RunningJobs' = RunningJobs
      /\ Holders' = Holders
  BY DEF Starting, Queued, RunningJobs, Holders, Ending
<1>7. OnePlace'
  BY <1>6 DEF SchedInv, OnePlace, iterVars, InRun
<1>8. RunningInPlace' /\ MessageExpected' /\ CurrentOK' /\ MessagesOnce'
  BY <1>6 DEF SchedInv, RunningInPlace, MessageExpected, CurrentOK, MessagesOnce, InRun
<1>9. SlotsInv' /\ SlotsDistinct'
  BY <1>6 DEF SchedInv, SlotsInv, SlotsDistinct, InRun
<1>10. WaitInv' /\ InterruptInv'
  BY DEF SchedInv, WaitInv, InterruptInv, InRun
<1>11. QueuedJobsExact'
  BY DEF SchedInv, QueuedJobsExact, Queued, InRun
<1>12. DoneInv'
  <2>1. current \in Vertex
    BY SeqElements DEF SchedInv, SchedTypeOK, CurrentOK
  <2>2. \A k \in Vertex : /\ collected[k] \in Nat
                           /\ collected'[k] = IF k = current THEN collected[k] + 1
                                                             ELSE collected[k]
    BY DEF Collected, SchedInv, SchedTypeOK
  <2>3. \A k \in Vertex : states'[k] = VISITED => collected'[k] > 0
    BY <2>2 DEF SchedInv, DoneInv, iterVars
  <2>4. collected'[current] > 0
    BY <2>1, <2>2
  <2>5. QED
    BY <2>3, <2>4 DEF SchedInv, DoneInv, iterVars
<1>13. QED
  BY <1>1, <1>4, <1>5, <1>7, <1>8, <1>9, <1>10, <1>11, <1>12 DEF SchedInv


LEMMA FinishInv ==
  ASSUME SchedInv, Finish
  PROVE  SchedInv'
<1> USE DEF Finish, resourceVars, localVars, jobVars
<1> DEFINE j == current
<1>1. /\ pc = "finish" /\ pc' = "test" /\ current' = j
      /\ active_jobs \in Seq(Vertex)
      /\ j \in ToSet(active_jobs)
      /\ j \in Vertex
      /\ j \notin ToSet(message_queue)
      /\ thread[j] = "ended"
      /\ IsInjective(active_jobs)
      /\ states[j] = BUSY
      /\ j \notin Queued
  BY SeqElements DEF SchedInv, SchedTypeOK, CurrentOK, OnePlace, InRun
<1>2. /\ active_jobs' \in Seq(Vertex)
      /\ ToSet(active_jobs) = ToSet(active_jobs') \cup {j}
      /\ IsInjective(active_jobs')
      /\ j \notin ToSet(active_jobs')
  BY <1>1, RemoveAtElements
<1> HIDE DEF j
<1>3. /\ IterInv'
      /\ \A k \in Vertex \ {j} : states'[k] = states[k]
      /\ collect_result => states'[j] = BUSY
      /\ ~collect_result => states'[j] = VISITED
  <2>1. CASE collect_result
    <3>1. UNCHANGED iterVars
      BY <2>1
    <3>2. QED
      BY <1>1, <2>1, <3>1, StutterInv DEF SchedInv, iterVars
  <2>2. CASE ~collect_result
    <3>1. Leave(j)
      BY <2>2 DEF j
    <3>2. QED
      BY <1>1, <2>2, <3>1, LeaveInv
         DEF SchedInv, Leave, MarkVisited, IterInv, IterTypeOK
  <2>3. QED
    BY <2>1, <2>2
<1>4. /\ queues' \in [Queue -> Seq(Vertex)]
      /\ queued_jobs' = queued_jobs + (IF collect_result THEN 1 ELSE 0)
      /\ queued_jobs' \in Nat
      /\ \A q \in Queue : /\ IsInjective(queues'[q])
                          /\ \A k \in ToSet(queues'[q]) : JobQueue[k] = q
      /\ Queued' = Queued \cup (IF collect_result THEN {j} ELSE {})
  <2>1. \A q \in Queue : /\ IsInjective(queues[q])
                         /\ j \notin ToSet(queues[q])
                         /\ \A k \in ToSet(queues[q]) : JobQueue[k] = q
    BY <1>1 DEF SchedInv, OnePlace, InRun, Queued
  <2>2. CASE collect_result
    <3>1. Push(j)
      BY <2>2 DEF j
    <3>2. /\ queues' \in [Queue -> Seq(Vertex)]
          /\ queued_jobs' = queued_jobs + 1
         /\ queued_jobs' \in Nat
          /\ \A q \in Queue :
               /\ ToSet(queues'[q]) =
                    ToSet(queues[q]) \cup (IF q = JobQueue[j] THEN {j} ELSE {})
               /\ IsInjective(queues[q]) /\ j \notin ToSet(queues[q])
                    => IsInjective(queues'[q])
      BY <1>1, <3>1, PushPlaces DEF SchedInv
    <3>3. JobQueue[j] \in Queue
      BY <1>1, SchedulerAssumption
    <3>4. Queued' = Queued \cup {j}
      BY <3>2, <3>3 DEF Queued
    <3>5. QED
      BY <2>1, <2>2, <3>2, <3>4
  <2>3. CASE ~collect_result
    <3>1. queues' = queues /\ queued_jobs' = queued_jobs
      BY <2>3 DEF queueVars
    <3>2. QED
      BY <2>1, <2>3, <3>1 DEF Queued, SchedInv, SchedTypeOK
  <2>4. QED
    BY <2>2, <2>3
<1>5. SchedTypeOK'
  <2>1. pc' \in InRun
    BY <1>1 DEF InRun
  <2>2. QED
    BY <1>2, <1>3, <1>4, <2>1 DEF SchedInv, SchedTypeOK, IterInv
<1>6. ThreadsAgree'
  BY <1>1, <1>3, StatesDiffer DEF SchedInv, ThreadsAgree
<1>7. /\ Starting' = {} /\ Starting = {} /\ RunningJobs' = RunningJobs
      /\ Holders = ToSet(active_jobs) \ {j}
      /\ Holders' = Holders
      /\ j \notin RunningJobs
  BY <1>1, <1>2 DEF Starting, RunningJobs, Holders, Ending, j
<1>8. OnePlace'
  <2>1. ASSUME NEW k \in Vertex
        PROVE  states'[k] = BUSY <=> k \in Queued' \cup ToSet(active_jobs')
    <3>1. states[k] = BUSY <=> k \in Queued \cup ToSet(active_jobs)
      BY <1>1, <1>7 DEF SchedInv, OnePlace, InRun
    <3>2. CASE k = j
      BY <1>1, <1>2, <1>3, <1>4, <3>2, StatesDiffer
    <3>3. CASE k # j
      BY <1>2, <1>3, <1>4, <3>1, <3>3
    <3>4. QED
      BY <3>2, <3>3
  <2>2. Queued' \cap ToSet(active_jobs') = {}
    BY <1>1, <1>2, <1>4 DEF SchedInv, OnePlace, InRun
  <2>3. QED
    BY <1>2, <1>4, <1>7, <2>1, <2>2 DEF OnePlace
<1>9. RunningInPlace'
  BY <1>1, <1>2, <1>7 DEF SchedInv, RunningInPlace, InRun
<1>10. MessageExpected'
  BY <1>1, <1>2, <1>7 DEF SchedInv, MessageExpected, InRun
<1>11. CurrentOK' /\ MessagesOnce'
  BY <1>1 DEF SchedInv, CurrentOK, MessagesOnce, InRun
<1>12. SlotsInv' /\ SlotsDistinct'
  BY <1>1, <1>7 DEF SchedInv, SlotsInv, SlotsDistinct, InRun
<1>13. WaitInv' /\ InterruptInv'
  BY <1>1 DEF SchedInv, WaitInv, InterruptInv, InRun
<1>14. QueuedJobsExact'
  <2>1. queued_jobs = Cardinality(Queued)
    BY <1>1 DEF SchedInv, QueuedJobsExact, InRun
  <2>2. IsFiniteSet(Queued) /\ Cardinality(Queued) \in Nat
    BY QueuedFinite DEF SchedInv
  <2>3. CASE collect_result
    BY <1>1, <1>4, <2>1, <2>2, <2>3, FS_AddElement DEF QueuedJobsExact
  <2>4. CASE ~collect_result
    BY <1>4, <2>1, <2>2, <2>4 DEF QueuedJobsExact
  <2>5. QED
    BY <2>3, <2>4
<1>15. DoneInv'
  <2>1. \A k \in Vertex : states'[k] = VISITED => k = j \/ states[k] = VISITED
    BY <1>3
  <2>2. collected[j] > 0
    BY <1>1 DEF SchedInv, DoneInv, j
  <2>3. non_visited' = non_visited
    BY DEF Leave, iterVars
  <2>4. QED
    BY <1>1, <2>1, <2>2, <2>3 DEF SchedInv, DoneInv
<1>16. QED
  BY <1>3, <1>5, <1>6, <1>8, <1>9, <1>10, <1>11, <1>12, <1>13, <1>14, <1>15 DEF SchedInv

LEMMA JobEndInv ==
  ASSUME SchedInv, NEW j \in Vertex, JobEnd(j)
  PROVE  SchedInv'
<1> USE DEF JobEnd, queueVars, resourceVars, localVars
<1>1. IterInv'
  BY StutterInv DEF SchedInv
<1>2. /\ message_queue \in Seq(Vertex)
      /\ thread[j] = "running"
      /\ thread'[j] = "ended"
      /\ \A k \in Vertex \ {j} : thread'[k] = thread[k]
  BY DEF SchedInv, SchedTypeOK
<1>3. /\ message_queue' \in Seq(Vertex)
      /\ ToSet(message_queue') = ToSet(message_queue) \cup {j}
      /\ IsInjective(message_queue) /\ j \notin ToSet(message_queue)
           => IsInjective(message_queue')
  BY <1>2, AppendElements
<1>4. SchedTypeOK'
  BY <1>1, <1>3 DEF SchedInv, SchedTypeOK, IterInv
<1>5. ThreadsAgree'
  BY <1>2 DEF SchedInv, ThreadsAgree, iterVars
<1>6. /\ Starting' = Starting /\ Queued' = Queued /\ Holders' = Holders
      /\ RunningJobs' = RunningJobs \ {j}
      /\ j \in RunningJobs
  BY <1>2 DEF Starting, Queued, RunningJobs, Holders, Ending
<1>7. OnePlace'
  BY <1>6 DEF SchedInv, OnePlace, iterVars
<1>8. RunningInPlace'
  BY <1>6 DEF SchedInv, RunningInPlace
<1>9. pc \in InRun => j \notin ToSet(message_queue) /\ j \in Starting \cup ToSet(active_jobs)
  BY <1>2, <1>6 DEF SchedInv, MessageExpected, RunningInPlace
<1>10. MessageExpected'
  <2>1. ToSet(message_queue) \subseteq Vertex
    BY <1>2, SeqElements
  <2>2. QED
    BY <1>2, <1>3, <1>6, <1>9, <2>1 DEF SchedInv, MessageExpected
<1>11. CurrentOK'
  <2>1. pc \in {"collect", "finish"} => current # j /\ current \in Vertex
    BY <1>2, SeqElements DEF SchedInv, SchedTypeOK, CurrentOK
  <2>2. QED
    BY <1>2, <1>3, <2>1 DEF SchedInv, CurrentOK
<1>12. MessagesOnce'
  BY <1>3, <1>9 DEF SchedInv, MessagesOnce
<1>13. SlotsInv' /\ SlotsDistinct'
  BY <1>6 DEF SchedInv, SlotsInv, SlotsDistinct
<1>14. WaitInv'
  BY DEF SchedInv, WaitInv, Ready, iterVars, Launchable
<1>15. InterruptInv'
  BY <1>6 DEF SchedInv, InterruptInv
<1>16. QueuedJobsExact'
  BY DEF SchedInv, QueuedJobsExact, Queued, InRun
<1>17. DoneInv'
  <2>1. pc # "finished"
    BY <1>6 DEF SchedInv, DoneInv
  <2>2. QED
    BY <2>1 DEF SchedInv, DoneInv, iterVars
<1>18. QED
  BY <1>1, <1>4, <1>5, <1>7, <1>8, <1>10, <1>11, <1>12, <1>13, <1>14, <1>15, <1>16, <1>17 DEF SchedInv

LEMMA KeyboardInterruptInv ==
  ASSUME SchedInv, KeyboardInterrupt
  PROVE  SchedInv'
<1> USE DEF KeyboardInterrupt, queueVars, resourceVars, localVars, jobVars
<1>1. IterInv'
  BY StutterInv DEF SchedInv
<1>2. SchedTypeOK'
  BY <1>1 DEF SchedInv, SchedTypeOK, IterInv
<1>3. ThreadsAgree'
  BY DEF SchedInv, ThreadsAgree, iterVars
<1>4. pc' \notin InRun
  BY PcFacts
<1>5. OnePlace' /\ RunningInPlace' /\ MessageExpected' /\ CurrentOK' /\ MessagesOnce'
  BY <1>4 DEF OnePlace, RunningInPlace, MessageExpected, CurrentOK, MessagesOnce
<1>6. RunningJobs' = RunningJobs
  BY DEF RunningJobs
<1>7. SlotsInv' /\ SlotsDistinct'
  BY <1>4, <1>6 DEF SchedInv, SlotsInv, SlotsDistinct
<1>8. WaitInv'
  BY DEF WaitInv
<1>9. InterruptInv'
  <2>1. RunningJobs \subseteq {current} \cup ToSet(active_jobs)
    BY DEF SchedInv, RunningInPlace, Starting
  <2>2. handled = 0 /\ Len(active_jobs) \in Nat
    BY SeqElements DEF SchedInv, InterruptInv, SchedTypeOK
  <2>3. QED
    BY <1>4, <1>6, <2>1, <2>2 DEF InterruptInv
<1>10. QueuedJobsExact'
  BY DEF SchedInv, QueuedJobsExact, Queued, InRun
<1>11. DoneInv'
  BY DEF SchedInv, DoneInv, InRun, iterVars
<1>12. QED
  BY <1>1, <1>2, <1>3, <1>5, <1>7, <1>8, <1>9, <1>10, <1>11 DEF SchedInv

LEMMA InterruptNextInv ==
  ASSUME SchedInv, InterruptNext
  PROVE  SchedInv'
<1> USE DEF InterruptNext, queueVars, resourceVars
<1> DEFINE j == active_jobs[handled + 1]
<1>1. IterInv'
  BY StutterInv DEF SchedInv
<1>2. /\ active_jobs \in Seq(Vertex)
      /\ Len(active_jobs) \in Nat
      /\ handled \in Nat
      /\ \A i \in 1..Len(active_jobs) : active_jobs[i] \in Vertex
  BY SeqElements DEF SchedInv, SchedTypeOK
<1>3. handled + 1 \in 1..Len(active_jobs) /\ j \in Vertex
  BY <1>2
<1> HIDE DEF j
<1>4. /\ interrupted' = [interrupted EXCEPT ![j] = TRUE]
      /\ collected' = [collected EXCEPT ![j] = @ + 1]
      /\ handled' = handled + 1
  BY DEF Collected, j
<1>5. SchedTypeOK'
  <2>1. /\ interrupted' \in [Vertex -> BOOLEAN]
        /\ collected[j] + 1 \in Nat
        /\ handled' \in Nat
    BY <1>2, <1>3, <1>4, SMTT(30) DEF SchedInv, SchedTypeOK
  <2>2. collected' \in [Vertex -> Nat]
    BY <1>3, <1>4, <2>1 DEF SchedInv, SchedTypeOK
  <2>3. QED
    BY <1>1, <2>1, <2>2 DEF SchedInv, SchedTypeOK, IterInv
<1>6. ThreadsAgree'
  BY DEF SchedInv, ThreadsAgree, iterVars
<1>7. pc \notin InRun /\ pc' = "interrupt"
  BY PcFacts
<1>8. OnePlace' /\ RunningInPlace' /\ MessageExpected' /\ CurrentOK' /\ MessagesOnce'
  BY <1>7 DEF OnePlace, RunningInPlace, MessageExpected, CurrentOK, MessagesOnce
<1>9. RunningJobs' = RunningJobs
  BY DEF RunningJobs
<1>10. SlotsInv' /\ SlotsDistinct'
  BY <1>7, <1>9 DEF SchedInv, SlotsInv, SlotsDistinct
<1>11. WaitInv'
  BY <1>7 DEF WaitInv
<1>12. InterruptInv'
  <2>1. ASSUME NEW i \in 1..handled' PROVE interrupted'[active_jobs[i]]
    <3>1. /\ interrupted \in [Vertex -> BOOLEAN]
          /\ active_jobs[i] \in Vertex
          /\ i = handled + 1 \/ i \in 1..handled
      <4>1. i \in 1..(handled + 1)
        BY <1>4
      <4>2. i \in 1..Len(active_jobs) /\ (i = handled + 1 \/ i \in 1..handled)
        BY <1>2, <1>3, <4>1
      <4>3. QED
        BY <1>2, <4>2 DEF SchedInv, SchedTypeOK
    <3>2. CASE i = handled + 1
      BY <1>3, <1>4, <3>1, <3>2 DEF j
    <3>3. CASE i \in 1..handled
      <4>1. interrupted[active_jobs[i]]
        BY <3>3 DEF SchedInv, InterruptInv
      <4>2. interrupted'[active_jobs[i]] =
              IF active_jobs[i] = j THEN TRUE ELSE interrupted[active_jobs[i]]
        BY <1>4, <3>1, Zenon
      <4>3. QED
        BY <4>1, <4>2, Zenon
    <3>4. QED
      BY <3>1, <3>2, <3>3
  <2>2. handled' <= Len(active_jobs)
    BY <1>2, <1>3, <1>4
  <2>3. QED
    BY <1>7, <1>9, <2>1, <2>2 DEF SchedInv, InterruptInv
<1>13. QueuedJobsExact'
  BY DEF SchedInv, QueuedJobsExact, Queued, InRun
<1>14. DoneInv'
  <2>1. \A k \in Vertex : /\ collected[k] \in Nat
                           /\ collected'[k] = IF k = j THEN collected[k] + 1
                                                       ELSE collected[k]
    BY <1>4 DEF SchedInv, SchedTypeOK
  <2>2. \A k \in Vertex : states'[k] = VISITED => collected'[k] > 0
    BY <2>1 DEF SchedInv, DoneInv, iterVars
  <2>3. QED
    BY <1>7, <2>2 DEF SchedInv, DoneInv, iterVars
<1>15. QED
  BY <1>1, <1>5, <1>6, <1>8, <1>10, <1>11, <1>12, <1>13, <1>14 DEF SchedInv

LEMMA InterruptReturnsInv ==
  ASSUME SchedInv, InterruptReturns
  PROVE  SchedInv'
<1> USE DEF InterruptReturns, queueVars, resourceVars, localVars, jobVars
<1>1. IterInv'
  BY StutterInv DEF SchedInv
<1>2. SchedTypeOK'
  BY <1>1 DEF SchedInv, SchedTypeOK, IterInv
<1>3. ThreadsAgree'
  BY DEF SchedInv, ThreadsAgree, iterVars
<1>4. pc' \notin InRun
  BY PcFacts
<1>5. OnePlace' /\ RunningInPlace' /\ MessageExpected' /\ CurrentOK' /\ MessagesOnce'
  BY <1>4 DEF OnePlace, RunningInPlace, MessageExpected, CurrentOK, MessagesOnce
<1>6. RunningJobs' = RunningJobs
  BY DEF RunningJobs
<1>7. SlotsInv' /\ SlotsDistinct'
  BY <1>4, <1>6 DEF SchedInv, SlotsInv, SlotsDistinct
<1>8. WaitInv' /\ InterruptInv'
  BY <1>4, <1>6 DEF SchedInv, WaitInv, InterruptInv
<1>9. QueuedJobsExact'
  BY DEF SchedInv, QueuedJobsExact, Queued, InRun
<1>10. DoneInv'
  BY DEF SchedInv, DoneInv, InRun, iterVars
<1>11. QED
  BY <1>1, <1>2, <1>3, <1>5, <1>7, <1>8, <1>9, <1>10 DEF SchedInv


LEMMA SchedStutterInv ==
  ASSUME SchedInv, UNCHANGED vars
  PROVE  SchedInv'
<1> USE DEF vars, queueVars, resourceVars, localVars, jobVars
<1>1. IterInv'
  BY StutterInv DEF SchedInv
<1>2. SchedTypeOK'
  BY <1>1 DEF SchedInv, SchedTypeOK, IterInv
<1>3. ThreadsAgree'
  BY DEF SchedInv, ThreadsAgree, iterVars
<1>4. /\ Starting' = Starting /\ Queued' = Queued /\ RunningJobs' = RunningJobs
      /\ Holders' = Holders
  BY DEF Starting, Queued, RunningJobs, Holders, Ending
<1>5. OnePlace'
  BY <1>4 DEF SchedInv, OnePlace, iterVars
<1>6. RunningInPlace' /\ MessageExpected' /\ CurrentOK' /\ MessagesOnce'
  BY <1>4 DEF SchedInv, RunningInPlace, MessageExpected, CurrentOK, MessagesOnce
<1>7. SlotsInv' /\ SlotsDistinct'
  BY <1>4 DEF SchedInv, SlotsInv, SlotsDistinct
<1>8. WaitInv' /\ InterruptInv'
  BY <1>4 DEF SchedInv, WaitInv, Ready, iterVars, Launchable, InterruptInv
<1>9. QueuedJobsExact'
  BY DEF SchedInv, QueuedJobsExact, Queued, InRun
<1>10. DoneInv'
  BY <1>4 DEF SchedInv, DoneInv, iterVars
<1>11. QED
  BY <1>1, <1>2, <1>3, <1>5, <1>6, <1>7, <1>8, <1>9, <1>10 DEF SchedInv

LEMMA SchedStepInv == SchedInv /\ [SchedNext]_vars => SchedInv'
<1> SUFFICES ASSUME SchedInv, [SchedNext]_vars PROVE SchedInv'
  OBVIOUS
<1>1. CASE MainStep
  BY <1>1, TestInv, EnqueueJobInv, EnqueueSkippedInv, EnqueueReturnsInv, StartJobInv,
     AccountInv, LaunchReturnsInv, WaitTimeoutInv, WaitGetInv, CollectInv, FinishInv,
     InterruptNextInv, InterruptReturnsInv DEF MainStep
<1>2. CASE \E j \in Vertex : JobEnd(j)
  BY <1>2, JobEndInv
<1>3. CASE KeyboardInterrupt
  BY <1>3, KeyboardInterruptInv
<1>4. CASE Ended
  BY <1>4, SchedStutterInv DEF Ended
<1>5. CASE UNCHANGED vars
  BY <1>5, SchedStutterInv
<1>6. QED
  BY <1>1, <1>2, <1>3, <1>4, <1>5 DEF SchedNext

LEMMA SchedInvariant == SchedSpec => []SchedInv
BY SchedInitInv, SchedStepInv, PTL DEF SchedSpec

----------------------------------------------------------------------------
(* Tokens and slots: the invariant that says where they are, given SchedInv. *)

TokensInv ==
  /\ tokens \in [Queue -> Nat]
  /\ pc = "started" => JobTokens[current] <= tokens[JobQueue[current]]
  /\ CapacityRespected
  /\ ResourcesConserved

LEMMA NoTokens == \A q : UsedTokens({}, q) = 0
<1>1. \A q : TokensOf({}, q) = {}
  BY DEF TokensOf
<1>2. QED
  BY <1>1, FS_EmptySet DEF UsedTokens

LEMMA HoldersAreJobs ==
  ASSUME SchedInv
  PROVE  /\ ToSet(active_jobs) \subseteq Vertex
         /\ Holders \subseteq Vertex
         /\ Starting \subseteq Vertex
         /\ RunningJobs \subseteq Vertex
<1>1. ToSet(active_jobs) \subseteq Vertex
  BY SeqElements DEF SchedInv, SchedTypeOK
<1>2. Starting \subseteq Vertex
  BY DEF SchedInv, CurrentOK, Starting
<1>3. QED
  BY <1>1, <1>2 DEF Holders, RunningJobs

LEMMA TokensInitInv == SchedInit => TokensInv
<1> SUFFICES ASSUME SchedInit PROVE TokensInv
  OBVIOUS
<1>1. tokens \in [Queue -> Nat] /\ tokens = QueueTokens /\ pc = "test"
  BY SchedulerAssumption DEF SchedInit
<1>2. RunningJobs = {} /\ Holders = {} /\ Starting = {}
  BY DEF SchedInit, RunningJobs, Holders, Starting, Ending, ToSet
<1>3. CapacityRespected
  BY <1>1, <1>2, NoTokens DEF CapacityRespected
<1>4. ToSet(slots) = 0..(NumTokens - 1)
  <2>1. NumTokens \in Nat
    BY NumTokensNat
  <2>2. DOMAIN slots = 1..NumTokens /\ \A i \in 1..NumTokens : slots[i] = i - 1
    BY <2>1 DEF SchedInit
  <2>3. \A n \in 0..(NumTokens - 1) : n + 1 \in 1..NumTokens /\ slots[n + 1] = n
    BY <2>1, <2>2
  <2>4. ASSUME NEW n
        PROVE  n \in ToSet(slots) <=> n \in 0..(NumTokens - 1)
    <3>1. CASE n \in 0..(NumTokens - 1)
      BY <2>2, <2>3, <3>1 DEF ToSet
    <3>2. CASE n \in ToSet(slots)
      <4>1. PICK i \in 1..NumTokens : n = slots[i]
        BY <2>2, <3>2 DEF ToSet
      <4>2. QED
        BY <2>1, <2>2, <3>2, <4>1
    <3>3. QED
      BY <3>1, <3>2
  <2>5. QED
    BY <2>4
<1>5. ResourcesConserved
  <2>1. Holders \ Starting = {} /\ {slot[j] : j \in Holders} = {}
    BY <1>2
  <2>2. \A q \in Queue : tokens[q] + UsedTokens(Holders \ Starting, q) = QueueTokens[q]
    <3> SUFFICES ASSUME NEW q \in Queue
                 PROVE  tokens[q] + UsedTokens(Holders \ Starting, q) = QueueTokens[q]
      OBVIOUS
    <3>1. UsedTokens(Holders \ Starting, q) = 0
      BY <2>1, NoTokens
    <3>2. QED
      BY <1>1, <3>1
  <2>3. QED
    BY <1>4, <2>1, <2>2 DEF ResourcesConserved
<1>6. QED
  BY <1>1, <1>3, <1>5 DEF TokensInv

\* A step that starts no job keeps within the capacities.
LEMMA CapacityKept ==
  ASSUME SchedInv, CapacityRespected, RunningJobs' \subseteq RunningJobs
  PROVE  CapacityRespected'
<1> SUFFICES ASSUME NEW q \in Queue
             PROVE  UsedTokens(RunningJobs', q) <= QueueTokens[q]
  BY DEF CapacityRespected, UsedTokens, TokensOf
<1>1. UsedTokens(RunningJobs', q) <= UsedTokens(RunningJobs, q)
  BY HoldersAreJobs, TokensMonotone
<1>2. /\ UsedTokens(RunningJobs, q) \in Nat
      /\ UsedTokens(RunningJobs', q) \in Nat
      /\ QueueTokens[q] \in Nat
  BY HoldersAreJobs, TokensFinite, SchedulerAssumption
<1>3. QED
  BY <1>1, <1>2 DEF CapacityRespected

\* A step that moves no token and no slot keeps them all.
LEMMA TokensKept ==
  ASSUME SchedInv, TokensInv, UNCHANGED <<tokens, slots, slot>>,
         pc' # "started",
         pc' \in InRun \cup {"finished"} =>
            /\ pc \in InRun \cup {"finished"}
            /\ Holders' = Holders
            /\ Starting = {},
         RunningJobs' \subseteq RunningJobs
  PROVE  TokensInv'
<1>1. CapacityRespected'
  BY CapacityKept DEF TokensInv
<1>2. Starting' = {}
  BY DEF Starting
<1>3. ResourcesConserved'
  <2> SUFFICES ASSUME pc' \in InRun \cup {"finished"}
               PROVE  /\ \A q \in Queue :
                           tokens[q] + UsedTokens(Holders' \ Starting', q) = QueueTokens[q]
                      /\ ToSet(slots) \cup {slot[j] : j \in Holders'} = 0..(NumTokens - 1)
    BY DEF ResourcesConserved, UsedTokens, TokensOf, NumTokens, AllTokens, Queue
  <2>1. Holders' = Holders /\ Starting' = Starting
    BY <1>2
  <2>2. QED
    BY <2>1 DEF TokensInv, ResourcesConserved
<1>4. QED
  BY <1>1, <1>3 DEF TokensInv, Queue
LEMMA StartJobTokens ==
  ASSUME SchedInv, TokensInv, NEW q \in Queue, StartJob(q)
  PROVE  TokensInv'
<1> DEFINE j == Head(queues[q])
           A == ToSet(active_jobs)
<1>1. /\ pc = "launch" /\ pc' = "started" /\ current' = j
      /\ tokens' = tokens /\ active_jobs' = active_jobs
      /\ slots # <<>> /\ slots' = Front(slots)
      /\ slot' = [slot EXCEPT ![j] = Last(slots)]
      /\ thread' = [thread EXCEPT ![j] = "running"]
      /\ JobTokens[j] <= tokens[q]
  BY DEF StartJob, Launchable
<1>2. /\ j \in Vertex
      /\ j \in ToSet(queues[q])
  BY TailElements DEF SchedInv, SchedTypeOK, StartJob, Launchable
<1>3. /\ JobQueue[j] = q
      /\ j \notin A
      /\ RunningJobs \subseteq A
      /\ A \subseteq Vertex
  <2>1. pc \in InRun /\ Starting = {}
    BY <1>1 DEF InRun, Starting
  <2>2. j \in Queued
    BY <1>2 DEF Queued
  <2>3. QED
    BY <1>2, <2>1, <2>2, HoldersAreJobs DEF SchedInv, OnePlace, RunningInPlace
<1>4. /\ ToSet(slots) = ToSet(Front(slots)) \cup {Last(slots)}
      /\ slot'[j] = Last(slots)
      /\ \A k \in A : slot'[k] = slot[k]
  BY <1>1, <1>2, <1>3, FrontElements DEF SchedInv, SchedTypeOK
<1>5. /\ Starting' = {j} /\ Holders' = {j} \cup A /\ Holders' \ Starting' = A
      /\ Starting = {} /\ Holders = A /\ Holders \ Starting = A
      /\ RunningJobs' \subseteq A \cup {j}
  BY <1>1, <1>2, <1>3 DEF Starting, Holders, Ending, RunningJobs, SchedInv, SchedTypeOK
<1> HIDE DEF j, A
<1>6. \A r \in Queue : tokens[r] + UsedTokens(A, r) = QueueTokens[r]
  BY <1>1, <1>5 DEF TokensInv, ResourcesConserved, InRun
<1>7. CapacityRespected'
  <2> SUFFICES ASSUME NEW r \in Queue
               PROVE  UsedTokens(RunningJobs', r) <= QueueTokens[r]
    BY DEF CapacityRespected, UsedTokens, TokensOf, Queue
  <2>1. UsedTokens(RunningJobs', r) <= UsedTokens(A \cup {j}, r)
    BY <1>2, <1>3, <1>5, TokensMonotone
  <2>2. UsedTokens(A \cup {j}, r) =
          UsedTokens(A, r) + (IF JobQueue[j] = r THEN JobTokens[j] ELSE 0)
    BY <1>2, <1>3, TokensAdd
  <2>3. /\ UsedTokens(A, r) \in Nat /\ tokens[r] \in Nat
        /\ UsedTokens(RunningJobs', r) \in Nat
        /\ JobTokens[j] \in Nat /\ QueueTokens[r] \in Nat
    <3>1. RunningJobs' \in SUBSET Vertex
      BY <1>2, <1>3, <1>5
    <3>2. QED
      BY <1>2, <1>3, <3>1, TokensFinite, SchedulerAssumption DEF TokensInv
  <2>4. QED
    BY <1>1, <1>3, <1>6, <2>1, <2>2, <2>3
<1>8. ResourcesConserved'
  <2>1. \A r \in Queue : tokens[r] + UsedTokens(Holders' \ Starting', r) = QueueTokens[r]
    BY <1>5, <1>6
  <2>2. ToSet(slots') \cup {slot'[k] : k \in Holders'}
          = ToSet(slots) \cup {slot[k] : k \in Holders}
    BY <1>1, <1>4, <1>5
  <2>3. ToSet(slots) \cup {slot[k] : k \in Holders} = 0..(NumTokens - 1)
    BY <1>1 DEF TokensInv, ResourcesConserved, InRun
  <2>4. QED
    BY <1>1, <2>1, <2>2, <2>3
       DEF ResourcesConserved, UsedTokens, TokensOf, NumTokens, AllTokens, Queue
<1>9. QED
  BY <1>1, <1>3, <1>7, <1>8 DEF TokensInv, Queue

LEMMA AccountTokens ==
  ASSUME SchedInv, TokensInv, Account
  PROVE  TokensInv'
<1> DEFINE j == current
           A == ToSet(active_jobs)
           q == JobQueue[j]
<1>1. /\ pc = "started" /\ pc' = "launch"
      /\ tokens' = [tokens EXCEPT ![q] = @ - JobTokens[j]]
      /\ active_jobs' = Append(active_jobs, j)
      /\ UNCHANGED <<slots, slot, thread>>
  BY DEF Account, jobVars
<1>2. /\ j \in Vertex /\ q \in Queue /\ JobTokens[j] \in Nat
      /\ j \notin A /\ A \subseteq Vertex
      /\ tokens \in [Queue -> Nat]
      /\ JobTokens[j] <= tokens[q]
  <2>1. j \in Vertex /\ pc \in InRun /\ Starting = {j}
    BY <1>1 DEF SchedInv, CurrentOK, InRun, Starting
  <2>2. q \in Queue /\ JobTokens[j] \in Nat
    BY <2>1, SchedulerAssumption
  <2>3. j \notin A /\ A \subseteq Vertex
    BY <2>1, HoldersAreJobs DEF SchedInv, OnePlace
  <2>4. QED
    BY <1>1, <2>1, <2>2, <2>3 DEF TokensInv
<1>3. ToSet(active_jobs') = A \cup {j}
  BY <1>1, <1>2, AppendElements DEF SchedInv, SchedTypeOK
<1>4. /\ Holders = A \cup {j} /\ Holders \ Starting = A
      /\ Starting' = {} /\ Holders' = A \cup {j} /\ Holders' \ Starting' = A \cup {j}
      /\ RunningJobs' = RunningJobs
  BY <1>1, <1>2, <1>3 DEF Starting, Holders, Ending, RunningJobs
<1> HIDE DEF j, A, q
<1>5. tokens' \in [Queue -> Nat]
  <2>1. tokens[q] - JobTokens[j] \in Nat
    BY <1>2
  <2>2. QED
    BY <1>1, <1>2, <2>1
<1>6. CapacityRespected'
  BY <1>4, CapacityKept DEF TokensInv
<1>7. ResourcesConserved'
  <2>1. ASSUME NEW r \in Queue
        PROVE  tokens'[r] + UsedTokens(A \cup {j}, r) = QueueTokens[r]
    <3>1. tokens[r] + UsedTokens(A, r) = QueueTokens[r]
      BY <1>1, <1>4 DEF TokensInv, ResourcesConserved, InRun
    <3>2. UsedTokens(A \cup {j}, r) =
            UsedTokens(A, r) + (IF q = r THEN JobTokens[j] ELSE 0)
      BY <1>2, TokensAdd DEF q
    <3>3. UsedTokens(A, r) \in Nat
      BY <1>2, TokensFinite
    <3>4. tokens'[r] = IF q = r THEN tokens[r] - JobTokens[j] ELSE tokens[r]
      BY <1>1, <1>2
    <3>5. QED
      BY <1>2, <3>1, <3>2, <3>3, <3>4
  <2>2. ToSet(slots) \cup {slot[k] : k \in Holders} = 0..(NumTokens - 1)
    BY <1>1 DEF TokensInv, ResourcesConserved, InRun
  <2>3. QED
    BY <1>1, <1>4, <2>1, <2>2
       DEF ResourcesConserved, UsedTokens, TokensOf, NumTokens, AllTokens, Queue
<1>8. QED
  BY <1>1, <1>5, <1>6, <1>7 DEF TokensInv, Queue

LEMMA WaitGetTokens ==
  ASSUME SchedInv, TokensInv, WaitGet
  PROVE  TokensInv'
<1> DEFINE j == Head(message_queue)
           A == ToSet(active_jobs)
           q == JobQueue[j]
<1>1. /\ pc = "wait" /\ pc' = "collect" /\ current' = j
      /\ j \in A
      /\ tokens' = [tokens EXCEPT ![q] = @ + JobTokens[j]]
      /\ slots' = Append(slots, slot[j])
      /\ UNCHANGED <<active_jobs, slot, thread>>
  BY DEF WaitGet, jobVars
<1>2. /\ A \subseteq Vertex
      /\ j \in Vertex /\ q \in Queue /\ JobTokens[j] \in Nat
      /\ tokens \in [Queue -> Nat]
      /\ A \ {j} \subseteq Vertex
  BY <1>1, HoldersAreJobs, SchedulerAssumption DEF TokensInv
<1>3. ToSet(slots') = ToSet(slots) \cup {slot[j]}
  <2>1. slots \in Seq(Nat) /\ slot[j] \in Nat
    BY <1>2 DEF SchedInv, SchedTypeOK
  <2>2. QED
    BY <1>1, <2>1, AppendElements
<1>4. /\ Holders = A /\ Holders \ Starting = A
      /\ Starting' = {} /\ Holders' = A \ {j} /\ Holders' \ Starting' = A \ {j}
      /\ RunningJobs' = RunningJobs
  BY <1>1 DEF Starting, Holders, Ending, RunningJobs
<1> HIDE DEF j, A, q
<1>5. tokens' \in [Queue -> Nat]
  BY <1>1, <1>2
<1>6. CapacityRespected'
  BY <1>4, CapacityKept DEF TokensInv
<1>7. ResourcesConserved'
  <2>1. ASSUME NEW r \in Queue
        PROVE  tokens'[r] + UsedTokens(A \ {j}, r) = QueueTokens[r]
    <3>1. tokens[r] + UsedTokens(A, r) = QueueTokens[r]
      BY <1>1, <1>4 DEF TokensInv, ResourcesConserved, InRun
    <3>2. UsedTokens((A \ {j}) \cup {j}, r) =
            UsedTokens(A \ {j}, r) + (IF q = r THEN JobTokens[j] ELSE 0)
      BY <1>2, TokensAdd DEF q
    <3>3. (A \ {j}) \cup {j} = A
      BY <1>1
    <3>4. UsedTokens(A \ {j}, r) \in Nat
      BY <1>2, TokensFinite
    <3>5. tokens'[r] = IF q = r THEN tokens[r] + JobTokens[j] ELSE tokens[r]
      BY <1>1, <1>2
    <3>6. QED
      BY <1>2, <3>1, <3>2, <3>3, <3>4, <3>5
  <2>2. ToSet(slots) \cup {slot[k] : k \in Holders} = 0..(NumTokens - 1)
    BY <1>1 DEF TokensInv, ResourcesConserved, InRun
  <2>3. ToSet(slots') \cup {slot[k] : k \in Holders'}
          = ToSet(slots) \cup {slot[k] : k \in Holders}
    BY <1>1, <1>3, <1>4
  <2>4. QED
    BY <1>1, <1>4, <2>1, <2>2, <2>3
       DEF ResourcesConserved, UsedTokens, TokensOf, NumTokens, AllTokens, Queue
<1>8. QED
  BY <1>1, <1>5, <1>6, <1>7 DEF TokensInv, Queue

LEMMA FinishTokens ==
  ASSUME SchedInv, TokensInv, Finish
  PROVE  TokensInv'
<1>1. /\ pc = "finish" /\ pc' = "test"
      /\ UNCHANGED <<tokens, slots, slot, thread>>
  BY DEF Finish, resourceVars, jobVars
<1>2. PICK i \in DOMAIN active_jobs : /\ active_jobs[i] = current
                                      /\ active_jobs' = RemoveAt(active_jobs, i)
  BY DEF Finish
<1>3. ToSet(active_jobs') = ToSet(active_jobs) \ {current}
  <2>1. active_jobs \in Seq(Vertex) /\ IsInjective(active_jobs)
    BY <1>1 DEF SchedInv, SchedTypeOK, OnePlace, InRun
  <2>2. QED
    BY <1>2, <2>1, RemoveAtElements
<1>4. Holders' = Holders /\ Starting = {} /\ RunningJobs' = RunningJobs
  BY <1>1, <1>3 DEF Holders, Starting, Ending, RunningJobs
<1>5. QED
  BY <1>1, <1>4, TokensKept DEF InRun

LEMMA TokensStepInv == SchedInv /\ TokensInv /\ [SchedNext]_vars => TokensInv'
<1> SUFFICES ASSUME SchedInv, TokensInv, [SchedNext]_vars PROVE TokensInv'
  OBVIOUS
<1> USE DEF resourceVars, jobVars, localVars, queueVars, InRun
<1>1. CASE Test \/ EnqueueReturns \/ LaunchReturns \/ WaitTimeout
  <2>1. /\ UNCHANGED <<tokens, slots, slot, thread, active_jobs>>
        /\ pc \in {"test", "enqueue", "launch", "wait"}
        /\ pc' \in {"test", "enqueue", "launch", "wait", "finished"}
    BY <1>1 DEF Test, EnqueueReturns, LaunchReturns, WaitTimeout
  <2>2. Holders' = Holders /\ Starting = {} /\ RunningJobs' = RunningJobs
    BY <2>1 DEF Holders, Starting, Ending, RunningJobs
  <2>3. QED
    BY <2>1, <2>2, TokensKept
<1>2. CASE \E j \in Vertex : EnqueueJob(j) \/ EnqueueSkipped(j)
  <2>1. /\ UNCHANGED <<tokens, slots, slot, thread, active_jobs>>
        /\ pc = "enqueue" /\ pc' = "enqueue"
    BY <1>2 DEF EnqueueJob, EnqueueSkipped
  <2>2. Holders' = Holders /\ Starting = {} /\ RunningJobs' = RunningJobs
    BY <2>1 DEF Holders, Starting, Ending, RunningJobs
  <2>3. QED
    BY <2>1, <2>2, TokensKept
<1>3. CASE Collect
  <2>1. /\ UNCHANGED <<tokens, slots, slot, thread, active_jobs, current>>
        /\ pc = "collect" /\ pc' = "finish"
    BY <1>3 DEF Collect
  <2>2. Holders' = Holders /\ Starting = {} /\ RunningJobs' = RunningJobs
    BY <2>1 DEF Holders, Starting, Ending, RunningJobs
  <2>3. QED
    BY <2>1, <2>2, TokensKept
<1>4. CASE InterruptNext \/ InterruptReturns \/ KeyboardInterrupt
  <2>1. /\ UNCHANGED <<tokens, slots, slot, thread>>
        /\ pc' \in {"interrupt", "interrupted"}
    BY <1>4 DEF InterruptNext, InterruptReturns, KeyboardInterrupt
  <2>2. RunningJobs' = RunningJobs
    BY <2>1 DEF RunningJobs
  <2>3. QED
    BY <2>1, <2>2, TokensKept
<1>5. CASE \E j \in Vertex : JobEnd(j)
  <2>1. PICK j \in Vertex : JobEnd(j)
    BY <1>5
  <2>2. /\ UNCHANGED <<tokens, slots, slot, active_jobs, current, pc>>
        /\ thread' = [thread EXCEPT ![j] = "ended"]
    BY <2>1 DEF JobEnd
  <2>3. /\ Holders' = Holders /\ Starting' = Starting
        /\ RunningJobs' \subseteq RunningJobs
    BY <2>2 DEF Holders, Starting, Ending, RunningJobs, SchedInv, SchedTypeOK
  <2>4. CapacityRespected'
    BY <2>3, CapacityKept DEF TokensInv
  <2>5. ResourcesConserved'
    BY <2>2, <2>3 DEF TokensInv, ResourcesConserved, UsedTokens, TokensOf, NumTokens,
                      AllTokens, Queue
  <2>6. QED
    BY <2>2, <2>4, <2>5 DEF TokensInv, Queue
<1>6. CASE UNCHANGED vars
  BY <1>6 DEF vars, TokensInv, CapacityRespected, ResourcesConserved, RunningJobs, Holders,
              Starting, Ending, UsedTokens, TokensOf, NumTokens, AllTokens, Queue
<1>7. QED
  BY <1>1, <1>2, <1>3, <1>4, <1>5, <1>6, StartJobTokens, AccountTokens, WaitGetTokens,
     FinishTokens DEF SchedNext, MainStep, Ended

LEMMA TokensInvariant == SchedSpec => []TokensInv
<1>1. SchedInit => TokensInv
  BY TokensInitInv
<1>2. QED
  BY <1>1, SchedInvariant, TokensStepInv, PTL DEF SchedSpec
LEMMA SlotForAll ==
  ASSUME SchedInv, TokensInv
  PROVE  SlotAvailable
<1> SUFFICES ASSUME pc = "launch", NEW q \in Queue, Launchable(q), slots = <<>>
             PROVE  FALSE
  BY DEF SlotAvailable
<1> DEFINE A == ToSet(active_jobs)
           f == [j \in A |-> slot[j]]
<1>1. A \subseteq Vertex /\ Holders = A /\ Holders \ Starting = A
  BY HoldersAreJobs DEF Holders, Starting, Ending
<1>2. /\ \A r \in Queue : tokens[r] + UsedTokens(A, r) = QueueTokens[r]
      /\ ToSet(slots) \cup {slot[j] : j \in A} = 0..(NumTokens - 1)
  BY <1>1 DEF TokensInv, ResourcesConserved, InRun
<1>3. tokens \in [Queue -> Nat] /\ tokens[q] > 0
  <2>1. Head(queues[q]) \in Vertex
    BY TailElements DEF SchedInv, SchedTypeOK, Launchable
  <2>2. JobTokens[Head(queues[q])] \in Nat \ {0}
    BY <2>1, SchedulerAssumption
  <2>3. QED
    BY <2>2 DEF TokensInv, Launchable
<1>4. IsFiniteSet(A) /\ Cardinality(A) < NumTokens
  <2> HIDE DEF A
  <2>1. QED
    BY <1>1, <1>2, <1>3, HoldersFewer
<1>5. {slot[j] : j \in A} = 0..(NumTokens - 1)
  BY <1>2 DEF ToSet
<1>6. f \in Surjection(A, 0..(NumTokens - 1))
  <2>1. f \in [A -> 0..(NumTokens - 1)]
    BY <1>5
  <2>2. \A n \in 0..(NumTokens - 1) : \E j \in A : f[j] = n
    BY <1>5
  <2>3. QED
    BY <2>1, <2>2 DEF Surjection
<1>7. Cardinality(0..(NumTokens - 1)) <= Cardinality(A)
  <2> HIDE DEF f, A
  <2>1. QED
    BY <1>4, <1>6, FS_Surjection
<1>8. NumTokens \in Nat /\ Cardinality(0..(NumTokens - 1)) = NumTokens
  <2>1. NumTokens \in Nat
    BY NumTokensNat
  <2>2. QED
    BY <2>1, FS_Interval
<1>9. QED
  BY <1>4, <1>7, <1>8, FS_CardinalityType

----------------------------------------------------------------------------
(* DagExecution: what a step of the scheduler does to the status of jobs.  *)

\* The jobs that count as running when they are not left yet.
Busy == RunningJobs \cup Starting \cup ToSet(active_jobs)

LEMMA StatusOf ==
  ASSUME SchedInv
  PROVE  \A j \in Vertex :
           /\ ExecStatus[j] = "done" <=> states[j] = VISITED
           /\ ExecStatus[j] = "running" <=> states[j] # VISITED /\ j \in Busy
           /\ ExecStatus[j] \in {"waiting", "running", "done"}
BY DEF ExecStatus, Busy, RunningJobs

\* The status is kept where neither VISITED nor Busy changes.
LEMMA StatusKept ==
  ASSUME NEW j \in Vertex,
         states'[j] = VISITED <=> states[j] = VISITED,
         states[j] # VISITED => (j \in Busy' <=> j \in Busy)
  PROVE  ExecStatus'[j] = ExecStatus[j]
BY DEF ExecStatus, Busy, RunningJobs

\* In its try block run() has all that is busy in active_jobs, but for the job
\* it is starting; and nothing that is busy is left.
LEMMA BusyInRun ==
  ASSUME SchedInv, pc \in InRun
  PROVE  /\ Busy = Starting \cup ToSet(active_jobs)
         /\ \A j \in Busy : j \in Vertex /\ states[j] = BUSY
<1>1. Busy = Starting \cup ToSet(active_jobs)
  BY DEF SchedInv, RunningInPlace, Busy
<1>2. QED
  BY <1>1, HoldersAreJobs DEF SchedInv, OnePlace

StepOrStutter == [Exec!ExecNext]_Exec!execVars

\* At most one job changes its status, as an action of DagExecution says.
LEMMA OneStatus ==
  ASSUME SchedInv, dag' = dag, NEW j \in Vertex,
         \A k \in Vertex \ {j} : ExecStatus'[k] = ExecStatus[k],
         \/ ExecStatus'[j] = ExecStatus[j]
         \/ Exec!Begin(j)
         \/ Exec!Runnable(j) /\ ExecStatus'[j] = "done"
         \/ ExecStatus[j] = "running" /\ ExecStatus'[j] \in {"done", "waiting"}
  PROVE  StepOrStutter
<1>1. /\ ExecStatus = [k \in Vertex |-> ExecStatus[k]]
      /\ ExecStatus' = [k \in Vertex |-> ExecStatus'[k]]
  BY DEF ExecStatus
<1>2. ExecStatus' = [ExecStatus EXCEPT ![j] = ExecStatus'[j]]
  BY <1>1
<1>3. CASE ExecStatus'[j] = ExecStatus[j]
  BY <1>1, <1>3 DEF StepOrStutter, Exec!execVars
<1>4. CASE Exec!Begin(j)
  BY <1>4 DEF StepOrStutter, Exec!ExecNext
<1>5. CASE Exec!Runnable(j) /\ ExecStatus'[j] = "done"
  <2>1. Exec!SkipJob(j)
    BY <1>2, <1>5 DEF Exec!SkipJob
  <2>2. QED
    BY <2>1 DEF StepOrStutter, Exec!ExecNext
<1>6. CASE ExecStatus[j] = "running" /\ ExecStatus'[j] \in {"done", "waiting"}
  <2>1. Exec!Complete(j)
    BY <1>2, <1>6 DEF Exec!Complete
  <2>2. QED
    BY <2>1 DEF StepOrStutter, Exec!ExecNext
<1>7. QED
  BY <1>3, <1>4, <1>5, <1>6
LEMMA NothingShows ==
  ASSUME SchedInv, dag' = dag, Busy' = Busy,
         \A j \in Vertex : states'[j] = VISITED <=> states[j] = VISITED
  PROVE  StepOrStutter
<1>1. \A j \in Vertex : ExecStatus'[j] = ExecStatus[j]
  BY StatusKept
<1>2. /\ ExecStatus = [j \in Vertex |-> ExecStatus[j]]
      /\ ExecStatus' = [j \in Vertex |-> ExecStatus'[j]]
  BY DEF ExecStatus
<1>3. QED
  BY <1>1, <1>2 DEF StepOrStutter, Exec!execVars

LEMMA EnqueueShows ==
  ASSUME SchedInv, NEW j \in Vertex, EnqueueJob(j) \/ EnqueueSkipped(j)
  PROVE  StepOrStutter
<1>1. /\ pc = "enqueue" /\ pc' = "enqueue" /\ dag' = dag
      /\ UNCHANGED <<thread, active_jobs>>
      /\ j \in Ready
  BY DEF EnqueueJob, EnqueueSkipped, NextBusy, NextVisited, jobVars
<1>2. Busy' = Busy
  BY <1>1 DEF Busy, RunningJobs, Starting
<1>3. states[j] = NOT_VISITED /\ \A p \in dag[j] : p \in Vertex /\ states[p] = VISITED
  BY <1>1, ReadyMeansVisited
     DEF SchedInv, IterInv, IterTypeOK, NonVisitedExact, Ready
<1>4. \A k \in Vertex \ {j} : states'[k] = states[k]
  BY DEF EnqueueJob, EnqueueSkipped, NextBusy, NextVisited, MarkVisited, SchedInv, IterInv,
         IterTypeOK
<1>5. CASE EnqueueJob(j)
  <2>1. states'[j] = BUSY
    BY <1>5 DEF EnqueueJob, NextBusy, SchedInv, IterInv, IterTypeOK
  <2>2. QED
    BY <1>1, <1>2, <1>3, <1>4, <2>1, StatesDiffer, NothingShows
<1>6. CASE EnqueueSkipped(j)
  <2>1. states'[j] = VISITED
    BY <1>6 DEF EnqueueSkipped, NextVisited, MarkVisited, SchedInv, IterInv, IterTypeOK
  <2>2. ExecStatus'[j] = "done"
    BY <2>1 DEF ExecStatus
  <2>3. j \notin Busy
    BY <1>1, <1>3, BusyInRun, StatesDiffer DEF InRun
  <2>4. Exec!Runnable(j)
    BY <1>3, <2>3, StatusOf, StatesDiffer DEF Exec!Runnable
  <2>5. \A k \in Vertex \ {j} : ExecStatus'[k] = ExecStatus[k]
    BY <1>2, <1>4, StatusKept
  <2>6. QED
    BY <1>1, <2>2, <2>4, <2>5, OneStatus
<1>7. QED
  BY <1>5, <1>6

(* The two specifications count tokens the same way. *)
LEMMA SameTokens == \A S, qq : Exec!UsedTokens(S, qq) = UsedTokens(S, qq)
<1> SUFFICES ASSUME NEW S, NEW qq
             PROVE  Exec!UsedTokens(S, qq) = UsedTokens(S, qq)
  OBVIOUS
<1>1. Exec!TokensOf(S, qq) = TokensOf(S, qq)
  BY Zenon DEF Exec!TokensOf, TokensOf
<1>2. QED
  BY <1>1, Zenon DEF Exec!UsedTokens, UsedTokens, Exec!Cardinality, Cardinality

LEMMA StartJobShows ==
  ASSUME SchedInv, TokensInv, NEW q \in Queue, StartJob(q)
  PROVE  StepOrStutter
<1> DEFINE j == Head(queues[q])
           A == ToSet(active_jobs)
<1>1. /\ pc = "launch" /\ pc' = "started" /\ current' = j
      /\ UNCHANGED <<dag, states, active_jobs>>
      /\ thread' = [thread EXCEPT ![j] = "running"]
      /\ JobTokens[j] <= tokens[q]
  BY DEF StartJob, Launchable, iterVars
<1>2. /\ j \in Vertex
      /\ j \in ToSet(queues[q])
  BY TailElements DEF SchedInv, SchedTypeOK, StartJob, Launchable
<1>3. /\ JobQueue[j] = q
      /\ j \notin A
      /\ A \subseteq Vertex
      /\ Busy = A
      /\ states[j] = BUSY
  <2>1. pc \in InRun /\ Starting = {}
    BY <1>1 DEF InRun, Starting
  <2>2. j \in Queued
    BY <1>2 DEF Queued
  <2>3. QED
    BY <1>2, <2>1, <2>2, HoldersAreJobs, BusyInRun DEF SchedInv, OnePlace
<1>4. Busy' = A \cup {j}
  BY <1>1, <1>2, <1>3 DEF Busy, RunningJobs, Starting, SchedInv, SchedTypeOK
<1> HIDE DEF j, A
<1>5. Exec!Running = A
  <2>1. \A k \in Vertex : ExecStatus[k] = "running" <=> k \in A
    BY <1>1, <1>3, StatusOf, BusyInRun, StatesDiffer DEF InRun
  <2>2. QED
    BY <1>3, <2>1 DEF Exec!Running
<1>6. Exec!UsedTokens(A \cup {j}, q) <= QueueTokens[q]
  <2>1. Exec!UsedTokens(A \cup {j}, q) = UsedTokens(A \cup {j}, q)
    BY SameTokens
  <2>2. UsedTokens(A \cup {j}, q) = UsedTokens(A, q) + JobTokens[j]
    BY <1>2, <1>3, TokensAdd
  <2>3. tokens[q] + UsedTokens(A, q) = QueueTokens[q]
    <3>1. Holders \ Starting = A
      BY <1>1 DEF Holders, Starting, Ending, A
    <3>2. QED
      BY <1>1, <3>1 DEF TokensInv, ResourcesConserved, InRun
  <2>4. tokens[q] \in Nat /\ JobTokens[j] \in Nat /\ UsedTokens(A, q) \in Nat
    BY <1>2, <1>3, TokensFinite, SchedulerAssumption DEF TokensInv
  <2>5. QED
    BY <1>1, <2>1, <2>2, <2>3, <2>4
<1>7. Exec!Runnable(j)
  <2>1. ExecStatus[j] = "waiting"
    BY <1>2, <1>3, StatusOf, StatesDiffer
  <2>2. \A p \in dag[j] : p \in Vertex /\ states[p] = VISITED
    BY <1>2, <1>3, StatesDiffer DEF SchedInv, IterInv, IterTypeOK, TopologicalOrder
  <2>3. QED
    BY <2>1, <2>2, StatusOf DEF Exec!Runnable
<1>8. \A k \in Vertex \ {j} : ExecStatus'[k] = ExecStatus[k]
  BY <1>1, <1>3, <1>4, StatusKept
<1>9. ExecStatus' = [ExecStatus EXCEPT ![j] = "running"]
  <2>1. ExecStatus'[j] = "running"
    BY <1>1, <1>2, <1>3, <1>4, StatesDiffer DEF ExecStatus, Busy, RunningJobs
  <2>2. /\ ExecStatus = [k \in Vertex |-> ExecStatus[k]]
        /\ ExecStatus' = [k \in Vertex |-> ExecStatus'[k]]
    BY DEF ExecStatus
  <2>3. QED
    BY <1>8, <2>1, <2>2
<1>10. Exec!Begin(j)
  BY <1>1, <1>3, <1>5, <1>6, <1>7, <1>9 DEF Exec!Begin
<1>11. QED
  BY <1>1, <1>2, <1>8, <1>10, OneStatus

LEMMA AccountShows ==
  ASSUME SchedInv, Account
  PROVE  StepOrStutter
<1>1. /\ pc = "started" /\ pc' = "launch"
      /\ active_jobs' = Append(active_jobs, current)
      /\ UNCHANGED <<dag, states, thread>>
  BY DEF Account, jobVars, iterVars
<1>2. ToSet(active_jobs') = ToSet(active_jobs) \cup {current}
  BY <1>1, AppendElements DEF SchedInv, SchedTypeOK, CurrentOK
<1>3. Busy' = Busy
  BY <1>1, <1>2 DEF Busy, RunningJobs, Starting
<1>4. QED
  BY <1>1, <1>3, NothingShows

LEMMA FinishShows ==
  ASSUME SchedInv, Finish
  PROVE  StepOrStutter
<1> DEFINE j == current
<1>1. /\ pc = "finish" /\ pc' = "test" /\ thread' = thread
      /\ dag' = dag
      /\ j \in Vertex /\ j \in ToSet(active_jobs)
      /\ thread[j] = "ended"
      /\ active_jobs \in Seq(Vertex) /\ IsInjective(active_jobs)
  BY HoldersAreJobs
     DEF Finish, jobVars, Leave, iterVars, SchedInv, CurrentOK, SchedTypeOK, OnePlace, InRun
<1>2. PICK i \in DOMAIN active_jobs : /\ active_jobs[i] = j
                                      /\ active_jobs' = RemoveAt(active_jobs, i)
  BY DEF Finish
<1>3. ToSet(active_jobs') = ToSet(active_jobs) \ {j}
  BY <1>1, <1>2, RemoveAtElements
<1>4. Busy' = Busy \ {j} /\ j \in Busy
  BY <1>1, <1>3 DEF Busy, RunningJobs, Starting
<1>5. states[j] = BUSY
  BY <1>1, <1>4, BusyInRun DEF InRun
<1>6. \A k \in Vertex \ {j} : states'[k] = states[k]
  BY <1>1 DEF Finish, Leave, MarkVisited, iterVars, SchedInv, IterInv, IterTypeOK
<1>7. \A k \in Vertex \ {j} : ExecStatus'[k] = ExecStatus[k]
  BY <1>4, <1>6, StatusKept
<1>8. ExecStatus[j] = "running"
  BY <1>1, <1>4, <1>5, StatusOf, StatesDiffer
<1>9. ExecStatus'[j] \in {"done", "waiting"}
  BY <1>1, <1>4 DEF ExecStatus, Busy, RunningJobs
<1>10. QED
  BY <1>1, <1>7, <1>8, <1>9, OneStatus

LEMMA JobEndShows ==
  ASSUME SchedInv, NEW j \in Vertex, JobEnd(j)
  PROVE  StepOrStutter
<1>1. /\ UNCHANGED <<dag, states, active_jobs, pc, current>>
      /\ thread[j] = "running"
      /\ thread' = [thread EXCEPT ![j] = "ended"]
  BY DEF JobEnd, iterVars, localVars
<1>2. \A k \in Vertex \ {j} : k \in Busy' <=> k \in Busy
  BY <1>1 DEF Busy, RunningJobs, Starting, SchedInv, SchedTypeOK
<1>3. \A k \in Vertex \ {j} : ExecStatus'[k] = ExecStatus[k]
  BY <1>1, <1>2, StatusKept
<1>4. ExecStatus[j] = "running"
  <2>1. states[j] # VISITED /\ j \in Busy
    BY <1>1 DEF SchedInv, ThreadsAgree, Busy, RunningJobs
  <2>2. QED
    BY <2>1, StatusOf
<1>5. ExecStatus'[j] \in {"running", "waiting"}
  BY <1>1 DEF ExecStatus, SchedInv, ThreadsAgree
<1>6. QED
  BY <1>1, <1>3, <1>4, <1>5, OneStatus

LEMMA KeyboardInterruptShows ==
  ASSUME SchedInv, KeyboardInterrupt
  PROVE  StepOrStutter
<1>1. /\ UNCHANGED <<dag, states, active_jobs, current, thread>>
      /\ pc \in InRun /\ pc' = "interrupt"
  BY DEF KeyboardInterrupt, iterVars, localVars, jobVars
<1>2. CASE Busy' = Busy
  BY <1>1, <1>2, NothingShows
<1>3. CASE Busy' # Busy
  <2>1. /\ pc = "started"
        /\ Busy' = Busy \ {current} /\ current \in Busy
    BY <1>1, <1>3 DEF Busy, RunningJobs, Starting
  <2>2. current \in Vertex /\ states[current] = BUSY
    BY <1>1, <2>1, BusyInRun
  <2>3. \A k \in Vertex \ {current} : ExecStatus'[k] = ExecStatus[k]
    BY <1>1, <2>1, StatusKept
  <2>4. ExecStatus[current] = "running"
    BY <2>1, <2>2, StatusOf, StatesDiffer
  <2>5. ExecStatus'[current] \in {"done", "waiting"}
    BY <1>1, <2>1, <2>2 DEF ExecStatus, Busy, RunningJobs
  <2>6. QED
    BY <1>1, <2>2, <2>3, <2>4, <2>5, OneStatus
<1>4. QED
  BY <1>2, <1>3

LEMMA StepShows == SchedInv /\ TokensInv /\ [SchedNext]_vars => StepOrStutter
<1> SUFFICES ASSUME SchedInv, TokensInv, [SchedNext]_vars PROVE StepOrStutter
  OBVIOUS
<1>1. CASE \/ Test \/ EnqueueReturns \/ LaunchReturns \/ WaitTimeout \/ WaitGet \/ Collect
           \/ InterruptNext \/ InterruptReturns
  <2>1. /\ UNCHANGED <<dag, states, thread, active_jobs>>
        /\ pc # "started" /\ pc' # "started"
    BY <1>1 DEF Test, EnqueueReturns, LaunchReturns, WaitTimeout, WaitGet, Collect,
                InterruptNext, InterruptReturns, iterVars, jobVars
  <2>2. Busy' = Busy
    BY <2>1 DEF Busy, RunningJobs, Starting
  <2>3. QED
    BY <2>1, <2>2, NothingShows
<1>2. CASE UNCHANGED vars
  <2>1. UNCHANGED <<dag, states, thread, active_jobs, pc, current>>
    BY <1>2 DEF vars, iterVars, jobVars, localVars
  <2>2. Busy' = Busy
    BY <2>1 DEF Busy, RunningJobs, Starting
  <2>3. QED
    BY <2>1, <2>2, NothingShows
<1>3. QED
  BY <1>1, <1>2, EnqueueShows, StartJobShows, AccountShows, FinishShows, JobEndShows,
     KeyboardInterruptShows DEF SchedNext, MainStep, Ended

LEMMA InitShows == SchedInit => Exec!ExecInit
<1> SUFFICES ASSUME SchedInit PROVE Exec!ExecInit
  OBVIOUS
<1>1. dag \in [Vertex -> SUBSET Vertex]
  BY GraphsAssumption DEF SchedInit, IterInit
<1>2. \A j \in Vertex : /\ states[j] = NOT_VISITED
                        /\ thread[j] = "none"
  BY DEF SchedInit, IterInit
<1>3. Starting = {} /\ ToSet(active_jobs) = {}
  BY DEF SchedInit, Starting, ToSet
<1>4. ExecStatus = [j \in Vertex |-> "waiting"]
  BY <1>2, <1>3, StatesDiffer DEF ExecStatus
<1>5. QED
  BY <1>1, <1>4 DEF Exec!ExecInit

----------------------------------------------------------------------------
(* The theorems.                                                           *)

\* Every variable of the scheduler keeps its type.
THEOREM SchedTypeCorrect == SchedSpec => []SchedTypeOK
<1>1. SchedInv => SchedTypeOK
  BY DEF SchedInv
<1>2. QED
  BY <1>1, SchedInvariant, PTL

\* A job runs only after all of its predecessors are through for good, for
\* any graph, queues, requeues, timeouts and Ctrl-C.
THEOREM PrecedenceHolds == SchedSpec => []Precedence
<1>1. SchedInv => Precedence
  <2> SUFFICES ASSUME SchedInv, NEW j \in Vertex, thread[j] # "none", NEW p \in dag[j]
               PROVE  states[p] = VISITED /\ thread[p] # "running"
    BY DEF Precedence
  <2>1. p \in Vertex
    BY DEF SchedInv, IterInv, IterTypeOK
  <2>2. states[p] = VISITED
    BY DEF SchedInv, ThreadsAgree, IterInv, TopologicalOrder
  <2>3. QED
    BY <2>1, <2>2 DEF SchedInv, ThreadsAgree
<1>2. QED
  BY <1>1, SchedInvariant, PTL

\* A job that is not left yet is in one queue, being started, or active, and
\* in one of these places only.
THEOREM OnePlaceHolds == SchedSpec => []OnePlace
<1>1. SchedInv => OnePlace
  BY DEF SchedInv
<1>2. QED
  BY <1>1, SchedInvariant, PTL

\* The counter is_finished relies on is the number of queued jobs, whatever
\* the order of launches, requeues and skips.
THEOREM QueuedJobsExactHolds == SchedSpec => []QueuedJobsExact
<1>1. SchedInv => QueuedJobsExact
  BY DEF SchedInv
<1>2. QED
  BY <1>1, SchedInvariant, PTL

\* When run() returns, all the work is done: no job is left out, and no thread
\* or message survives.
THEOREM FinishedMeansDoneHolds == SchedSpec => []FinishedMeansDone
<1>1. SchedInv => FinishedMeansDone
  <2> SUFFICES ASSUME SchedInv, pc = "finished"
               PROVE  /\ \A j \in Vertex : /\ states[j] = VISITED
                                           /\ collected[j] > 0
                                           /\ thread[j] # "running"
                      /\ message_queue = <<>>
    BY DEF FinishedMeansDone
  <2>1. /\ non_visited = {}
        /\ RunningJobs = {}
        /\ message_queue = <<>>
        /\ \A j \in Vertex : states[j] # BUSY
    BY DEF SchedInv, DoneInv
  <2>2. \A j \in Vertex : states[j] \in {NOT_VISITED, BUSY, VISITED}
    BY DEF SchedInv, SchedTypeOK, IterTypeOK
  <2>3. \A j \in Vertex : states[j] # NOT_VISITED
    BY <2>1 DEF SchedInv, IterInv, NonVisitedExact
  <2>4. \A j \in Vertex : states[j] = VISITED
    BY <2>1, <2>2, <2>3
  <2>5. \A j \in Vertex : collected[j] > 0
    BY <2>4 DEF SchedInv, DoneInv
  <2>6. \A j \in Vertex : thread[j] # "running"
    BY <2>1 DEF RunningJobs
  <2>7. QED
    BY <2>1, <2>4, <2>5, <2>6
<1>2. QED
  BY <1>1, SchedInvariant, PTL

\* wait() always finds the job a message is about.
THEOREM MessageExpectedHolds == SchedSpec => []MessageExpected
<1>1. SchedInv => MessageExpected
  BY DEF SchedInv
<1>2. QED
  BY <1>1, SchedInvariant, PTL

\* The accounts of the scheduler agree at every step.
THEOREM BookkeepingHolds == SchedSpec => []Bookkeeping
BY OnePlaceHolds, QueuedJobsExactHolds, FinishedMeansDoneHolds, MessageExpectedHolds, PTL
   DEF Bookkeeping

\* Two running jobs never have the same slot.
THEOREM SlotsDistinctHolds == SchedSpec => []SlotsDistinct
<1>1. SchedInv => SlotsDistinct
  BY DEF SchedInv
<1>2. QED
  BY <1>1, SchedInvariant, PTL

\* run() never blocks while it could start a job.
THEOREM WorkConservingHolds == SchedSpec => []WorkConserving
<1>1. SchedInv => WorkConserving
  BY DEF SchedInv, WaitInv, WorkConserving
<1>2. QED
  BY <1>1, SchedInvariant, PTL

\* After Ctrl-C all running jobs have been interrupted, but for the one that
\* launch() was starting.
THEOREM InterruptedAllHolds == SchedSpec => []InterruptedAll
<1>1. SchedInv => InterruptedAll
  <2> SUFFICES ASSUME SchedInv, pc = "interrupted", NEW j \in RunningJobs
               PROVE  interrupted[j] \/ (j = current /\ j \notin ToSet(active_jobs))
    BY DEF InterruptedAll
  <2>1. CASE j \in ToSet(active_jobs)
    <3>1. DOMAIN active_jobs = 1..handled
      BY SeqElements DEF SchedInv, SchedTypeOK, InterruptInv
    <3>2. PICK i \in 1..handled : j = active_jobs[i]
      BY <2>1, <3>1 DEF ToSet
    <3>3. interrupted[active_jobs[i]]
      BY DEF SchedInv, InterruptInv
    <3>4. QED
      BY <3>2, <3>3
  <2>2. CASE j \notin ToSet(active_jobs)
    BY <2>2 DEF SchedInv, InterruptInv
  <2>3. QED
    BY <2>1, <2>2
<1>2. QED
  BY <1>1, SchedInvariant, PTL

\* wait() never collects a job whose thread still runs.
THEOREM CollectedAfterEndHolds == SchedSpec => CollectedAfterEnd
<1> DEFINE A == \A j \in Vertex : collected'[j] # collected[j] /\ pc # "interrupt"
                  => thread[j] # "running"
<1>1. SchedInv /\ [SchedNext]_vars => [A]_vars
  <2> SUFFICES ASSUME SchedInv, SchedNext, NEW j \in Vertex,
                      collected'[j] # collected[j], pc # "interrupt"
               PROVE  thread[j] # "running"
    OBVIOUS
  <2>1. collected \in [Vertex -> Nat]
    BY DEF SchedInv, SchedTypeOK
  <2>2. CASE \E k \in Vertex : EnqueueSkipped(k)
    <3>1. PICK k \in Vertex : EnqueueSkipped(k)
      BY <2>2
    <3>2. k = j
      BY <2>1, <3>1 DEF EnqueueSkipped, Collected
    <3>3. states[k] = NOT_VISITED
      BY <3>1 DEF EnqueueSkipped, NextVisited, Ready, SchedInv, IterInv, NonVisitedExact
    <3>4. QED
      BY <3>2, <3>3 DEF SchedInv, ThreadsAgree
  <2>3. CASE Collect
    <3>1. j = current
      BY <2>1, <2>3 DEF Collect, Collected
    <3>2. QED
      BY <2>3, <3>1 DEF Collect, SchedInv, CurrentOK
  <2>4. collected' = collected \/ Collect \/ InterruptNext \/ \E k \in Vertex : EnqueueSkipped(k)
    BY DEF SchedNext, MainStep, Test, EnqueueJob, EnqueueReturns, StartJob, Account,
           LaunchReturns, WaitTimeout, WaitGet, Finish, InterruptReturns, JobEnd,
           KeyboardInterrupt, Ended, vars
  <2>5. QED
    BY <2>2, <2>3, <2>4 DEF InterruptNext
<1>2. QED
  BY <1>1, SchedInvariant, PTL DEF SchedSpec, CollectedAfterEnd

\* The limits of the queues hold, tokens and slots are neither lost nor made,
\* no two running jobs share a slot, and launch() always finds one: for any
\* tokens of jobs and queues, requeues, timeouts and Ctrl-C.
THEOREM ResourcesExactHolds == SchedSpec => []ResourcesExact
<1>1. SchedInv /\ TokensInv => ResourcesExact
  BY SlotForAll DEF SchedInv, TokensInv, ResourcesExact
<1>2. QED
  BY <1>1, SchedInvariant, TokensInvariant, PTL

\* When all jobs fit into their queues, run() can only turn in vain when the
\* graph has a cycle: no job is ever forgotten in a queue, nor BUSY elsewhere.
THEOREM SpinDiagnosedHolds == SchedSpec => []SpinDiagnosed
<1>1. SchedInv /\ TokensInv => SpinDiagnosed
  <2> SUFFICES ASSUME SchedInv, TokensInv, JobsFit, pc = "test", ~is_finished,
                      active_jobs = <<>>, NoneReady \/ all_jobs_queued,
                      \A q \in Queue : ~Launchable(q)
               PROVE  ~Acyclic(dag)
    BY DEF SpinDiagnosed
  <2>1. ToSet(active_jobs) = {} /\ Holders = {} /\ Starting = {} /\ pc \in InRun
    BY PcFacts DEF ToSet, Holders, Starting, InRun
  <2>2. ASSUME NEW q \in Queue PROVE queues[q] = <<>>
    <3> SUFFICES ASSUME queues[q] # <<>>
                 PROVE  FALSE
      OBVIOUS
    <3>1. queues[q] \in Seq(Vertex)
      BY DEF SchedInv, SchedTypeOK
    <3>2. Head(queues[q]) \in ToSet(queues[q]) /\ Head(queues[q]) \in Vertex
      BY <3>1, HeadTailProperties, SeqElements DEF ToSet
    <3>3. JobQueue[Head(queues[q])] = q
      BY <2>1, <3>2 DEF SchedInv, OnePlace
    <3>4. tokens[q] = QueueTokens[q]
      BY <2>1, NoTokens, SchedulerAssumption DEF TokensInv, ResourcesConserved
    <3>5. QED
      BY <3>2, <3>3, <3>4 DEF Launchable, JobsFit
  <2>3. Queued = {}
    BY <2>2 DEF Queued, ToSet
  <2>4. queued_jobs = 0
    BY <2>1, <2>3, FS_EmptySet DEF SchedInv, QueuedJobsExact
  <2>5. NoneReady
    BY <2>4 DEF is_finished
  <2>6. \A j \in Vertex : states[j] # BUSY
    BY <2>1, <2>3 DEF SchedInv, OnePlace
  <2>7. QED
    BY <2>5, <2>6, CycleVerdict DEF SchedInv, CycleDetected, CycleVerdictExact
<1>2. QED
  BY <1>1, SchedInvariant, TokensInvariant, PTL

\* The scheduler implements DagExecution: seen from the owner of the jobs each
\* of its steps begins, skips or completes one job, or nothing happens.
THEOREM SchedulerImplements == SchedSpec => Implements
<1>1. SchedInv /\ TokensInv /\ [SchedNext]_vars => [Exec!ExecNext]_Exec!execVars
  BY StepShows DEF StepOrStutter
<1>2. QED
  BY <1>1, InitShows, SchedInvariant, TokensInvariant, PTL
     DEF SchedSpec, Implements, Exec!ExecSpec

=============================================================================
