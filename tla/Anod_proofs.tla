---------------------------- MODULE Anod_proofs -----------------------------
(***************************************************************************)
(* Theorems about what anod does before it builds, but for its planner.    *)
(*                                                                         *)
(* SpecLoader: the specification of a module that has a class is not       *)
(* executed again, so that the class stays; and the frames above that of   *)
(* the prolog are what asks for a name before the prolog has given all.    *)
(*                                                                         *)
(* Environment: the stack in memory and the files hold the surroundings at *)
(* the saves, and a block whose save is still there finds what it found.   *)
(*                                                                         *)
(* Plans: the stack of a plan has the environments of the blocks the plan  *)
(* is in, each a function of the arguments of those blocks alone, and what *)
(* is recorded for a call is a function of its blocks and its arguments.   *)
(***************************************************************************)
EXTENDS SpecLoader, Environment, Plans, FiniteSetTheorems, SequenceTheorems,
        WellFoundedInduction, TLAPS

----------------------------------------------------------------------------
(* The inductive invariant of the loader.                                  *)

FrameType ==
  [spec : Specs \cup {"prolog"}, text : Seq(PrologStatements), edit : Nat, line : Nat \ {0},
   bases : SUBSET Nat, defined : SUBSET STRING, names : Nat]

LoaderTypeOK ==
  /\ code \in [Specs -> [edit : Nat, text : Codes]]
  /\ checksum \in [Specs -> Nat] /\ module \in [Specs -> Nat]
  /\ \E S : classes \in Seq(S)
  /\ prolog \in Prologs /\ prolog_dict \in Nat
  /\ frames \in Seq(FrameType) /\ failing \in BOOLEAN
  /\ repository \in {"none", "prolog", "ready", "failed"}

\* Only the frame at the bottom may be that of the prolog; the frames below
\* another one are at the statement that asks for its specification.
StackOK ==
  /\ repository \in {"none", "failed"} => frames = <<>>
  /\ repository = "prolog" => frames # <<>> /\ frames[1].text = prolog
  /\ \A k \in 1..Len(frames) :
       /\ frames[k].spec = "prolog" <=> k = 1 /\ repository = "prolog"
       /\ frames[k].spec # "prolog" => frames[k].text \in Codes
       /\ frames[k].line <= Len(frames[k].text) + 1
       /\ k < Len(frames) => /\ frames[k].line <= Len(frames[k].text)
                             /\ frames[k].text[frames[k].line].op \in {"spec", "try"}
  /\ failing => frames # <<>>

NamesBefore(line) == {i \in 1..(line - 1) : prolog[i].op = "name"}

\* prolog_dict has the names of the statements of the prolog that were executed.
NamesOK ==
  /\ repository = "none" => prolog_dict = 0
  /\ repository = "prolog" => prolog_dict = Cardinality(NamesBefore(frames[1].line))
  /\ repository = "ready" => /\ prolog_dict = NamesIn(prolog)
                             /\ \A k \in 1..Len(frames) : frames[k].names = prolog_dict

\* What is executed is not older than the checksum, nor newer than the file.
EditsOK ==
  /\ \A s \in Specs : checksum[s] <= code[s].edit
  /\ \A k \in 1..Len(frames) : frames[k].spec # "prolog" =>
       /\ checksum[frames[k].spec] <= frames[k].edit
       /\ frames[k].edit <= code[frames[k].spec].edit

ClassesOK ==
  /\ repository = "none" => classes = <<>>
  /\ \A i \in 1..Len(classes) :
       /\ classes[i].spec \in Specs /\ classes[i].edit \in Nat
       /\ classes[i].spec_checksum = checksum[classes[i].spec]
       /\ checksum[classes[i].spec] <= classes[i].edit
       /\ classes[i].edit <= code[classes[i].spec].edit
       /\ classes[i].names = NamesIn(prolog) \/ classes[i].in_prolog
       /\ classes[i].bases \subseteq 1..(i - 1)

\* The class of a module is its only one, and is there when the module is not
\* under execution any more, unless it was executed inside itself.
MadeOK ==
  /\ \A s \in Specs : module[s] # 0 => /\ module[s] \in 1..Len(classes)
                                       /\ classes[module[s]].spec = s
  /\ \A i \in 1..Len(classes) : classes[i].spec \notin circular => module[classes[i].spec] = i
  /\ \A k \in 1..Len(frames) : \A j \in 1..(k - 1) :
       frames[j].spec = frames[k].spec => frames[k].spec \in circular
  /\ \A k \in 1..Len(frames) :
       frames[k].spec \in Specs \ circular => module[frames[k].spec] = 0
  /\ \A k \in 1..Len(frames) : frames[k].bases \subseteq 1..Len(classes)

AnswerOK ==
  /\ repository \in {"none", "prolog"} => answer = 0
  /\ frames = <<>> /\ answer # 0 =>
       answer \in 1..Len(classes) /\ module[classes[answer].spec] = answer

LoaderInv == LoaderTypeOK /\ StackOK /\ NamesOK /\ EditsOK /\ ClassesOK /\ MadeOK
             /\ AnswerOK

LEMMA LoaderInitInv == LoaderInit => LoaderInv
<1> SUFFICES ASSUME LoaderInit PROVE LoaderInv OBVIOUS
<1>1. /\ \A s \in Specs : code[s] \in [edit : {0}, text : Codes] /\ checksum[s] = 0
                          /\ module[s] = 0
      /\ code \in [Specs -> [edit : Nat, text : Codes]]
      /\ checksum \in [Specs -> Nat] /\ module \in [Specs -> Nat]
      /\ classes = <<>> /\ frames = <<>> /\ Len(classes) = 0 /\ Len(frames) = 0
      /\ prolog \in Prologs /\ prolog_dict = 0 /\ failing = FALSE /\ repository = "none"
      /\ answer = 0
  BY DEF LoaderInit
<1>2. classes \in Seq({}) /\ frames \in Seq(FrameType) BY <1>1
<1>3. LoaderTypeOK BY <1>1, <1>2 DEF LoaderTypeOK
<1>4. StackOK /\ AnswerOK BY <1>1 DEF StackOK, AnswerOK
<1>5. NamesOK BY <1>1 DEF NamesOK
<1>6. EditsOK /\ ClassesOK
  <2>1. \A s \in Specs : checksum[s] <= code[s].edit BY <1>1
  <2>2. QED BY <1>1, <2>1 DEF EditsOK, ClassesOK
<1>7. MadeOK BY <1>1 DEF MadeOK
<1>8. QED BY <1>3, <1>4, <1>5, <1>6, <1>7 DEF LoaderInv

LEMMA LoaderRight == LoaderInv => LoadedRight
<1> SUFFICES ASSUME LoaderInv PROVE LoadedRight OBVIOUS
<1> USE DEF LoaderInv
<1>1. DOMAIN classes = 1..Len(classes) /\ Len(classes) \in Nat BY DEF LoaderTypeOK
<1>2. ASSUME NEW s \in Specs \ circular PROVE Cardinality(Made(s)) <= 1
  <2>1. Made(s) \subseteq {module[s]} BY <1>1 DEF Made, MadeOK
  <2>2. Cardinality({module[s]}) = 1 /\ IsFiniteSet({module[s]}) BY FS_Singleton
  <2>3. QED BY <2>1, <2>2, FS_Subset, FS_CardinalityType
<1>3. ASSUME NEW i \in DOMAIN classes
      PROVE  /\ \A b \in classes[i].bases :
                  b < i /\ (classes[b].spec \notin circular => module[classes[b].spec] = b)
             /\ classes[i].names = NamesIn(prolog) \/ classes[i].in_prolog
             /\ classes[i].edit = classes[i].spec_checksum
                \/ code[classes[i].spec].edit > checksum[classes[i].spec]
  <2>1. i \in 1..Len(classes) BY <1>1
  <2>2. \A b \in classes[i].bases :
          b < i /\ (classes[b].spec \notin circular => module[classes[b].spec] = b)
    BY <1>1, <2>1 DEF MadeOK, ClassesOK
  <2>3. classes[i].names = NamesIn(prolog) \/ classes[i].in_prolog BY <2>1 DEF ClassesOK
  <2>4. classes[i].edit = classes[i].spec_checksum
        \/ code[classes[i].spec].edit > checksum[classes[i].spec]
    <3>1. /\ classes[i].spec \in Specs /\ classes[i].edit \in Nat
          /\ classes[i].spec_checksum = checksum[classes[i].spec]
          /\ checksum[classes[i].spec] <= classes[i].edit
          /\ classes[i].edit <= code[classes[i].spec].edit
      BY <2>1 DEF ClassesOK
    <3>2. checksum[classes[i].spec] \in Nat /\ code[classes[i].spec].edit \in Nat
      BY <3>1 DEF LoaderTypeOK
    <3>3. QED BY <3>1, <3>2
  <2>5. QED BY <2>2, <2>3, <2>4
<1>4. frames = <<>> /\ repository = "ready" /\ answer # 0 => module[classes[answer].spec] = answer
  BY DEF AnswerOK
<1>5. QED BY <1>2, <1>3, <1>4 DEF LoadedRight

----------------------------------------------------------------------------
(* What a step does to the stack of frames.                                *)

\* The frames above m are gone, the code of m goes on with the next statement.
Advanced(fs, gs, m, B) ==
  /\ gs \in Seq(FrameType) /\ Len(gs) = m
  /\ \A k \in 1..m :
       /\ gs[k].spec = fs[k].spec /\ gs[k].text = fs[k].text
       /\ gs[k].edit = fs[k].edit /\ gs[k].names = fs[k].names
       /\ gs[k].line = IF k = m THEN fs[k].line + 1 ELSE fs[k].line
       /\ gs[k].bases \subseteq IF k = m THEN fs[k].bases \cup B ELSE fs[k].bases

LEMMA NextLineAdvances ==
  ASSUME NEW fs \in Seq(FrameType), fs # <<>>
  PROVE  Advanced(fs, NextLine(fs), Len(fs), {})
<1> DEFINE n == Len(fs)
           e == [fs[n] EXCEPT !.line = @ + 1]
<1>1. n \in 1..n /\ fs[n] \in FrameType OBVIOUS
<1>2. e \in FrameType /\ e.line = fs[n].line + 1 /\ e.spec = fs[n].spec /\ e.text = fs[n].text
      /\ e.edit = fs[n].edit /\ e.names = fs[n].names /\ e.bases = fs[n].bases
  <2>1. fs[n].line \in Nat \ {0} BY <1>1 DEF FrameType
  <2>2. fs[n].line + 1 \in Nat \ {0} BY <2>1
  <2>3. \A f \in FrameType, l \in Nat \ {0} :
          /\ [f EXCEPT !.line = l] \in FrameType /\ [f EXCEPT !.line = l].line = l
          /\ [f EXCEPT !.line = l].spec = f.spec /\ [f EXCEPT !.line = l].text = f.text
          /\ [f EXCEPT !.line = l].edit = f.edit /\ [f EXCEPT !.line = l].names = f.names
          /\ [f EXCEPT !.line = l].bases = f.bases
    BY DEF FrameType
  <2>4. e = [fs[n] EXCEPT !.line = fs[n].line + 1] OBVIOUS
  <2>5. QED BY <1>1, <2>2, <2>3, <2>4
<1>3. NextLine(fs) = [fs EXCEPT ![n] = e] BY DEF NextLine
<1> HIDE DEF e
<1>4. /\ [fs EXCEPT ![n] = e] \in Seq(FrameType) /\ Len([fs EXCEPT ![n] = e]) = n
      /\ \A k \in 1..n : [fs EXCEPT ![n] = e][k] = IF k = n THEN e ELSE fs[k]
  BY <1>1, <1>2, ExceptSeq
<1>5. QED BY <1>2, <1>3, <1>4 DEF Advanced

LEMMA BasesAdvance ==
  ASSUME NEW fs \in Seq(FrameType), fs # <<>>, NEW B \in SUBSET Nat
  PROVE  Advanced(fs, NextLine([fs EXCEPT ![Len(fs)].bases = @ \cup B]), Len(fs), B)
<1> DEFINE n == Len(fs)
           e == [fs[n] EXCEPT !.bases = @ \cup B]
           gs == [fs EXCEPT ![n] = e]
<1>1. n \in 1..n /\ fs[n] \in FrameType OBVIOUS
<1>2. e \in FrameType /\ e.line = fs[n].line /\ e.spec = fs[n].spec /\ e.text = fs[n].text
      /\ e.edit = fs[n].edit /\ e.names = fs[n].names /\ e.bases = fs[n].bases \cup B
  BY <1>1 DEF FrameType
<1>3. [fs EXCEPT ![Len(fs)].bases = @ \cup B] = gs OBVIOUS
<1> HIDE DEF e
<1>4. gs \in Seq(FrameType) /\ Len(gs) = n
      /\ \A k \in 1..n : gs[k] = IF k = n THEN e ELSE fs[k]
  BY <1>1, <1>2, ExceptSeq
<1> HIDE DEF gs
<1>5. Advanced(gs, NextLine(gs), n, {})
  <2>1. gs # <<>> BY <1>1, <1>4
  <2>2. QED BY <1>4, <2>1, NextLineAdvances
<1>6. QED
  <2> DEFINE hs == NextLine(gs)
  <2> HIDE DEF hs
  <2>1. ASSUME NEW k \in 1..n
        PROVE  /\ hs[k].spec = fs[k].spec /\ hs[k].text = fs[k].text
               /\ hs[k].edit = fs[k].edit /\ hs[k].names = fs[k].names
               /\ hs[k].line = IF k = n THEN fs[k].line + 1 ELSE fs[k].line
               /\ hs[k].bases \subseteq IF k = n THEN fs[k].bases \cup B ELSE fs[k].bases
    BY <1>2, <1>4, <1>5 DEF Advanced, hs
  <2>2. hs \in Seq(FrameType) /\ Len(hs) = n BY <1>5 DEF Advanced, hs
  <2>3. Advanced(fs, hs, n, B) BY <2>1, <2>2 DEF Advanced
  <2>4. QED BY <1>3, <2>3 DEF hs

LEMMA DefinedAdvance ==
  ASSUME NEW fs \in Seq(FrameType), fs # <<>>, NEW D \in SUBSET STRING
  PROVE  Advanced(fs, NextLine([fs EXCEPT ![Len(fs)].defined = @ \cup D]), Len(fs), {})
<1> DEFINE n == Len(fs)
           e == [fs[n] EXCEPT !.defined = @ \cup D]
           gs == [fs EXCEPT ![n] = e]
<1>1. n \in 1..n /\ fs[n] \in FrameType OBVIOUS
<1>2. e \in FrameType /\ e.line = fs[n].line /\ e.spec = fs[n].spec /\ e.text = fs[n].text
      /\ e.edit = fs[n].edit /\ e.names = fs[n].names /\ e.bases = fs[n].bases
  BY <1>1 DEF FrameType
<1>3. [fs EXCEPT ![Len(fs)].defined = @ \cup D] = gs OBVIOUS
<1> HIDE DEF e
<1>4. gs \in Seq(FrameType) /\ Len(gs) = n
      /\ \A k \in 1..n : gs[k] = IF k = n THEN e ELSE fs[k]
  BY <1>1, <1>2, ExceptSeq
<1> HIDE DEF gs
<1>5. Advanced(gs, NextLine(gs), n, {})
  <2>1. gs # <<>> BY <1>1, <1>4
  <2>2. QED BY <1>4, <2>1, NextLineAdvances
<1>6. QED
  <2> DEFINE hs == NextLine(gs)
  <2> HIDE DEF hs
  <2>1. ASSUME NEW k \in 1..n
        PROVE  /\ hs[k].spec = fs[k].spec /\ hs[k].text = fs[k].text
               /\ hs[k].edit = fs[k].edit /\ hs[k].names = fs[k].names
               /\ hs[k].line = IF k = n THEN fs[k].line + 1 ELSE fs[k].line
               /\ hs[k].bases \subseteq IF k = n THEN fs[k].bases \cup {} ELSE fs[k].bases
    BY <1>2, <1>4, <1>5 DEF Advanced, hs
  <2>2. hs \in Seq(FrameType) /\ Len(hs) = n BY <1>5 DEF Advanced, hs
  <2>3. Advanced(fs, hs, n, {}) BY <2>1, <2>2 DEF Advanced
  <2>4. QED BY <1>3, <2>3 DEF hs

LEMMA FrontFacts ==
  ASSUME NEW fs \in Seq(FrameType), fs # <<>>
  PROVE  /\ Front(fs) \in Seq(FrameType) /\ Len(Front(fs)) = Len(fs) - 1
         /\ \A k \in 1..(Len(fs) - 1) : Front(fs)[k] = fs[k]
         /\ Front(fs) = <<>> <=> Len(fs) = 1
<1> DEFINE n == Len(fs) - 1
<1>1. n \in Nat /\ Len(fs) = n + 1 /\ \A k \in 1..n : k \in 1..Len(fs) OBVIOUS
<1> HIDE DEF n
<1>2. \A k \in 1..n : fs[k] \in FrameType BY <1>1
<1>3. /\ SubSeq(fs, 1, n) \in Seq(FrameType)
      /\ Len(SubSeq(fs, 1, n)) = IF 1 <= n THEN n - 1 + 1 ELSE 0
      /\ \A k \in 1..(n - 1 + 1) : SubSeq(fs, 1, n)[k] = fs[1 + k - 1]
  BY <1>1, <1>2, SubSeqProperties
<1>4. n - 1 + 1 = n /\ \A k \in 1..n : 1 + k - 1 = k BY <1>1
<1>5. Len(SubSeq(fs, 1, n)) = n BY <1>1, <1>3
<1>6. \A k \in 1..n : SubSeq(fs, 1, n)[k] = fs[k] BY <1>3, <1>4
<1>7. Front(fs) = SubSeq(fs, 1, n) BY DEF Front, n
<1>8. Front(fs) = <<>> <=> Len(fs) = 1 BY <1>1, <1>3, <1>5, <1>7
<1>9. QED BY <1>3, <1>5, <1>6, <1>7, <1>8 DEF n

\* The frames of the stack, when it shrinks to m and goes on.
LEMMA AdvancedStack ==
  ASSUME LoaderTypeOK, StackOK, NEW m \in 1..Len(frames), NEW B,
         Advanced(frames, frames', m, B), frames[m].line <= Len(frames[m].text),
         ~failing', repository' = repository, prolog' = prolog
  PROVE  StackOK'
<1>1. /\ frames' \in Seq(FrameType) /\ Len(frames') = m /\ Len(frames) \in Nat
      /\ \A k \in 1..m : k \in 1..Len(frames)
  BY DEF Advanced, LoaderTypeOK
<1>2. /\ frames' # <<>> /\ frames # <<>> /\ 1 \in 1..m BY <1>1
<1>3. repository \notin {"none", "failed"} BY <1>2 DEF StackOK
<1>4. repository = "prolog" => frames'[1].text = prolog
  BY <1>2 DEF Advanced, StackOK
<1>5. ASSUME NEW k \in 1..m
      PROVE  /\ frames'[k].spec = "prolog" <=> k = 1 /\ repository = "prolog"
             /\ frames'[k].spec # "prolog" => frames'[k].text \in Codes
             /\ frames'[k].line <= Len(frames'[k].text) + 1
             /\ k < m => /\ frames'[k].line <= Len(frames'[k].text)
                         /\ frames'[k].text[frames'[k].line].op \in {"spec", "try"}
  <2>1. /\ frames[k].spec = "prolog" <=> k = 1 /\ repository = "prolog"
        /\ frames[k].spec # "prolog" => frames[k].text \in Codes
        /\ k < Len(frames) => /\ frames[k].line <= Len(frames[k].text)
                              /\ frames[k].text[frames[k].line].op \in {"spec", "try"}
    BY <1>1 DEF StackOK
  <2>2. /\ frames'[k].spec = frames[k].spec /\ frames'[k].text = frames[k].text
        /\ frames'[k].line = IF k = m THEN frames[k].line + 1 ELSE frames[k].line
    BY DEF Advanced
  <2>3. frames[k] \in FrameType BY <1>1 DEF LoaderTypeOK
  <2>4. frames[k].line \in Nat /\ Len(frames[k].text) \in Nat BY <2>3 DEF FrameType
  <2>5. CASE k = m BY <2>1, <2>2, <2>4, <2>5
  <2>6. CASE k # m BY <1>1, <2>1, <2>2, <2>4, <2>6
  <2>7. QED BY <2>5, <2>6
<1>6. QED BY <1>1, <1>2, <1>3, <1>4, <1>5 DEF StackOK

\* The names of the prolog, when one more statement was executed.
LEMMA AdvancedNames ==
  ASSUME LoaderTypeOK, StackOK, NamesOK, NEW m \in 1..Len(frames), NEW B,
         Advanced(frames, frames', m, B), frames[m].line <= Len(frames[m].text),
         prolog_dict' = IF frames[m].text[frames[m].line].op = "name"
                        THEN prolog_dict + 1 ELSE prolog_dict,
         repository' = repository, prolog' = prolog
  PROVE  NamesOK'
<1>1. /\ Len(frames') = m /\ Len(frames) \in Nat /\ frames # <<>>
      /\ \A k \in 1..m : k \in 1..Len(frames)
      /\ 1 \in 1..m /\ 1 \in 1..Len(frames) /\ \A k \in 1..Len(frames) : frames[k] \in FrameType
      /\ prolog \in Seq(PrologStatements)
  BY LoaderAssumption DEF Advanced, LoaderTypeOK
<1>2. repository \in {"prolog", "ready"} BY <1>1 DEF StackOK, LoaderTypeOK
<1>3. \A line : NamesBefore(line)' = NamesBefore(line) BY DEF NamesBefore
<1>4. CASE repository = "prolog"
  <2> DEFINE l == frames[1].line
  <2>1. l \in Nat \ {0} /\ frames[1].text = prolog BY <1>1, <1>4 DEF StackOK, FrameType
  <2>2. prolog_dict = Cardinality(NamesBefore(l)) BY <1>4 DEF NamesOK
  <2>3. IsFiniteSet(NamesBefore(l))
    <3>1. l - 1 \in Int BY <2>1
    <3> HIDE DEF l
    <3>2. NamesBefore(l) \subseteq 1..(l - 1) BY DEF NamesBefore
    <3>3. IsFiniteSet(1..(l - 1)) BY <3>1, FS_Interval
    <3>4. QED BY <3>2, <3>3, FS_Subset
  <2> HIDE DEF l
  <2>4. \A i : i \in 1..((l + 1) - 1) <=> i \in 1..(l - 1) \/ i = l BY <2>1
  <2>5. l \notin NamesBefore(l) BY <2>1 DEF NamesBefore
  <2>6. NamesBefore(l + 1)
          = IF prolog[l].op = "name" THEN NamesBefore(l) \cup {l} ELSE NamesBefore(l)
    BY <2>4 DEF NamesBefore
  <2>7. Cardinality(NamesBefore(l + 1))
          = IF prolog[l].op = "name" THEN prolog_dict + 1 ELSE prolog_dict
    BY <2>2, <2>3, <2>5, <2>6, FS_AddElement
  <2>8. prolog_dict' = Cardinality(NamesBefore(frames'[1].line))
    <3>1. CASE m = 1
      <4>1. frames'[1].line = l + 1 BY <1>1, <3>1 DEF Advanced, l
      <4>2. QED BY <2>1, <2>7, <3>1, <4>1 DEF l
    <3>2. CASE m # 1
      <4>1. frames'[1].line = l BY <1>1, <3>2 DEF Advanced, l
      <4>2. frames[m].spec # "prolog" /\ frames[m].text \in Codes BY <3>2 DEF StackOK
      <4>3. frames[m].text[frames[m].line].op # "name"
        <5>1. frames[m].text \in Seq(CodeStatements) BY <4>2, LoaderAssumption
        <5>2. frames[m].line \in 1..Len(frames[m].text) BY <1>1 DEF FrameType
        <5>3. frames[m].text[frames[m].line] \in CodeStatements BY <5>1, <5>2
        <5>4. QED BY <5>3 DEF CodeStatements
      <4>4. QED BY <2>2, <4>1, <4>3
    <3>3. QED BY <3>1, <3>2
  <2>9. QED BY <1>3, <1>4, <2>8 DEF NamesOK
<1>5. CASE repository = "ready"
  <2>1. frames[m].spec # "prolog" /\ frames[m].text \in Codes BY <1>5 DEF StackOK
  <2>2. frames[m].text[frames[m].line].op # "name"
    <3>1. frames[m].text \in Seq(CodeStatements) BY <2>1, LoaderAssumption
    <3>2. frames[m].line \in 1..Len(frames[m].text) BY <1>1 DEF FrameType
    <3>3. frames[m].text[frames[m].line] \in CodeStatements BY <3>1, <3>2
    <3>4. QED BY <3>3 DEF CodeStatements
  <2>3. prolog_dict' = prolog_dict BY <2>2
  <2>4. \A k \in 1..m : frames'[k].names = prolog_dict BY <1>1, <1>5 DEF Advanced, NamesOK
  <2>5. NamesIn(prolog') = NamesIn(prolog) OBVIOUS
  <2>6. QED BY <1>1, <1>5, <2>3, <2>4, <2>5 DEF NamesOK, NamesIn
<1>6. QED BY <1>2, <1>4, <1>5

LEMMA AdvancedEdits ==
  ASSUME LoaderTypeOK, EditsOK, NEW m \in 1..Len(frames), NEW B,
         Advanced(frames, frames', m, B), code' = code, checksum' = checksum
  PROVE  EditsOK'
<1>1. Len(frames') = m /\ \A k \in 1..m : k \in 1..Len(frames) BY DEF Advanced, LoaderTypeOK
<1>2. \A k \in 1..m : frames'[k].spec = frames[k].spec /\ frames'[k].edit = frames[k].edit
  BY DEF Advanced
<1>3. QED BY <1>1, <1>2 DEF EditsOK

LEMMA AdvancedMade ==
  ASSUME LoaderTypeOK, MadeOK, NEW m \in 1..Len(frames), NEW B, B \subseteq 1..Len(classes),
         Advanced(frames, frames', m, B), UNCHANGED <<module, classes, circular>>
  PROVE  MadeOK'
<1>1. Len(frames') = m /\ \A k \in 1..m : k \in 1..Len(frames) BY DEF Advanced, LoaderTypeOK
<1>2. \A k \in 1..m : /\ frames'[k].spec = frames[k].spec
                      /\ frames'[k].bases \subseteq 1..Len(classes)
  BY <1>1 DEF Advanced, MadeOK
<1>3. \A k \in 1..m : \A j \in 1..(k - 1) :
        frames'[j].spec = frames'[k].spec => frames'[k].spec \in circular
  <2> SUFFICES ASSUME NEW k \in 1..m, NEW j \in 1..(k - 1), frames'[j].spec = frames'[k].spec
               PROVE  frames'[k].spec \in circular
    OBVIOUS
  <2>1. j \in 1..m BY <1>1
  <2>2. QED BY <1>1, <1>2, <2>1 DEF MadeOK
<1>4. QED BY <1>1, <1>2, <1>3 DEF MadeOK

\* The code of frame m goes on, and no class was made.
LEMMA GoOnStep ==
  ASSUME LoaderInv, NEW m \in 1..Len(frames), NEW B, B \subseteq 1..Len(classes),
         Advanced(frames, frames', m, B), frames[m].line <= Len(frames[m].text),
         failing' = FALSE, prolog_dict' \in Nat,
         prolog_dict' = IF frames[m].text[frames[m].line].op = "name"
                        THEN prolog_dict + 1 ELSE prolog_dict,
         UNCHANGED <<code, checksum, module, classes, prolog, repository, answer, circular>>
  PROVE  LoaderInv'
<1> USE DEF LoaderInv
<1>1. frames' \in Seq(FrameType) /\ frames' # <<>> BY DEF Advanced
<1>2. LoaderTypeOK' BY <1>1 DEF LoaderTypeOK
<1>3. StackOK' BY AdvancedStack
<1>4. NamesOK' BY AdvancedNames
<1>5. EditsOK' BY AdvancedEdits
<1>6. ClassesOK' BY DEF ClassesOK
<1>7. MadeOK' BY AdvancedMade
<1>8. AnswerOK' BY <1>1 DEF AnswerOK
<1>9. QED BY <1>2, <1>3, <1>4, <1>5, <1>6, <1>7, <1>8

\* The frames above m are gone, and m is where it was.
LEMMA ShrinkStep ==
  ASSUME LoaderInv, frames # <<>>, frames' = Front(frames), frames' # <<>>,
         failing' = TRUE,
         UNCHANGED <<code, checksum, module, classes, prolog, prolog_dict, repository, answer,
                     circular>>
  PROVE  LoaderInv'
<1> USE DEF LoaderInv
<1>1. /\ frames \in Seq(FrameType) /\ frames' \in Seq(FrameType)
      /\ Len(frames') = Len(frames) - 1 /\ Len(frames) - 1 \in Nat \ {0}
      /\ \A k \in 1..(Len(frames) - 1) : frames'[k] = frames[k] /\ k \in 1..Len(frames)
      /\ 1 \in 1..(Len(frames) - 1)
  BY FrontFacts DEF LoaderTypeOK
<1>2. LoaderTypeOK' BY <1>1 DEF LoaderTypeOK
<1>3. StackOK'
  <2>1. \A k \in 1..Len(frames') :
          /\ frames'[k].spec = "prolog" <=> k = 1 /\ repository = "prolog"
          /\ frames'[k].spec # "prolog" => frames'[k].text \in Codes
          /\ frames'[k].line <= Len(frames'[k].text) + 1
          /\ k < Len(frames') => /\ frames'[k].line <= Len(frames'[k].text)
                                 /\ frames'[k].text[frames'[k].line].op \in {"spec", "try"}
    <3>1. \A k \in 1..Len(frames') : k < Len(frames') => k < Len(frames) /\ k \in 1..(Len(frames) - 1)
      BY <1>1
    <3>2. QED BY <1>1, <3>1 DEF StackOK
  <2>2. /\ repository \notin {"none", "failed"}
        /\ repository = "prolog" => frames'[1].text = prolog
    BY <1>1 DEF StackOK
  <2>3. QED BY <2>1, <2>2 DEF StackOK
<1>4. NamesOK'
  <2>1. \A line : NamesBefore(line)' = NamesBefore(line) BY DEF NamesBefore
  <2>2. QED BY <1>1, <2>1 DEF NamesOK, NamesIn
<1>5. EditsOK' BY <1>1 DEF EditsOK
<1>6. ClassesOK' BY DEF ClassesOK
<1>7. MadeOK'
  <2>1. \A k \in 1..Len(frames') : \A j \in 1..(k - 1) : j \in 1..Len(frames') BY <1>1
  <2>2. \A k \in 1..Len(frames') : \A j \in 1..(k - 1) :
          frames'[j].spec = frames'[k].spec => frames'[k].spec \in circular
    BY <1>1, <2>1 DEF MadeOK
  <2>3. QED BY <1>1, <2>2 DEF MadeOK
<1>8. AnswerOK' BY DEF AnswerOK
<1>9. QED BY <1>2, <1>3, <1>4, <1>5, <1>6, <1>7, <1>8

\* An exception is raised where the code is.
LEMMA FailStep ==
  ASSUME LoaderInv, frames # <<>>, failing' = TRUE,
         UNCHANGED <<code, checksum, module, classes, prolog, prolog_dict, frames, repository,
                     answer, circular>>
  PROVE  LoaderInv'
<1> USE DEF LoaderInv
<1>1. LoaderTypeOK' BY DEF LoaderTypeOK
<1>2. StackOK' BY DEF StackOK
<1>3. NamesOK' BY DEF NamesOK, NamesBefore, NamesIn
<1>4. EditsOK' BY DEF EditsOK
<1>5. ClassesOK' BY DEF ClassesOK, NamesIn
<1>6. MadeOK' BY DEF MadeOK
<1>7. AnswerOK' BY DEF AnswerOK
<1>8. QED BY <1>1, <1>2, <1>3, <1>4, <1>5, <1>6, <1>7

\* The code of a specification without a class is executed, from a statement
\* that asks for it or from outside.
LEMMA PushStep ==
  ASSUME LoaderInv, NEW s \in Specs, module[s] = 0, Execute(s), failing' = failing, ~failing,
         repository \in {"prolog", "ready"}, repository = "prolog" => frames # <<>>,
         frames # <<>> => /\ TopFrame.line <= Len(TopFrame.text)
                          /\ Current.op \in {"spec", "try"},
         UNCHANGED <<code, checksum, module, classes, prolog, prolog_dict, repository, answer>>
  PROVE  LoaderInv'
<1> USE DEF LoaderInv
<1> DEFINE n == Len(frames)
           f == Frame(s, code[s].text, code[s].edit)
<1>1. code[s].text \in Codes /\ code[s].edit \in Nat /\ prolog_dict \in Nat /\ s # "prolog"
  BY LoaderAssumption DEF LoaderTypeOK
<1>2. /\ f \in FrameType /\ f.spec = s /\ f.text = code[s].text /\ f.edit = code[s].edit
      /\ f.line = 1 /\ f.bases = {} /\ f.names = prolog_dict
  <2>1. code[s].text \in Seq(PrologStatements)
    <3>1. CodeStatements \subseteq PrologStatements BY DEF PrologStatements
    <3>2. code[s].text \in Seq(CodeStatements) BY <1>1, LoaderAssumption
    <3>3. QED BY <3>1, <3>2, SeqMonotonic
  <2>2. QED BY <1>1, <2>1 DEF Frame, FrameType
<1>3. /\ frames' \in Seq(FrameType) /\ Len(frames') = n + 1 /\ n \in Nat
      /\ \A k \in 1..n : frames'[k] = frames[k] /\ frames[k] \in FrameType
      /\ frames'[n + 1] = f
      /\ circular' = circular \cup {t \in {s} : \E i \in DOMAIN frames : frames[i].spec = t}
      /\ DOMAIN frames = 1..n
  <2>1. frames' = Append(frames, f) BY DEF Execute
  <2> HIDE DEF f
  <2>2. QED BY <1>2, <2>1, AppendProperties DEF Execute, LoaderTypeOK
<1> HIDE DEF f
<1>4. LoaderTypeOK' BY <1>3 DEF LoaderTypeOK
<1>5. \A k \in 1..(n + 1) : k = n + 1 \/ k \in 1..n BY <1>3
<1>6. StackOK'
  <2>1. ASSUME NEW k \in 1..(n + 1)
        PROVE  /\ frames'[k].spec = "prolog" <=> k = 1 /\ repository = "prolog"
               /\ frames'[k].spec # "prolog" => frames'[k].text \in Codes
               /\ frames'[k].line <= Len(frames'[k].text) + 1
               /\ k < n + 1 => /\ frames'[k].line <= Len(frames'[k].text)
                               /\ frames'[k].text[frames'[k].line].op \in {"spec", "try"}
    <3>1. CASE k = n + 1
      <4>1. k = 1 => repository # "prolog" BY <1>3, <3>1
      <4>2. Len(f.text) \in Nat BY <1>2 DEF FrameType
      <4>3. QED BY <1>1, <1>2, <1>3, <3>1, <4>1, <4>2
    <3>2. CASE k \in 1..n
      <4>1. k = n => /\ frames[k].line <= Len(frames[k].text)
                     /\ frames[k].text[frames[k].line].op \in {"spec", "try"}
        BY <1>3, <3>2 DEF TopFrame, Current, Last
      <4>2. k = n \/ k < n BY <3>2
      <4>3. /\ frames[k].spec = "prolog" <=> k = 1 /\ repository = "prolog"
            /\ frames[k].spec # "prolog" => frames[k].text \in Codes
            /\ frames[k].line <= Len(frames[k].text) + 1
            /\ k < n => /\ frames[k].line <= Len(frames[k].text)
                        /\ frames[k].text[frames[k].line].op \in {"spec", "try"}
        BY <3>2 DEF StackOK
      <4>4. frames'[k] = frames[k] BY <1>3, <3>2
      <4>5. QED BY <4>1, <4>2, <4>3, <4>4
    <3>3. QED BY <1>5, <3>1, <3>2
  <2>2. frames' # <<>> /\ (repository = "prolog" => frames'[1].text = prolog)
    BY <1>3 DEF StackOK
  <2>3. QED BY <1>3, <2>1, <2>2 DEF StackOK
<1>7. NamesOK'
  <2>1. \A line : NamesBefore(line)' = NamesBefore(line) BY DEF NamesBefore
  <2>2. repository = "prolog" => frames'[1] = frames[1] BY <1>3
  <2>3. QED BY <1>2, <1>3, <1>5, <2>1, <2>2 DEF NamesOK, NamesIn
<1>8. EditsOK'
  <2>1. checksum[s] <= f.edit /\ f.edit <= code[s].edit BY <1>1, <1>2 DEF EditsOK
  <2>2. QED BY <1>2, <1>3, <1>5, <2>1 DEF EditsOK
<1>9. ClassesOK' BY DEF ClassesOK
<1>10. MadeOK'
  <2>1. ASSUME NEW k \in 1..(n + 1), NEW j \in 1..(k - 1), frames'[j].spec = frames'[k].spec
        PROVE  frames'[k].spec \in circular'
    <3>1. j \in 1..n BY <1>3
    <3>2. QED BY <1>2, <1>3, <1>5, <2>1, <3>1 DEF MadeOK
  <2>2. \A k \in 1..(n + 1) : frames'[k].spec \in Specs \ circular' => module[frames'[k].spec] = 0
    BY <1>2, <1>3, <1>5 DEF MadeOK
  <2>3. \A k \in 1..(n + 1) : frames'[k].bases \subseteq 1..Len(classes)
    BY <1>2, <1>3, <1>5 DEF MadeOK
  <2>4. \A i \in 1..Len(classes) : classes[i].spec \notin circular' => module[classes[i].spec] = i
    BY <1>3 DEF MadeOK
  <2>5. QED BY <1>3, <2>1, <2>2, <2>3, <2>4 DEF MadeOK
<1>11. AnswerOK' BY <1>3 DEF AnswerOK
<1>12. QED BY <1>4, <1>6, <1>7, <1>8, <1>9, <1>10, <1>11

----------------------------------------------------------------------------
(* The actions.                                                            *)

LEMMA TopFacts ==
  ASSUME LoaderInv, Running
  PROVE  /\ frames # <<>> /\ ~failing /\ Len(frames) \in 1..Len(frames) /\ Len(frames) \in Nat
         /\ frames \in Seq(FrameType) /\ TopFrame = frames[Len(frames)] /\ TopFrame \in FrameType
         /\ repository \in {"prolog", "ready"}
         /\ \A ops : AtStatement(ops) =>
              /\ TopFrame.line <= Len(TopFrame.text)
              /\ Current \in PrologStatements
              /\ Current = frames[Len(frames)].text[frames[Len(frames)].line]
<1> USE DEF LoaderInv
<1>1. frames # <<>> /\ ~failing /\ frames \in Seq(FrameType) BY DEF Running, LoaderTypeOK
<1>2. TopFrame = frames[Len(frames)] /\ Len(frames) \in 1..Len(frames) /\ Len(frames) \in Nat
  BY <1>1 DEF TopFrame, Last
<1>3. TopFrame \in FrameType BY <1>1, <1>2
<1>4. repository \in {"prolog", "ready"} BY <1>1 DEF StackOK, LoaderTypeOK
<1>5. ASSUME NEW ops, AtStatement(ops)
      PROVE  /\ TopFrame.line <= Len(TopFrame.text) /\ Current \in PrologStatements
             /\ Current = frames[Len(frames)].text[frames[Len(frames)].line]
  <2>1. TopFrame.line <= Len(TopFrame.text) BY <1>5 DEF AtStatement
  <2>2. TopFrame.line \in 1..Len(TopFrame.text) /\ TopFrame.text \in Seq(PrologStatements)
    BY <1>3, <2>1 DEF FrameType
  <2>3. QED BY <1>2, <2>1, <2>2 DEF Current
<1>6. QED BY <1>1, <1>2, <1>3, <1>4, <1>5

LEMMA StatementTypes ==
  ASSUME NEW s \in PrologStatements
  PROVE  /\ s.of \in STRING
         /\ s.op \in {"spec", "try"} => s.of \in Specs
BY LoaderAssumption DEF PrologStatements, CodeStatements

LEMMA AskSpecStep == LoaderInv /\ AskSpec => LoaderInv'
<1> SUFFICES ASSUME LoaderInv, AskSpec PROVE LoaderInv' OBVIOUS
<1>1. AtStatement({"spec", "try"}) /\ Running /\ Current.op \in {"spec", "try"}
  BY DEF AskSpec, AtStatement
<1>2. /\ frames # <<>> /\ ~failing /\ Len(frames) \in 1..Len(frames) /\ Len(frames) \in Nat
      /\ frames \in Seq(FrameType) /\ TopFrame = frames[Len(frames)] /\ TopFrame \in FrameType
      /\ repository \in {"prolog", "ready"}
      /\ TopFrame.line <= Len(TopFrame.text) /\ Current \in PrologStatements
      /\ Current = frames[Len(frames)].text[frames[Len(frames)].line]
  BY <1>1, TopFacts
<1>3. Current.of \in Specs BY <1>1, <1>2, StatementTypes
<1>4. UNCHANGED <<code, checksum, module, classes, prolog, prolog_dict, repository, answer,
                  loads_asked>>
  BY DEF AskSpec
<1>5. prolog_dict \in Nat BY DEF LoaderInv, LoaderTypeOK
<1>6. CASE IsLoaded(Current.of)
  <2> DEFINE B == {module[Current.of]}
  <2>1. frames' = NextLine([frames EXCEPT ![Len(frames)].bases = @ \cup B])
        /\ failing' = failing /\ circular' = circular
    BY <1>1, <1>6 DEF AskSpec
  <2>2. B \subseteq 1..Len(classes) /\ B \in SUBSET Nat
    BY <1>3, <1>6 DEF IsLoaded, LoaderInv, MadeOK, LoaderTypeOK
  <2> HIDE DEF B
  <2>3. Advanced(frames, frames', Len(frames), B) BY <1>2, <2>1, <2>2, BasesAdvance
  <2>4. failing' = FALSE BY <1>2, <2>1 DEF LoaderInv, LoaderTypeOK
  <2>5. QED BY <1>1, <1>2, <1>4, <1>5, <2>1, <2>2, <2>3, <2>4, GoOnStep
<1>7. CASE ~IsLoaded(Current.of) /\ Len(frames) = MaxDepth /\ Current.op = "try"
  <2>1. frames' = NextLine(frames) /\ failing' = FALSE /\ circular' = circular
    BY <1>1, <1>7 DEF AskSpec
  <2>2. Advanced(frames, frames', Len(frames), {}) BY <1>2, <2>1, NextLineAdvances
  <2>3. QED BY <1>1, <1>2, <1>4, <1>5, <2>1, <2>2, GoOnStep
<1>8. CASE ~IsLoaded(Current.of) /\ Len(frames) = MaxDepth /\ Current.op # "try"
  <2>1. frames' = frames /\ failing' = TRUE /\ circular' = circular
    BY <1>1, <1>8 DEF AskSpec
  <2>2. QED BY <1>2, <1>4, <2>1, FailStep
<1>9. CASE ~IsLoaded(Current.of) /\ Len(frames) # MaxDepth
  <2>1. Execute(Current.of) /\ failing' = failing BY <1>1, <1>9 DEF AskSpec
  <2>2. module[Current.of] = 0 BY <1>9 DEF IsLoaded
  <2>3. QED BY <1>1, <1>2, <1>3, <1>4, <2>1, <2>2, PushStep
<1>10. QED BY <1>6, <1>7, <1>8, <1>9

LEMMA DefineStep == LoaderInv /\ Define => LoaderInv'
<1> SUFFICES ASSUME LoaderInv, Define PROVE LoaderInv' OBVIOUS
<1>1. /\ AtStatement({"class", "name"}) /\ Running
      /\ frames' = NextLine([frames EXCEPT ![Len(frames)].defined = @ \cup {Current.of}])
      /\ prolog_dict' = IF Current.op = "name" THEN prolog_dict + 1 ELSE prolog_dict
      /\ UNCHANGED <<code, checksum, module, classes, prolog, failing, repository, answer,
                     circular, loads_asked>>
  BY DEF Define, AtStatement
<1>2. /\ frames # <<>> /\ ~failing /\ Len(frames) \in 1..Len(frames)
      /\ frames \in Seq(FrameType) /\ TopFrame = frames[Len(frames)]
      /\ TopFrame.line <= Len(TopFrame.text) /\ Current \in PrologStatements
      /\ Current = frames[Len(frames)].text[frames[Len(frames)].line]
  BY <1>1, TopFacts
<1>3. {Current.of} \in SUBSET STRING BY <1>2, StatementTypes
<1>4. Advanced(frames, frames', Len(frames), {}) BY <1>1, <1>2, <1>3, DefinedAdvance
<1>5. prolog_dict' \in Nat BY <1>1 DEF LoaderInv, LoaderTypeOK
<1>6. failing' = FALSE BY <1>1, <1>2 DEF LoaderInv, LoaderTypeOK
<1>7. QED BY <1>1, <1>2, <1>4, <1>5, <1>6, GoOnStep

LEMMA RaiseStatementStep == LoaderInv /\ RaiseStatement => LoaderInv'
BY TopFacts, FailStep DEF RaiseStatement, AtStatement

\* The stack is empty, and there is no answer, or it was asked for by no one.
LEMMA EmptyStep ==
  ASSUME LoaderInv, frames # <<>>, frames' = <<>>, ~failing',
         failing' \in BOOLEAN, repository' \in {"ready", "failed"},
         repository' = "ready" => prolog_dict = NamesIn(prolog), answer' = 0,
         UNCHANGED <<code, checksum, module, classes, prolog, prolog_dict, circular>>
  PROVE  LoaderInv'
<1> USE DEF LoaderInv
<1>1. frames' \in Seq(FrameType) /\ Len(frames') = 0 BY EmptySeq
<1>2. LoaderTypeOK' BY <1>1 DEF LoaderTypeOK
<1>3. StackOK' /\ NamesOK' /\ AnswerOK' BY <1>1 DEF StackOK, NamesOK, AnswerOK, NamesIn
<1>4. EditsOK' /\ MadeOK' BY <1>1 DEF EditsOK, MadeOK
<1>5. repository # "none" BY DEF StackOK
<1>6. ClassesOK' BY <1>5 DEF ClassesOK, NamesIn
<1>7. QED BY <1>2, <1>3, <1>4, <1>6

LEMMA EndOfPrologStep == LoaderInv /\ EndOfProlog => LoaderInv'
<1> SUFFICES ASSUME LoaderInv, EndOfProlog PROVE LoaderInv' OBVIOUS
<1> USE DEF LoaderInv
<1>1. /\ Running /\ TopFrame.line > Len(TopFrame.text) /\ TopFrame.spec = "prolog"
      /\ frames' = <<>> /\ repository' = "ready"
      /\ UNCHANGED <<code, checksum, module, classes, prolog, prolog_dict, failing, answer,
                     circular, loads_asked>>
  BY DEF EndOfProlog, AtEnd
<1>2. /\ frames # <<>> /\ ~failing /\ Len(frames) \in 1..Len(frames)
      /\ TopFrame = frames[Len(frames)] /\ TopFrame \in FrameType
  BY <1>1, TopFacts
<1>3. repository = "prolog" /\ Len(frames) = 1 /\ frames[1].text = prolog
      /\ frames[1].line <= Len(prolog) + 1
  BY <1>1, <1>2 DEF StackOK
<1>4. frames[1].line = Len(prolog) + 1 /\ Len(prolog) \in Nat /\ DOMAIN prolog = 1..Len(prolog)
  BY <1>1, <1>2, <1>3, LoaderAssumption DEF FrameType, LoaderTypeOK
<1>5. NamesBefore(frames[1].line) = {i \in DOMAIN prolog : prolog[i].op = "name"}
  <2>1. (Len(prolog) + 1) - 1 = Len(prolog) BY <1>4
  <2>2. QED BY <1>4, <2>1 DEF NamesBefore
<1>6. prolog_dict = NamesIn(prolog) BY <1>3, <1>5 DEF NamesOK, NamesIn
<1>7. answer = 0 BY <1>3 DEF AnswerOK
<1>8. QED BY <1>1, <1>2, <1>6, <1>7, EmptyStep DEF LoaderTypeOK

LEMMA LeaveStep == LoaderInv /\ Leave => LoaderInv'
<1> SUFFICES ASSUME LoaderInv, Leave PROVE LoaderInv' OBVIOUS
<1> USE DEF LoaderInv
<1> DEFINE below == Front(frames)
<1>1. failing /\ frames # <<>> /\ frames \in Seq(FrameType)
      /\ UNCHANGED <<code, checksum, module, classes, prolog, prolog_dict, circular, loads_asked>>
  BY DEF Leave, StackOK, LoaderTypeOK
<1>2. repository \in {"prolog", "ready"} BY <1>1 DEF StackOK, LoaderTypeOK
<1>3. CASE below = <<>>
  <2>1. frames' = <<>> /\ failing' = FALSE /\ answer' = 0
        /\ repository' = IF repository = "prolog" THEN "failed" ELSE repository
    BY <1>3 DEF Leave
  <2>2. QED BY <1>1, <1>2, <2>1, EmptyStep DEF NamesOK
<1>4. CASE below # <<>>
  <2> DEFINE m == Len(frames) - 1
             caught == Last(below).text[Last(below).line].op = "try"
  <2>1. /\ below \in Seq(FrameType) /\ Len(below) = m /\ m \in Nat \ {0}
        /\ m \in 1..Len(frames) /\ \A k \in 1..m : below[k] = frames[k]
        /\ m < Len(frames)
    <3>1. /\ below \in Seq(FrameType) /\ Len(below) = m /\ \A k \in 1..m : below[k] = frames[k]
          /\ Len(frames) # 1 /\ Len(frames) \in Nat \ {0}
      BY <1>1, <1>4, FrontFacts
    <3>2. QED BY <3>1
  <2>2. /\ frames' = IF caught THEN NextLine(below) ELSE below
        /\ failing' = ~caught /\ UNCHANGED <<answer, repository>>
    BY <1>4 DEF Leave
  <2> HIDE DEF below, m
  <2>3. CASE caught
    <3>1. Last(below) = frames[m] BY <2>1 DEF Last
    <3>2. frames[m].line <= Len(frames[m].text) /\ frames[m].text[frames[m].line].op = "try"
      BY <2>1, <2>3, <3>1 DEF StackOK
    <3>3. Advanced(below, frames', m, {}) BY <1>4, <2>1, <2>2, <2>3, NextLineAdvances
    <3>4. Advanced(frames, frames', m, {}) BY <2>1, <3>3 DEF Advanced
    <3>5. failing' = FALSE /\ prolog_dict \in Nat BY <2>2, <2>3 DEF LoaderTypeOK
    <3>6. {} \subseteq 1..Len(classes) OBVIOUS
    <3>7. QED BY <1>1, <2>1, <2>2, <3>2, <3>4, <3>5, <3>6, GoOnStep
  <2>4. CASE ~caught BY <1>1, <1>4, <2>1, <2>2, <2>4, ShrinkStep DEF below
  <2>5. QED BY <2>3, <2>4
<1>5. QED BY <1>3, <1>4

LEMMA LoadSpecStep == ASSUME LoaderInv, NEW s \in Specs, LoadSpec(s) PROVE LoaderInv'
<1> USE DEF LoaderInv
<1>1. /\ repository = "ready" /\ frames = <<>>
      /\ UNCHANGED <<code, checksum, module, classes, prolog, prolog_dict, failing, repository>>
  BY DEF LoadSpec
<1>2. CASE IsLoaded(s)
  <2>1. answer' = module[s] /\ UNCHANGED <<frames, circular>> BY <1>2 DEF LoadSpec
  <2>2. AnswerOK' BY <1>1, <1>2, <2>1 DEF AnswerOK, MadeOK, IsLoaded
  <2>3. LoaderTypeOK' /\ StackOK' BY <1>1, <2>1 DEF LoaderTypeOK, StackOK
  <2>4. NamesOK' /\ EditsOK' /\ ClassesOK' /\ MadeOK'
    BY <1>1, <2>1 DEF NamesOK, NamesIn, EditsOK, ClassesOK, MadeOK
  <2>5. QED BY <2>2, <2>3, <2>4
<1>3. CASE ~IsLoaded(s)
  <2>1. Execute(s) /\ answer' = answer /\ module[s] = 0 BY <1>3 DEF LoadSpec, IsLoaded
  <2>2. ~failing BY <1>1 DEF StackOK
  <2>3. QED BY <1>1, <2>1, <2>2, PushStep
<1>4. QED BY <1>2, <1>3

LEMMA LoaderEditStep == ASSUME LoaderInv, NEW s \in Specs, Edit(s) PROVE LoaderInv'
<1> USE DEF LoaderInv
<1>1. PICK c \in Codes : code' = [code EXCEPT ![s] = [edit |-> @.edit + 1, text |-> c]]
  BY DEF Edit
<1>2. UNCHANGED <<checksum, module, classes, prolog, prolog_dict, frames, failing,
                  repository, answer, circular, loads_asked>>
  BY DEF Edit
<1>3. /\ code' \in [Specs -> [edit : Nat, text : Codes]]
      /\ \A t \in Specs : code[t].edit \in Nat /\ code'[t].edit \in Nat
                          /\ code[t].edit <= code'[t].edit
  <2>1. code \in [Specs -> [edit : Nat, text : Codes]] BY DEF LoaderTypeOK
  <2>2. \A t \in Specs : code[t].edit \in Nat BY <2>1
  <2>3. \A t \in Specs : code'[t] = IF t = s THEN [edit |-> code[s].edit + 1, text |-> c] ELSE code[t]
    BY <1>1, <2>1
  <2>4. \A t \in Specs : code'[t].edit = IF t = s THEN code[s].edit + 1 ELSE code[t].edit
    BY <2>3
  <2>5. code' \in [Specs -> [edit : Nat, text : Codes]] BY <1>1, <2>1, <2>2
  <2>6. QED BY <2>2, <2>4, <2>5
<1>4. LoaderTypeOK' BY <1>2, <1>3 DEF LoaderTypeOK
<1>5. StackOK' /\ NamesOK' /\ MadeOK' /\ AnswerOK'
  <2>1. \A line : NamesBefore(line)' = NamesBefore(line) BY <1>2 DEF NamesBefore
  <2>2. QED BY <1>2, <2>1 DEF StackOK, NamesOK, NamesIn, MadeOK, AnswerOK
<1>6. \A t \in Specs : checksum[t] \in Nat BY DEF LoaderTypeOK
<1>7. EditsOK'
  <2>1. \A t \in Specs : checksum'[t] <= code'[t].edit
    BY <1>2, <1>3, <1>6 DEF EditsOK
  <2>2. ASSUME NEW k \in 1..Len(frames), frames[k].spec # "prolog"
        PROVE  /\ checksum[frames[k].spec] <= frames[k].edit
               /\ frames[k].edit <= code'[frames[k].spec].edit
    <3>1. frames[k] \in FrameType BY DEF LoaderTypeOK
    <3>2. frames[k].spec \in Specs /\ frames[k].edit \in Nat BY <2>2, <3>1 DEF FrameType
    <3>3. /\ checksum[frames[k].spec] <= frames[k].edit
          /\ frames[k].edit <= code[frames[k].spec].edit
      BY <2>2 DEF EditsOK
    <3>4. QED BY <1>3, <3>2, <3>3
  <2>3. QED BY <1>2, <2>1, <2>2 DEF EditsOK
<1>8. ClassesOK'
  <2>1. \A i \in 1..Len(classes) : classes[i].edit <= code'[classes[i].spec].edit
    <3> SUFFICES ASSUME NEW i \in 1..Len(classes)
                 PROVE  classes[i].edit <= code'[classes[i].spec].edit
      OBVIOUS
    <3>1. classes[i].spec \in Specs /\ classes[i].edit \in Nat
          /\ classes[i].edit <= code[classes[i].spec].edit
      BY DEF ClassesOK
    <3>2. QED BY <1>3, <3>1
  <2>2. QED BY <1>2, <2>1 DEF ClassesOK, NamesIn
<1>9. QED BY <1>4, <1>5, <1>7, <1>8

LEMMA NewRepositoryStep == LoaderInv /\ NewRepository => LoaderInv'
<1> SUFFICES ASSUME LoaderInv, NewRepository PROVE LoaderInv' OBVIOUS
<1> USE DEF LoaderInv
<1> DEFINE f == Frame("prolog", prolog, 0)
<1>1. /\ repository = "none" /\ repository' = "prolog"
      /\ checksum' = [s \in Specs |-> code[s].edit] /\ frames' = <<f>>
      /\ UNCHANGED <<code, module, classes, prolog, prolog_dict, failing, answer, circular,
                     loads_asked>>
  BY DEF NewRepository
<1>2. /\ frames = <<>> /\ classes = <<>> /\ prolog_dict = 0 /\ answer = 0 /\ ~failing
  BY <1>1 DEF StackOK, ClassesOK, NamesOK, AnswerOK
<1>3. /\ f \in FrameType /\ f.spec = "prolog" /\ f.text = prolog /\ f.line = 1 /\ f.bases = {}
      /\ prolog \in Seq(PrologStatements) /\ Len(prolog) \in Nat
  BY <1>2, LoaderAssumption DEF Frame, FrameType, LoaderTypeOK
<1> HIDE DEF f
<1>4. frames' \in Seq(FrameType) /\ Len(frames') = 1 /\ frames'[1] = f /\ frames' # <<>>
  BY <1>1, <1>3
<1>5. LoaderTypeOK'
  <2>1. \A s \in Specs : code[s].edit \in Nat BY DEF LoaderTypeOK
  <2>2. checksum' \in [Specs -> Nat] BY <1>1, <2>1
  <2>3. QED BY <1>1, <1>4, <2>2 DEF LoaderTypeOK
<1>6. StackOK'
  <2>1. \A k \in 1..Len(frames') : k = 1 /\ frames'[k] = f BY <1>4
  <2>2. 1 <= Len(prolog) + 1 BY <1>3
  <2>3. QED BY <1>1, <1>2, <1>3, <1>4, <2>1, <2>2 DEF StackOK
<1>7. NamesOK'
  <2>1. NamesBefore(1)' = {} BY DEF NamesBefore
  <2>2. frames'[1].line = 1 BY <1>3, <1>4
  <2>3. Cardinality(NamesBefore(frames[1].line))' = 0 BY <2>1, <2>2, FS_EmptySet DEF NamesBefore
  <2>4. Len(classes) = 0 BY <1>2
  <2>5. QED BY <1>1, <1>2, <2>3, <2>4 DEF NamesOK
<1>8. EditsOK'
  <2>1. \A s \in Specs : checksum'[s] <= code'[s].edit
    <3>1. \A s \in Specs : code[s].edit \in Nat BY DEF LoaderTypeOK
    <3>2. QED BY <1>1, <3>1
  <2>2. \A k \in 1..Len(frames') : frames'[k].spec = "prolog" BY <1>3, <1>4
  <2>3. QED BY <2>1, <2>2 DEF EditsOK
<1>9. ClassesOK' BY <1>1, <1>2 DEF ClassesOK
<1>10. MadeOK'
  <2>1. \A k \in 1..Len(frames') : k = 1 /\ frames'[k].spec \notin Specs /\ frames'[k].bases = {}
    BY <1>3, <1>4, LoaderAssumption
  <2>2. Len(classes) = 0 BY <1>2
  <2>3. \A k \in 1..Len(frames') : \A j \in 1..(k - 1) : FALSE BY <2>1
  <2>4. QED BY <1>1, <1>2, <2>1, <2>2, <2>3 DEF MadeOK
<1>11. AnswerOK' BY <1>1, <1>2, <1>4 DEF AnswerOK
<1>12. QED BY <1>5, <1>6, <1>7, <1>8, <1>9, <1>10, <1>11

\* A class is made from the code that has ended, and replaces the one of its
\* module.
LEMMA EndOfCodeStep == LoaderInv /\ EndOfCode => LoaderInv'
<1> SUFFICES ASSUME LoaderInv, EndOfCode PROVE LoaderInv' OBVIOUS
<1> USE DEF LoaderInv
<1> DEFINE n == Len(frames)
           top == frames[n]
           s == top.spec
           id == Len(classes) + 1
           below == Front(frames)
           class == [spec |-> s, name |-> Found(TopFrame), edit |-> top.edit,
                     names |-> top.names, bases |-> top.bases, spec_checksum |-> checksum[s],
                     in_prolog |-> repository = "prolog"]
<1>1. /\ Running /\ TopFrame.spec # "prolog"
      /\ UNCHANGED <<code, checksum, prolog, prolog_dict, repository, circular, loads_asked>>
  BY DEF EndOfCode, AtEnd
<1>2. /\ frames # <<>> /\ ~failing /\ n \in 1..n /\ n \in Nat /\ frames \in Seq(FrameType)
      /\ TopFrame = top /\ top \in FrameType /\ repository \in {"prolog", "ready"}
  BY <1>1, TopFacts
<1>3. s \in Specs /\ s # "prolog" BY <1>1, <1>2 DEF FrameType
<1>4. CASE TopFrame.defined = {} \/ Found(TopFrame) = "Anod"
  <2>1. failing' = TRUE /\ UNCHANGED <<module, classes, frames, answer>> BY <1>4 DEF EndOfCode
  <2>2. QED BY <1>1, <1>2, <2>1, FailStep
<1>5. CASE ~(TopFrame.defined = {} \/ Found(TopFrame) = "Anod")
  <2>1. /\ classes' = Append(classes, class) /\ module' = [module EXCEPT ![s] = id]
        /\ IF below = <<>> THEN frames' = <<>> /\ answer' = id
           ELSE /\ frames' = NextLine([below EXCEPT ![Len(below)].bases = @ \cup {id}])
                /\ UNCHANGED answer
        /\ UNCHANGED failing
    BY <1>2, <1>5 DEF EndOfCode
  <2>2. /\ class.spec = s /\ class.edit = top.edit /\ class.names = top.names
        /\ class.bases = top.bases /\ class.spec_checksum = checksum[s]
        /\ class.in_prolog = (repository = "prolog")
    OBVIOUS
  <2> HIDE DEF class
  <2>3. /\ \E S : classes' \in Seq(S)
        /\ Len(classes) \in Nat /\ Len(classes') = id /\ classes'[id] = class
        /\ \A i \in 1..Len(classes) : classes'[i] = classes[i]
    <3>1. PICK S : classes \in Seq(S) BY DEF LoaderTypeOK
    <3>2. classes \in Seq(S \cup {class}) /\ class \in S \cup {class} BY <3>1, SeqMonotonic
    <3> DEFINE U == S \cup {class}
    <3> HIDE DEF U
    <3>3. classes \in Seq(U) /\ class \in U BY <3>2 DEF U
    <3>4. /\ Append(classes, class) \in Seq(U) /\ Len(Append(classes, class)) = Len(classes) + 1
          /\ \A i \in 1..Len(classes) : Append(classes, class)[i] = classes[i]
          /\ Append(classes, class)[Len(classes) + 1] = class
      BY <3>3, AppendProperties
    <3>5. QED BY <2>1, <3>3, <3>4, LenProperties
  <2>4. \A i \in 1..id : i = id \/ i \in 1..Len(classes) BY <2>3
  <2>5. id \in Nat \ {0} /\ id \in 1..id /\ id - 1 = Len(classes)
        /\ \A i \in 1..Len(classes) : i \in 1..id /\ i # id
    BY <2>3
  <2> HIDE DEF id
  <2>6. /\ module' \in [Specs -> Nat] /\ module'[s] = id
        /\ \A t \in Specs : t # s => module'[t] = module[t]
    BY <1>3, <2>1, <2>5 DEF LoaderTypeOK
  \* The stack below.
  <2>7. frames' = <<>> \/ \E m \in 1..n : m = n - 1 /\ Advanced(frames, frames', m, {id})
    <3>1. CASE below = <<>> BY <2>1, <3>1
    <3>2. CASE below # <<>>
      <4> DEFINE m == n - 1
      <4>1. /\ below \in Seq(FrameType) /\ Len(below) = m /\ m \in 1..n
            /\ \A k \in 1..m : below[k] = frames[k]
        <5>1. /\ below \in Seq(FrameType) /\ Len(below) = m /\ \A k \in 1..m : below[k] = frames[k]
              /\ n # 1
          BY <1>2, <3>2, FrontFacts
        <5>2. QED BY <1>2, <5>1
      <4>2. frames' = NextLine([below EXCEPT ![Len(below)].bases = @ \cup {id}])
        BY <2>1, <3>2
      <4> HIDE DEF below, m
      <4>3. {id} \in SUBSET Nat BY <2>5
      <4>4. Advanced(below, frames', m, {id}) BY <3>2, <4>1, <4>2, <4>3, BasesAdvance
      <4>5. Advanced(frames, frames', m, {id}) BY <4>1, <4>4 DEF Advanced
      <4>6. QED BY <4>1, <4>5 DEF m
    <3>3. QED BY <3>1, <3>2
  <2>8. below = <<>> <=> frames' = <<>>
    <3>1. CASE below = <<>> BY <2>1, <3>1
    <3>2. CASE below # <<>>
      <4>1. below \in Seq(FrameType) BY <1>2, FrontFacts
      <4>2. frames' = NextLine([below EXCEPT ![Len(below)].bases = @ \cup {id}])
        BY <2>1, <3>2
      <4>3. {id} \in SUBSET Nat BY <2>5
      <4> HIDE DEF below
      <4>4. Advanced(below, frames', Len(below), {id}) BY <3>2, <4>1, <4>2, <4>3, BasesAdvance
      <4>5. Len(frames') # 0 BY <3>2, <4>1, <4>4 DEF Advanced
      <4>6. QED BY <3>2, <4>5
    <3>3. QED BY <3>1, <3>2
  <2> HIDE DEF below
  <2>9. \A k \in 1..Len(frames') : /\ k \in 1..n /\ k < n
                                   /\ frames'[k].spec = frames[k].spec
                                   /\ frames'[k].edit = frames[k].edit
                                   /\ frames'[k].bases \subseteq frames[k].bases \cup {id}
    <3>1. CASE frames' = <<>> BY <3>1
    <3>2. CASE frames' # <<>>
      <4>1. PICK m \in 1..n : m = n - 1 /\ Advanced(frames, frames', m, {id}) BY <2>7, <3>2
      <4>2. Len(frames') = m /\ \A k \in 1..m : k \in 1..n /\ k < n BY <4>1, <1>2 DEF Advanced
      <4>3. QED BY <4>1, <4>2 DEF Advanced
    <3>3. QED BY <3>1, <3>2
  <2>10. frames' \in Seq(FrameType)
    <3>1. CASE frames' = <<>> BY <3>1, EmptySeq
    <3>2. CASE frames' # <<>> BY <2>7, <3>2 DEF Advanced
    <3>3. QED BY <3>1, <3>2
  <2>11. LoaderTypeOK'
    <3>1. \E S : classes' \in Seq(S) BY <2>3
    <3>2. QED BY <1>1, <2>1, <2>6, <2>10, <3>1 DEF LoaderTypeOK
  <2>12. frames' = <<>> => repository = "ready"
    <3>1. frames' = <<>> => n = 1
      BY <1>2, <2>8, FrontFacts DEF below
    <3>2. n = 1 => repository # "prolog" BY <1>2, <1>3 DEF StackOK
    <3>3. QED BY <1>2, <3>1, <3>2
  <2>13. StackOK' /\ NamesOK'
    <3>1. CASE frames' = <<>>
      <4>1. Len(frames') = 0 BY <3>1
      <4>2. repository = "ready" /\ repository' = "ready" BY <1>1, <2>12, <3>1
      <4>3. ~failing' BY <1>2, <2>1
      <4>4. QED BY <1>1, <3>1, <4>1, <4>2, <4>3 DEF StackOK, NamesOK, NamesIn
    <3>2. CASE frames' # <<>>
      <4>1. PICK m \in 1..n : m = n - 1 /\ Advanced(frames, frames', m, {id}) BY <2>7, <3>2
      <4>2. frames[m].line <= Len(frames[m].text)
            /\ frames[m].text[frames[m].line].op \in {"spec", "try"}
        BY <1>2, <4>1 DEF StackOK
      <4>3. ~failing' BY <1>2, <2>1
      <4>4. StackOK' BY <1>1, <4>1, <4>2, <4>3, AdvancedStack
      <4>5. prolog_dict' = IF frames[m].text[frames[m].line].op = "name"
                           THEN prolog_dict + 1 ELSE prolog_dict
        BY <1>1, <4>2
      <4>6. NamesOK' BY <1>1, <4>1, <4>2, <4>5, AdvancedNames
      <4>7. QED BY <4>4, <4>6
    <3>3. QED BY <3>1, <3>2
  <2>14. EditsOK' BY <1>1, <2>9 DEF EditsOK
  <2>15. ClassesOK'
    <3>1. top.edit \in Nat /\ checksum[s] <= top.edit /\ top.edit <= code[s].edit
      BY <1>2, <1>3 DEF EditsOK, FrameType
    <3>2. top.names = NamesIn(prolog) \/ repository = "prolog" BY <1>2 DEF NamesOK
    <3>3. top.bases \subseteq 1..Len(classes) BY <1>2 DEF MadeOK
    <3>4. \A i \in 1..Len(classes') :
            /\ classes'[i].spec \in Specs /\ classes'[i].edit \in Nat
            /\ classes'[i].spec_checksum = checksum[classes'[i].spec]
            /\ checksum[classes'[i].spec] <= classes'[i].edit
            /\ classes'[i].edit <= code[classes'[i].spec].edit
            /\ classes'[i].names = NamesIn(prolog) \/ classes'[i].in_prolog
            /\ classes'[i].bases \subseteq 1..(i - 1)
      <4> SUFFICES ASSUME NEW i \in 1..id
                   PROVE  /\ classes'[i].spec \in Specs /\ classes'[i].edit \in Nat
                          /\ classes'[i].spec_checksum = checksum[classes'[i].spec]
                          /\ checksum[classes'[i].spec] <= classes'[i].edit
                          /\ classes'[i].edit <= code[classes'[i].spec].edit
                          /\ classes'[i].names = NamesIn(prolog) \/ classes'[i].in_prolog
                          /\ classes'[i].bases \subseteq 1..(i - 1)
        BY <2>3
      <4>1. CASE i = id BY <1>3, <2>2, <2>3, <2>5, <3>1, <3>2, <3>3, <4>1
      <4>2. CASE i \in 1..Len(classes)
        <5>1. classes'[i] = classes[i] BY <2>3, <4>2
        <5>2. QED BY <4>2, <5>1 DEF ClassesOK
      <4>3. QED BY <2>4, <4>1, <4>2
    <3>5. QED BY <1>1, <1>2, <3>4 DEF ClassesOK, NamesIn
  <2>16. MadeOK'
    <3>1. s \notin circular => module[s] = 0 BY <1>2, <1>3 DEF MadeOK
    <3>2. ASSUME NEW t \in Specs, module'[t] # 0
          PROVE  module'[t] \in 1..id /\ classes'[module'[t]].spec = t
      <4>1. CASE t = s BY <2>2, <2>3, <2>5, <2>6, <4>1
      <4>2. CASE t # s
        <5>1. module'[t] = module[t] /\ module[t] \in 1..Len(classes)
              /\ classes[module[t]].spec = t
          BY <2>6, <3>2, <4>2 DEF MadeOK
        <5>2. QED BY <2>3, <2>5, <5>1
      <4>3. QED BY <4>1, <4>2
    <3>3. ASSUME NEW i \in 1..id, classes'[i].spec \notin circular
          PROVE  module'[classes'[i].spec] = i
      <4>1. CASE i = id BY <2>2, <2>3, <2>6, <4>1
      <4>2. CASE i \in 1..Len(classes)
        <5>1. classes'[i] = classes[i] /\ module[classes[i].spec] = i /\ classes[i].spec \in Specs
          BY <2>3, <3>3, <4>2 DEF MadeOK, ClassesOK
        <5>2. classes[i].spec # s BY <3>1, <3>3, <4>2, <5>1
        <5>3. QED BY <2>6, <5>1, <5>2
      <4>3. QED BY <2>4, <4>1, <4>2
    <3>4. ASSUME NEW k \in 1..Len(frames'), NEW j \in 1..(k - 1), frames'[j].spec = frames'[k].spec
          PROVE  frames'[k].spec \in circular
      <4>1. j \in 1..Len(frames') BY <2>9, <2>10
      <4>2. QED BY <2>9, <3>4, <4>1 DEF MadeOK
    <3>5. ASSUME NEW k \in 1..Len(frames'), frames'[k].spec \in Specs \ circular
          PROVE  module'[frames'[k].spec] = 0
      <4>1. k \in 1..n /\ k \in 1..(n - 1) /\ frames'[k].spec = frames[k].spec
        BY <1>2, <2>9
      <4>2. frames[k].spec # s
        BY <1>2, <3>5, <4>1 DEF MadeOK
      <4>3. module[frames[k].spec] = 0 BY <3>5, <4>1 DEF MadeOK
      <4>4. QED BY <2>6, <3>5, <4>1, <4>2, <4>3
    <3>6. \A k \in 1..Len(frames') : frames'[k].bases \subseteq 1..id
      <4> SUFFICES ASSUME NEW k \in 1..Len(frames') PROVE frames'[k].bases \subseteq 1..id OBVIOUS
      <4>1. frames[k].bases \subseteq 1..Len(classes) BY <2>9 DEF MadeOK
      <4>2. QED BY <2>5, <2>9, <4>1
    <3>7. QED BY <1>1, <2>3, <3>2, <3>3, <3>4, <3>5, <3>6 DEF MadeOK
  <2>17. AnswerOK'
    <3>1. repository = "prolog" => answer = 0 /\ frames' # <<>> BY <2>12 DEF AnswerOK
    <3>2. CASE frames' = <<>>
      <4>1. answer' = id BY <2>1, <2>8, <3>2
      <4>2. classes'[id].spec = s BY <2>2, <2>3
      <4>3. QED BY <1>1, <1>2, <2>3, <2>5, <2>6, <2>12, <3>2, <4>1, <4>2 DEF AnswerOK
    <3>3. CASE frames' # <<>>
      <4>1. answer' = answer BY <2>1, <2>8, <3>3
      <4>2. QED BY <1>1, <1>2, <3>1, <3>3, <4>1 DEF AnswerOK
    <3>4. QED BY <3>2, <3>3
  <2>18. QED BY <2>11, <2>13, <2>14, <2>15, <2>16, <2>17
<1>6. QED BY <1>4, <1>5

LEMMA LoaderInvStep == LoaderInv /\ [LoaderNext]_loaderVars => LoaderInv'
<1> SUFFICES ASSUME LoaderInv, [LoaderNext]_loaderVars PROVE LoaderInv' OBVIOUS
<1>1. CASE NewRepository BY <1>1, NewRepositoryStep
<1>2. CASE LoaderStep
  BY <1>2, AskSpecStep, DefineStep, RaiseStatementStep, EndOfCodeStep, EndOfPrologStep, LeaveStep
  DEF LoaderStep
<1>3. CASE \E s \in Specs : LoadSpec(s) \/ Edit(s) BY <1>3, LoadSpecStep, LoaderEditStep
<1>4. CASE UNCHANGED loaderVars
  <2>1. UNCHANGED <<code, checksum, module, classes, prolog, prolog_dict, frames, failing,
                    repository, answer, circular>>
    BY <1>4 DEF loaderVars
  <2>2. LoaderTypeOK' BY <2>1 DEF LoaderInv, LoaderTypeOK
  <2>3. StackOK' BY <2>1 DEF LoaderInv, StackOK
  <2>4. NamesOK' BY <2>1 DEF LoaderInv, NamesOK, NamesBefore, NamesIn
  <2>5. EditsOK' /\ ClassesOK' BY <2>1 DEF LoaderInv, EditsOK, ClassesOK, NamesIn
  <2>6. MadeOK' /\ AnswerOK' BY <2>1 DEF LoaderInv, MadeOK, AnswerOK
  <2>7. QED BY <2>2, <2>3, <2>4, <2>5, <2>6 DEF LoaderInv
<1>5. QED BY <1>1, <1>2, <1>3, <1>4 DEF LoaderNext

\* Whoever asks for a specification gets one class, whole and of the code that
\* was read, for any files, prolog, order of calls and edits meanwhile.
THEOREM LoadedRightHolds == LoaderSpec => []LoadedRight
<1>1. QED BY LoaderInitInv, LoaderInvStep, LoaderRight, PTL DEF LoaderSpec

----------------------------------------------------------------------------
(* The inductive invariant of the environments.                            *)

EnvPlatform == {LocalPlatform} \cup HostPlatforms
AnyDirectory == Directories \cup {TestDir}
EnvWords == {"old", "new", "UTC", "defaultbranch"}
AnyEnviron == [Variables -> Seq(EnvWords)]

EnvType ==
  [build : EnvPlatform, host : EnvPlatform, target : EnvPlatform, environ : AnyEnviron,
   cwd : AnyDirectory]
SurroundingsType ==
  [platforms : [Roles -> EnvPlatform], environ : AnyEnviron, cwd : AnyDirectory]

EnvTypeOK ==
  /\ instance \in EnvType /\ environ \in AnyEnviron /\ cwd \in AnyDirectory
  /\ directories \subseteq AnyDirectory
  /\ context \in Seq(EnvType) /\ saves \in Seq(SurroundingsType)
  /\ env_files \in [EnvFiles -> SUBSET EnvType]
  /\ file_saves \in [EnvFiles -> SUBSET SurroundingsType]
  /\ env_blocks \in Seq([kind : {"mock", "protect"}, found : SurroundingsType, depth : Nat])

\* An environment that was stored in these surroundings.
Keeps(env, found) ==
  /\ \A r \in Roles : found.platforms[r] = env[r]
  /\ found.environ = env.environ /\ found.cwd = env.cwd

SavesOK ==
  /\ Len(context) = Len(saves)
  /\ \A i \in 1..Len(saves) : Keeps(context[i], saves[i])
  /\ \A f \in EnvFiles : /\ file_saves[f] = {} <=> env_files[f] = {}
                         /\ \A env \in env_files[f], found \in file_saves[f] : Keeps(env, found)

\* A block has its own save as long as its depth is not 0.
BlocksOK ==
  \A i \in 1..Len(env_blocks) : env_blocks[i].depth # 0 =>
     /\ env_blocks[i].depth <= Len(saves)
     /\ saves[env_blocks[i].depth] = env_blocks[i].found

EnvInv == EnvTypeOK /\ SavesOK /\ BlocksOK /\ RestoredRight

LEMMA EnvInitInv == EnvironmentInit => EnvInv
<1> SUFFICES ASSUME EnvironmentInit PROVE EnvInv OBVIOUS
<1> USE DEF EnvironmentInit
<1>1. [v \in Variables |-> NotSet] \in AnyEnviron /\ environ \in AnyEnviron
  <2>1. <<>> \in Seq(EnvWords) /\ <<"old">> \in Seq(EnvWords) BY DEF EnvWords
  <2>2. environ = [v \in Variables |->
                     IF v \in {"PATH", "E3_HOSTNAME"} THEN <<"old">> ELSE <<>>]
    BY DEF NotSet
  <2>3. QED BY <2>1, <2>2 DEF AnyEnviron, NotSet
<1>2. LocalPlatform \in EnvPlatform /\ cwd \in AnyDirectory BY DEF EnvPlatform, AnyDirectory
<1>3. instance \in EnvType BY <1>1, <1>2 DEF EnvType
<1>4. env_files \in [EnvFiles -> SUBSET EnvType]
      /\ file_saves \in [EnvFiles -> SUBSET SurroundingsType]
  BY DEF Nothing
<1>5. EnvTypeOK BY <1>1, <1>2, <1>3, <1>4 DEF EnvTypeOK, AnyDirectory
<1>6. SavesOK BY DEF SavesOK, Nothing
<1>7. BlocksOK /\ RestoredRight BY DEF BlocksOK, RestoredRight, Nothing
<1>8. QED BY <1>5, <1>6, <1>7 DEF EnvInv

LEMMA StoredRight ==
  ASSUME EnvTypeOK
  PROVE  /\ Stored \in EnvType /\ Surroundings \in SurroundingsType
         /\ CanStore => Keeps(Stored, Surroundings)
<1>1. instance \in EnvType /\ environ \in AnyEnviron /\ cwd \in AnyDirectory
  BY DEF EnvTypeOK
<1>3. instance.cwd \in AnyDirectory BY <1>1 DEF EnvType
<1>4. Stored = [instance EXCEPT !.environ = environ,
                                !.cwd = IF CanStore THEN cwd ELSE instance.cwd]
  BY DEF Stored
<1>5. \A r \in Roles : instance[r] \in EnvPlatform BY <1>1 DEF EnvType, Roles
<1>6. /\ Surroundings \in SurroundingsType
      /\ Surroundings.environ = environ /\ Surroundings.cwd = cwd
      /\ \A r \in Roles : Surroundings.platforms[r] = instance[r]
  BY <1>1, <1>5 DEF Surroundings, SurroundingsType
<1>7. CASE CanStore
  <2>1. Stored = [instance EXCEPT !.environ = environ, !.cwd = cwd] BY <1>4, <1>7
  <2>2. /\ Stored \in EnvType /\ Stored.environ = environ /\ Stored.cwd = cwd
        /\ \A r \in Roles : Stored[r] = instance[r]
    BY <1>1, <2>1 DEF EnvType, Roles
  <2>3. QED BY <1>6, <2>2 DEF Keeps
<1>8. CASE ~CanStore
  <2>1. Stored = [instance EXCEPT !.environ = environ, !.cwd = instance.cwd] BY <1>4, <1>8
  <2>2. Stored \in EnvType BY <1>1, <1>3, <2>1 DEF EnvType
  <2>3. QED BY <1>6, <1>8, <2>2
<1>9. QED BY <1>7, <1>8

\* What is restored is what was found.
LEMMA TakeUpRight ==
  ASSUME EnvTypeOK, NEW saved \in EnvType, TakeUp(saved)
  PROVE  /\ instance' \in EnvType /\ environ' \in AnyEnviron /\ cwd' \in AnyDirectory
         /\ \A found : Keeps(saved, found) /\ found \in SurroundingsType =>
              /\ Surroundings'.platforms = found.platforms /\ environ' = found.environ
              /\ found.cwd \in directories => cwd' = found.cwd
<1>1. saved.environ \in AnyEnviron /\ environ \in AnyEnviron /\ saved.cwd \in AnyDirectory
      /\ cwd \in AnyDirectory
  BY DEF EnvType, EnvTypeOK
<1>2. environ' = saved.environ
  <2>1. \A v \in Variables : RestoredEnviron(environ, saved.environ)[v] = saved.environ[v]
    BY DEF RestoredEnviron
  <2>2. RestoredEnviron(environ, saved.environ)
          = [v \in Variables |-> RestoredEnviron(environ, saved.environ)[v]]
    BY DEF RestoredEnviron
  <2>3. saved.environ = [v \in Variables |-> saved.environ[v]] BY <1>1 DEF AnyEnviron
  <2>4. RestoredEnviron(environ, saved.environ) = saved.environ BY <2>1, <2>2, <2>3
  <2>5. QED BY <2>4 DEF TakeUp
<1>3. instance' = saved /\ cwd' = IF saved.cwd \in directories THEN saved.cwd ELSE cwd
  BY DEF TakeUp
<1>4. ASSUME NEW found \in SurroundingsType, Keeps(saved, found)
      PROVE  Surroundings'.platforms = found.platforms
  <2>1. Surroundings'.platforms = [r \in Roles |-> saved[r]] BY <1>3 DEF Surroundings
  <2>2. found.platforms \in [Roles -> EnvPlatform] BY DEF SurroundingsType
  <2>3. \A r \in Roles : found.platforms[r] = saved[r] BY <1>4 DEF Keeps
  <2>4. QED BY <2>1, <2>2, <2>3
<1>5. QED BY <1>1, <1>2, <1>3, <1>4 DEF Keeps

LEMMA PopFacts ==
  ASSUME NEW S, NEW s \in Seq(S), s # <<>>
  PROVE  /\ Pop(s) \in Seq(S) /\ Len(Pop(s)) = Len(s) - 1 /\ Len(s) \in Nat \ {0}
         /\ \A k \in 1..(Len(s) - 1) : Pop(s)[k] = s[k] /\ k \in 1..Len(s)
<1> DEFINE n == Len(s) - 1
<1>1. n \in Nat /\ Len(s) = n + 1 /\ \A k \in 1..n : k \in 1..Len(s) OBVIOUS
<1> HIDE DEF n
<1>2. \A k \in 1..n : s[k] \in S BY <1>1
<1>3. /\ SubSeq(s, 1, n) \in Seq(S)
      /\ Len(SubSeq(s, 1, n)) = IF 1 <= n THEN n - 1 + 1 ELSE 0
      /\ \A k \in 1..(n - 1 + 1) : SubSeq(s, 1, n)[k] = s[1 + k - 1]
  BY <1>1, <1>2, SubSeqProperties
<1>4. n - 1 + 1 = n /\ \A k \in 1..n : 1 + k - 1 = k BY <1>1
<1>5. Len(SubSeq(s, 1, n)) = n BY <1>1, <1>3
<1>6. \A k \in 1..n : SubSeq(s, 1, n)[k] = s[k] BY <1>3, <1>4
<1>7. Pop(s) = SubSeq(s, 1, n) BY DEF Pop, n
<1>8. QED BY <1>1, <1>3, <1>5, <1>6, <1>7 DEF n

BlockType == [kind : {"mock", "protect"}, found : SurroundingsType, depth : Nat]

\* The blocks that are left have what they found.
OwnSaves(entered) ==
  /\ entered \in Seq(BlockType)
  /\ \A i \in 1..Len(entered) : entered[i].depth # 0 =>
       entered[i].depth <= Len(saves) /\ saves[entered[i].depth] = entered[i].found

LEMMA PopToStep ==
  ASSUME EnvInv, NEW expected, expected \subseteq SurroundingsType, NEW entered,
         OwnSaves(entered), PopTo(expected, entered),
         \A found \in expected : saves # <<>> => found = Top(saves),
         UNCHANGED <<env_files, file_saves>>, directories' \subseteq directories
  PROVE  EnvInv'
<1> USE DEF EnvInv
<1>1. CASE context = <<>>
  <2>1. /\ restored' = {} /\ env_blocks' = entered
        /\ UNCHANGED <<instance, context, environ, cwd, saves>>
    BY <1>1 DEF PopTo, NothingRestored, Nothing
  <2>2. EnvTypeOK' BY <2>1 DEF EnvTypeOK, OwnSaves, BlockType
  <2>3. SavesOK' BY <2>1 DEF SavesOK
  <2>4. BlocksOK' BY <2>1 DEF BlocksOK, OwnSaves
  <2>5. QED BY <2>1, <2>2, <2>3, <2>4 DEF RestoredRight
<1>2. CASE context # <<>>
  <2>1. /\ TakeUp(Top(context)) /\ context' = Pop(context)
        /\ saves' = Pop(saves) /\ restored' = expected
        /\ env_blocks' =
             [i \in DOMAIN entered |-> [entered[i] EXCEPT !.depth = IF @ < Len(saves) THEN @ ELSE 0]]
    BY <1>2 DEF PopTo
  <2> DEFINE n == Len(saves)
  <2>2. /\ context \in Seq(EnvType) /\ saves \in Seq(SurroundingsType) /\ saves # <<>>
        /\ Len(context) = n /\ n \in Nat \ {0} /\ n \in 1..n
    BY <1>2 DEF EnvTypeOK, SavesOK
  <2>3. Top(context) \in EnvType /\ Keeps(Top(context), Top(saves)) /\ Top(saves) \in SurroundingsType
    BY <2>2 DEF Top, SavesOK
  <2>4. /\ instance' \in EnvType /\ environ' \in AnyEnviron /\ cwd' \in AnyDirectory
        /\ Surroundings'.platforms = Top(saves).platforms /\ environ' = Top(saves).environ
        /\ Top(saves).cwd \in directories => cwd' = Top(saves).cwd
    BY <2>1, <2>3, TakeUpRight
  <2>5. /\ context' \in Seq(EnvType) /\ saves' \in Seq(SurroundingsType)
        /\ Len(context') = n - 1 /\ Len(saves') = n - 1
        /\ \A i \in 1..(n - 1) : context'[i] = context[i] /\ saves'[i] = saves[i] /\ i \in 1..n
    BY <1>2, <2>1, <2>2, PopFacts
  <2>6. /\ env_blocks' \in Seq(BlockType) /\ Len(env_blocks') = Len(entered)
        /\ \A i \in 1..Len(entered) :
             /\ env_blocks'[i].found = entered[i].found
             /\ env_blocks'[i].depth = IF entered[i].depth < n THEN entered[i].depth ELSE 0
    <3>1. entered \in Seq(BlockType) /\ DOMAIN entered = 1..Len(entered) /\ Len(entered) \in Nat
      BY DEF OwnSaves
    <3>2. \A b \in BlockType :
            LET c == [b EXCEPT !.depth = IF @ < n THEN @ ELSE 0]
            IN  c \in BlockType /\ c.found = b.found
                /\ c.depth = IF b.depth < n THEN b.depth ELSE 0
      BY DEF BlockType
    <3>3. \A i \in 1..Len(entered) : entered[i] \in BlockType BY <3>1
    <3>4. \A i \in 1..Len(entered) :
            env_blocks'[i] = [entered[i] EXCEPT !.depth = IF @ < n THEN @ ELSE 0]
      BY <2>1, <3>1
    <3>5. env_blocks' \in [1..Len(entered) -> BlockType]
      <4> HIDE DEF n
      <4>1. \A i \in 1..Len(entered) : env_blocks'[i] \in BlockType BY <3>2, <3>3, <3>4
      <4>2. env_blocks' = [i \in 1..Len(entered) |-> env_blocks'[i]] BY <2>1, <3>1, <3>4
      <4>3. QED BY <4>1, <4>2
    <3>6. env_blocks' \in Seq(BlockType) /\ Len(env_blocks') = Len(entered)
      BY <3>1, <3>5, IsASeq, LenProperties
    <3>7. QED BY <3>2, <3>3, <3>4, <3>6
  <2>7. EnvTypeOK'
    <3>1. directories' \subseteq AnyDirectory BY DEF EnvTypeOK
    <3>2. QED BY <2>4, <2>5, <2>6, <3>1 DEF EnvTypeOK, BlockType
  <2>8. SavesOK'
    <3>1. \A i \in 1..Len(saves') : Keeps(context'[i], saves'[i]) BY <2>5 DEF SavesOK
    <3>2. QED BY <2>5, <3>1 DEF SavesOK
  <2>9. BlocksOK'
    <3> SUFFICES ASSUME NEW i \in 1..Len(entered), env_blocks'[i].depth # 0
                 PROVE  /\ env_blocks'[i].depth <= n - 1
                        /\ saves'[env_blocks'[i].depth] = env_blocks'[i].found
      BY <2>5, <2>6 DEF BlocksOK
    <3>1. entered[i] \in BlockType BY DEF OwnSaves
    <3>2. entered[i].depth \in Nat BY <3>1 DEF BlockType
    <3>3. env_blocks'[i].depth = entered[i].depth /\ entered[i].depth < n /\ entered[i].depth # 0
      BY <2>6
    <3>4. entered[i].depth \in 1..(n - 1) /\ saves[entered[i].depth] = entered[i].found
      BY <2>2, <3>2, <3>3 DEF OwnSaves
    <3>5. QED BY <2>5, <2>6, <3>3, <3>4
  <2>10. RestoredRight'
    <3>1. \A found \in expected : found = Top(saves) BY <2>2
    <3>2. QED BY <2>1, <2>4, <3>1 DEF RestoredRight
  <2>11. QED BY <2>7, <2>8, <2>9, <2>10
<1>3. QED BY <1>1, <1>2

LEMMA RestoreStep == ASSUME EnvInv, NEW f \in EnvFiles \cup {Memory}, Restore(f) PROVE EnvInv'
<1> USE DEF EnvInv
<1>1. UNCHANGED <<env_files, directories, file_saves, calls>> BY DEF Restore
<1>2. CASE f = Memory
  <2> DEFINE expected == IF saves = <<>> THEN Nothing ELSE {Top(saves)}
  <2>1. PopTo(expected, env_blocks) BY <1>2 DEF Restore
  <2>2. expected \subseteq SurroundingsType
    <3>1. saves \in Seq(SurroundingsType) BY DEF EnvTypeOK
    <3>2. saves # <<>> => Len(saves) \in 1..Len(saves) BY <3>1
    <3>3. saves # <<>> => Top(saves) \in SurroundingsType BY <3>1, <3>2 DEF Top
    <3>4. QED BY <3>3 DEF Nothing
  <2>3. OwnSaves(env_blocks) BY DEF OwnSaves, EnvTypeOK, BlocksOK, BlockType
  <2>4. \A found \in expected : saves # <<>> => found = Top(saves) OBVIOUS
  <2> HIDE DEF expected
  <2>5. QED BY <1>1, <2>1, <2>2, <2>3, <2>4, PopToStep
<1>3. CASE f # Memory
  <2>1. PICK saved \in env_files[f] : TakeUp(saved) BY <1>3 DEF Restore
  <2>2. restored' = file_saves[f] /\ UNCHANGED <<context, saves, env_blocks>>
    BY <1>3 DEF Restore
  <2>3. f \in EnvFiles /\ env_files[f] \subseteq EnvType /\ file_saves[f] \subseteq SurroundingsType
    BY <1>3 DEF EnvTypeOK
  <2>4. \A found \in file_saves[f] : Keeps(saved, found) BY <2>1, <2>3 DEF SavesOK
  <2>5. /\ instance' \in EnvType /\ environ' \in AnyEnviron /\ cwd' \in AnyDirectory
        /\ \A found \in file_saves[f] :
              /\ Surroundings'.platforms = found.platforms /\ environ' = found.environ
              /\ found.cwd \in directories => cwd' = found.cwd
    BY <2>1, <2>3, <2>4, TakeUpRight
  <2>6. EnvTypeOK' BY <1>1, <2>2, <2>5 DEF EnvTypeOK
  <2>7. SavesOK' /\ BlocksOK' BY <1>1, <2>2 DEF SavesOK, BlocksOK
  <2>8. RestoredRight' BY <1>1, <2>2, <2>5 DEF RestoredRight
  <2>9. QED BY <2>6, <2>7, <2>8
<1>4. QED BY <1>2, <1>3

\* One more save on the stack, and maybe a block that has it.
LEMMA PushEnvStep ==
  ASSUME EnvInv, CanStore, context' = Append(context, Stored), saves' = Append(saves, Surroundings),
         instance' \in EnvType, environ' \in AnyEnviron, cwd' \in AnyDirectory,
         directories' \subseteq AnyDirectory, NothingRestored, UNCHANGED <<env_files, file_saves>>,
         \/ env_blocks' = env_blocks
         \/ \E k \in {"mock", "protect"} : env_blocks' = Append(env_blocks, NewBlock(k))
  PROVE  EnvInv'
<1> USE DEF EnvInv
<1> DEFINE n == Len(saves)
<1>1. /\ context \in Seq(EnvType) /\ saves \in Seq(SurroundingsType) /\ Len(context) = n
      /\ n \in Nat /\ env_blocks \in Seq(BlockType)
  BY DEF EnvTypeOK, SavesOK, BlockType
<1>2. Stored \in EnvType /\ Surroundings \in SurroundingsType /\ Keeps(Stored, Surroundings)
  BY StoredRight
<1>3. /\ context' \in Seq(EnvType) /\ Len(context') = n + 1 /\ context'[n + 1] = Stored
      /\ \A i \in 1..n : context'[i] = context[i]
  BY <1>1, <1>2, AppendProperties
<1>4. /\ saves' \in Seq(SurroundingsType) /\ Len(saves') = n + 1 /\ saves'[n + 1] = Surroundings
      /\ \A i \in 1..n : saves'[i] = saves[i]
  BY <1>1, <1>2, AppendProperties
<1>5. \A i \in 1..(n + 1) : i = n + 1 \/ i \in 1..n BY <1>1
<1>6. SavesOK'
  <2>1. \A i \in 1..(n + 1) : Keeps(context'[i], saves'[i])
    BY <1>2, <1>3, <1>4, <1>5 DEF SavesOK
  <2>2. QED BY <1>3, <1>4, <2>1 DEF SavesOK
<1>7. ASSUME NEW b \in BlockType, b.depth # 0,
             b.depth <= n /\ saves[b.depth] = b.found
      PROVE  b.depth <= n + 1 /\ saves'[b.depth] = b.found
  <2>1. b.depth \in 1..n BY <1>1, <1>7 DEF BlockType
  <2>2. QED BY <1>1, <1>4, <1>7, <2>1
<1>8. \A i \in 1..Len(env_blocks) : env_blocks[i] \in BlockType /\ (env_blocks[i].depth # 0 =>
         env_blocks[i].depth <= n + 1 /\ saves'[env_blocks[i].depth] = env_blocks[i].found)
  <2> SUFFICES ASSUME NEW i \in 1..Len(env_blocks)
               PROVE  env_blocks[i] \in BlockType /\ (env_blocks[i].depth # 0 =>
                        env_blocks[i].depth <= n + 1
                        /\ saves'[env_blocks[i].depth] = env_blocks[i].found)
    OBVIOUS
  <2>1. env_blocks[i] \in BlockType BY <1>1
  <2>2. env_blocks[i].depth # 0 =>
           env_blocks[i].depth <= n /\ saves[env_blocks[i].depth] = env_blocks[i].found
    BY DEF BlocksOK
  <2> HIDE DEF n
  <2>3. QED BY <1>7, <2>1, <2>2
<1>9. env_blocks' \in Seq(BlockType) /\ BlocksOK'
  <2>1. CASE env_blocks' = env_blocks BY <1>1, <1>4, <1>8, <2>1 DEF BlocksOK
  <2>2. CASE \E k \in {"mock", "protect"} : env_blocks' = Append(env_blocks, NewBlock(k))
    <3>1. PICK k \in {"mock", "protect"} : env_blocks' = Append(env_blocks, NewBlock(k)) BY <2>2
    <3> DEFINE b == NewBlock(k)
    <3>2. b \in BlockType /\ b.found = Surroundings /\ b.depth = n + 1
      BY <1>1, <1>2 DEF NewBlock, BlockType
    <3> HIDE DEF b
    <3>3. /\ env_blocks' \in Seq(BlockType) /\ Len(env_blocks') = Len(env_blocks) + 1
          /\ env_blocks'[Len(env_blocks) + 1] = b /\ Len(env_blocks) \in Nat
          /\ \A i \in 1..Len(env_blocks) : env_blocks'[i] = env_blocks[i]
      BY <1>1, <3>1, <3>2, AppendProperties DEF b
    <3>4. \A i \in 1..Len(env_blocks') : i = Len(env_blocks) + 1 \/ i \in 1..Len(env_blocks)
      BY <3>3
    <3>5. ASSUME NEW i \in 1..Len(env_blocks'), env_blocks'[i].depth # 0
          PROVE  env_blocks'[i].depth <= n + 1 /\ saves'[env_blocks'[i].depth] = env_blocks'[i].found
      <4>1. CASE i = Len(env_blocks) + 1 BY <1>1, <1>4, <3>2, <3>3, <4>1
      <4>2. CASE i \in 1..Len(env_blocks)
        <5>1. env_blocks'[i] = env_blocks[i] BY <3>3, <4>2
        <5>2. QED BY <1>8, <3>5, <4>2, <5>1
      <4>3. QED BY <3>4, <4>1, <4>2
    <3>6. BlocksOK' BY <1>4, <3>5 DEF BlocksOK
    <3>7. QED BY <3>3, <3>6
  <2>3. QED BY <2>1, <2>2
<1>10. EnvTypeOK' BY <1>3, <1>4, <1>9 DEF EnvTypeOK, BlockType
<1>11. RestoredRight' BY DEF NothingRestored, Nothing, RestoredRight
<1>12. QED BY <1>6, <1>9, <1>10, <1>11

\* Nothing is saved nor restored.
LEMMA EnvChangeStep ==
  ASSUME EnvInv, instance' \in EnvType, environ' \in AnyEnviron, cwd' \in AnyDirectory,
         directories' \subseteq AnyDirectory, NothingRestored, EnvUnchanged
  PROVE  EnvInv'
<1>1. EnvTypeOK' BY DEF EnvInv, EnvTypeOK, EnvUnchanged
<1>2. SavesOK' /\ BlocksOK' BY DEF EnvInv, SavesOK, BlocksOK, EnvUnchanged
<1>3. RestoredRight' BY DEF NothingRestored, Nothing, RestoredRight
<1>4. QED BY <1>1, <1>2, <1>3 DEF EnvInv

LEMMA SetPlatformType ==
  ASSUME NEW e \in EnvType, NEW p \in EnvPlatform
  PROVE  /\ SetBuild(e, p) \in EnvType /\ SetTarget(e, p) \in EnvType
         /\ \A v : v = p \/ v.name \in {"target", "build"} =>
              SetHost(e, v) \in EnvType
         /\ SetTarget(e, [None EXCEPT !.name = "build"]) \in EnvType
<1>1. \A a, b, c \in EnvPlatform :
        [e EXCEPT !.build = a, !.host = b, !.target = c] \in EnvType
  BY DEF EnvType
<1>2. e.build \in EnvPlatform /\ e.host \in EnvPlatform /\ e.target \in EnvPlatform
  BY DEF EnvType
<1>3. \A a \in EnvPlatform : [e EXCEPT !.target = a] \in EnvType
                             /\ [e EXCEPT !.host = a, !.target = a] \in EnvType
  BY DEF EnvType
<1>4. SetBuild(e, p) \in EnvType BY <1>1 DEF SetBuild
<1>5. ASSUME NEW v, v = p \/ v.name \in {"target", "build"} PROVE SetHost(e, v) \in EnvType
  <2> DEFINE host == IF v = None THEN e.build
                     ELSE IF v.name \in {"target", "build"} THEN e[v.name] ELSE v
  <2>1. host \in EnvPlatform BY <1>2, <1>5
  <2>2. SetHost(e, v) = [e EXCEPT !.host = host, !.target = host] BY DEF SetHost
  <2> HIDE DEF host
  <2>3. QED BY <1>3, <2>1, <2>2
<1>6. ASSUME NEW v, v = p \/ v.name \in {"host", "build"} PROVE SetTarget(e, v) \in EnvType
  <2> DEFINE t == IF v = None THEN e.host
                  ELSE IF v.name \in {"host", "build"} THEN e[v.name] ELSE v
  <2>1. t \in EnvPlatform BY <1>2, <1>6
  <2>2. SetTarget(e, v) = [e EXCEPT !.target = t] BY DEF SetTarget
  <2> HIDE DEF t
  <2>3. QED BY <1>3, <2>1, <2>2
<1>7. [None EXCEPT !.name = "build"].name = "build" BY DEF None
<1>8. QED BY <1>4, <1>5, <1>6, <1>7

LEMMA EnvInvStep == EnvInv /\ [EnvironmentNext]_environmentVars => EnvInv'
<1> SUFFICES ASSUME EnvInv, [EnvironmentNext]_environmentVars PROVE EnvInv' OBVIOUS
<1>0. /\ EnvTypeOK /\ instance \in EnvType /\ environ \in AnyEnviron /\ cwd \in AnyDirectory
      /\ directories \subseteq AnyDirectory
  BY DEF EnvInv, EnvTypeOK
<1>1. ASSUME NEW f \in EnvFiles \cup {Memory}, Store(f) PROVE EnvInv'
  <2>1. /\ NothingRestored /\ UNCHANGED <<environ, cwd, directories, env_blocks>>
        /\ instance' = Stored /\ Stored \in EnvType
    BY <1>0, <1>1, StoredRight DEF Store, Called, Push
  <2>2. CASE f = Memory
    <3>1. UNCHANGED <<env_files, file_saves>> BY <1>1, <2>2 DEF Store
    <3>2. CASE CanStore
      <4>1. context' = Append(context, Stored) /\ saves' = Append(saves, Surroundings)
        BY <1>1, <2>2, <3>2 DEF Store, Push
      <4>2. QED BY <1>0, <2>1, <3>1, <3>2, <4>1, PushEnvStep
    <3>3. CASE ~CanStore
      <4>1. UNCHANGED <<context, saves>> BY <1>1, <2>2, <3>3 DEF Store, Push
      <4>2. EnvUnchanged BY <2>1, <3>1, <4>1 DEF EnvUnchanged
      <4>3. QED BY <1>0, <2>1, <4>2, EnvChangeStep
    <3>4. QED BY <3>2, <3>3
  <2>3. CASE f # Memory
    <3>1. f \in EnvFiles /\ UNCHANGED <<context, saves>> BY <1>1, <2>3 DEF Store
    <3>2. CASE CanStore
      <4>1. /\ env_files' = [env_files EXCEPT ![f] = {Stored}]
            /\ file_saves' = [file_saves EXCEPT ![f] = {Surroundings}]
        BY <1>1, <2>3, <3>2 DEF Store
      <4>2. Stored \in EnvType /\ Surroundings \in SurroundingsType /\ Keeps(Stored, Surroundings)
        BY <1>0, <3>2, StoredRight
      <4>3. env_files \in [EnvFiles -> SUBSET EnvType]
            /\ file_saves \in [EnvFiles -> SUBSET SurroundingsType]
        BY <1>0 DEF EnvTypeOK
      <4>4. EnvTypeOK' BY <1>0, <2>1, <3>1, <4>1, <4>2, <4>3 DEF EnvTypeOK
      <4>5. \A g \in EnvFiles :
              /\ env_files'[g] = IF g = f THEN {Stored} ELSE env_files[g]
              /\ file_saves'[g] = IF g = f THEN {Surroundings} ELSE file_saves[g]
        BY <4>1, <4>3
      <4>6. SavesOK' BY <3>1, <4>2, <4>5 DEF EnvInv, SavesOK
      <4>7. BlocksOK' BY <2>1, <3>1 DEF EnvInv, BlocksOK
      <4>8. RestoredRight' BY <2>1 DEF NothingRestored, Nothing, RestoredRight
      <4>9. QED BY <4>4, <4>6, <4>7, <4>8 DEF EnvInv
    <3>3. CASE ~CanStore
      <4>1. EnvUnchanged BY <1>1, <2>1, <2>3, <3>1, <3>3 DEF Store, EnvUnchanged
      <4>2. QED BY <1>0, <2>1, <4>1, EnvChangeStep
    <3>4. QED BY <3>2, <3>3
  <2>4. QED BY <2>2, <2>3
<1>2. ASSUME NEW p \in HostPlatforms, SetPlatform(p) PROVE EnvInv'
  <2>1. p \in EnvPlatform BY DEF EnvPlatform
  <2>2. [None EXCEPT !.name = "target"].name = "target" BY DEF None
  <2>3. instance' \in EnvType BY <1>0, <1>2, <2>1, <2>2, SetPlatformType DEF SetPlatform
  <2>4. QED BY <1>0, <1>2, <2>3, EnvChangeStep DEF SetPlatform, Called
<1>3. ASSUME NEW p \in HostPlatforms, EnterMock(p) PROVE EnvInv'
  <2>1. p \in EnvPlatform BY DEF EnvPlatform
  <2>2. instance' \in EnvType BY <1>0, <1>3, <2>1, StoredRight, SetPlatformType DEF EnterMock
  <2>3. QED BY <1>0, <1>3, <2>2, PushEnvStep DEF EnterMock, Called
<1>4. ASSUME NEW v \in {"PATH", "TZ"},
             DeleteVariable(v) \/ \E append \in BOOLEAN : AddSearchPath(v, append)
      PROVE  EnvInv'
  <2>1. /\ NotSet \in Seq(EnvWords)
        /\ \A s \in Seq(EnvWords) : /\ Append(s, "new") \in Seq(EnvWords)
                                    /\ <<"new">> \o s \in Seq(EnvWords)
    BY DEF EnvWords, NotSet
  <2>2. environ' \in AnyEnviron
    <3>1. v \in Variables /\ environ[v] \in Seq(EnvWords) BY <1>0 DEF AnyEnviron, Variables
    <3>2. \A x \in Seq(EnvWords) : [environ EXCEPT ![v] = x] \in AnyEnviron
      BY <1>0 DEF AnyEnviron
    <3>3. \E x \in Seq(EnvWords) : environ' = [environ EXCEPT ![v] = x]
      <4>1. CASE DeleteVariable(v) BY <2>1, <4>1 DEF DeleteVariable
      <4>2. CASE \E append \in BOOLEAN : AddSearchPath(v, append)
        <5>1. PICK append \in BOOLEAN : AddSearchPath(v, append) BY <4>2
        <5>2. CASE append BY <2>1, <3>1, <5>1, <5>2 DEF AddSearchPath
        <5>3. CASE ~append BY <2>1, <3>1, <5>1, <5>3 DEF AddSearchPath
        <5>4. QED BY <5>2, <5>3
      <4>3. QED BY <1>4, <4>1, <4>2
    <3>4. QED BY <3>2, <3>3
  <2>3. QED BY <1>0, <1>4, <2>2, EnvChangeStep DEF DeleteVariable, AddSearchPath, Called
<1>5. ASSUME NEW d \in directories, ChangeDirectory(d) \/ RemoveDirectory(d) PROVE EnvInv'
  <2>1. d \in AnyDirectory /\ directories \ {d} \subseteq AnyDirectory BY <1>0
  <2>2. QED BY <1>0, <1>5, <2>1, EnvChangeStep DEF ChangeDirectory, RemoveDirectory, Called
<1>6. ASSUME NEW k, LeaveBlockOf(k), directories' \subseteq directories PROVE EnvInv'
  <2> DEFINE block == Top(env_blocks)
             expected == IF Len(saves) = block.depth THEN {block.found} ELSE Nothing
  <2>1. env_blocks # <<>> /\ PopTo(expected, Pop(env_blocks)) /\ UNCHANGED <<env_files, file_saves>>
    BY <1>6 DEF LeaveBlockOf
  <2>2. env_blocks \in Seq(BlockType) /\ Len(env_blocks) \in 1..Len(env_blocks)
    BY <1>0, <2>1 DEF EnvTypeOK, BlockType
  <2>3. block \in BlockType /\ block = env_blocks[Len(env_blocks)] BY <2>2 DEF Top
  <2>4. expected \subseteq SurroundingsType BY <2>3 DEF BlockType, Nothing
  <2>5. \A found \in expected : saves # <<>> => found = Top(saves)
    <3> SUFFICES ASSUME Len(saves) = block.depth, saves # <<>> PROVE block.found = Top(saves)
      BY DEF Nothing
    <3>1. Len(saves) # 0 BY <1>0 DEF EnvTypeOK
    <3>2. QED BY <2>2, <2>3, <3>1 DEF EnvInv, BlocksOK, Top
  <2>6. OwnSaves(Pop(env_blocks)) BY <2>1, <2>2, PopFacts, SMTT(30) DEF OwnSaves, EnvInv, BlocksOK
  <2> HIDE DEF expected, block
  <2>7. QED BY <1>6, <2>1, <2>4, <2>5, <2>6, PopToStep
<1>7. CASE LeaveMock BY <1>6, <1>7 DEF LeaveMock
<1>8. CASE LeaveProtect BY <1>6, <1>8 DEF LeaveProtect
<1>9. CASE EnterProtect
  <2>1. /\ CanStore /\ Push /\ NothingRestored /\ UNCHANGED <<env_files, file_saves>>
        /\ directories' = directories \cup {TestDir} /\ cwd' = TestDir
        /\ environ' = [environ EXCEPT !["TZ"] = <<"UTC">>, !["E3_HOSTNAME"] = NotSet,
                                      !["GIT_CONFIG"] = Append(@, "defaultbranch")]
        /\ env_blocks' = Append(env_blocks, NewBlock("protect"))
    BY <1>9 DEF EnterProtect, Called
  <2>2. environ' \in AnyEnviron
    <3>1. \A s \in Seq(EnvWords) : Append(s, "defaultbranch") \in Seq(EnvWords)
      BY DEF EnvWords
    <3>2. <<"UTC">> \in Seq(EnvWords) /\ NotSet \in Seq(EnvWords) BY DEF EnvWords, NotSet
    <3>3. QED BY <1>0, <2>1, <3>1, <3>2 DEF AnyEnviron, Variables
  <2>3. /\ instance' \in EnvType /\ context' = Append(context, Stored)
        /\ saves' = Append(saves, Surroundings)
    BY <1>0, <2>1, StoredRight DEF Push
  <2>4. cwd' \in AnyDirectory /\ directories' \subseteq AnyDirectory
    BY <1>0, <2>1 DEF AnyDirectory
  <2>5. QED BY <2>1, <2>2, <2>3, <2>4, PushEnvStep
<1>10. CASE UNCHANGED environmentVars
  <2>1. UNCHANGED <<instance, context, env_files, environ, cwd, directories, env_blocks,
                    saves, file_saves, restored>>
    BY <1>10 DEF environmentVars
  <2>2. Surroundings' = Surroundings BY <2>1 DEF Surroundings
  <2>3. EnvTypeOK' BY <2>1 DEF EnvInv, EnvTypeOK
  <2>4. QED BY <2>1, <2>2, <2>3 DEF EnvInv, SavesOK, BlocksOK, RestoredRight
<1>11. QED
  BY <1>1, <1>2, <1>3, <1>4, <1>5, <1>7, <1>8, <1>9, <1>10, RestoreStep DEF EnvironmentNext

\* Every restore and every end of a block gives back the platforms, the
\* variables and the directory of the save it belongs to, however saves,
\* blocks and changes nest, and whatever directories are removed.
THEOREM RestoredRightHolds == EnvironmentSpec => []RestoredRight
<1>1. EnvInv => RestoredRight BY DEF EnvInv
<1>2. QED BY <1>1, EnvInitInv, EnvInvStep, PTL DEF EnvironmentSpec

-----------------------------------------------------------------------------
(* Smallest numbers, for the last value given.                             *)

LEMMA SmallestNat ==
  ASSUME NEW T \in SUBSET Nat, T # {}
  PROVE  \E n \in T : \A m \in T : n <= m
<1> DEFINE Intervals == {0..n : n \in T}
<1>1. Intervals \subseteq FiniteSubsetsOf(Nat) /\ Intervals # {}
  <2>1. \A n \in T : 0..n \in SUBSET Nat /\ IsFiniteSet(0..n) BY FS_Interval
  <2>2. QED BY <2>1 DEF FiniteSubsetsOf
<1>2. \E A \in Intervals : \A B \in Intervals : <<B, A>> \notin StrictSubsetOrdering(Nat)
  <2> HIDE DEF Intervals
  <2>1. IsWellFoundedOn(StrictSubsetOrdering(Nat), FiniteSubsetsOf(Nat))
    BY FS_StrictSubsetOrderingWellFounded
  <2>2. QED BY <1>1, <2>1, WFMin
<1>3. PICK n \in T : \A m \in T : <<0..m, 0..n>> \notin StrictSubsetOrdering(Nat)
  BY <1>2
<1>4. ASSUME NEW m \in T, m < n PROVE FALSE
  <2>1. 0..m \subseteq 0..n /\ n \in 0..n /\ n \notin 0..m BY <1>4
  <2>2. <<0..m, 0..n>> \in StrictSubsetOrdering(Nat) BY <2>1 DEF StrictSubsetOrdering
  <2>3. QED BY <1>3, <2>2
<1>5. \A m \in T : n <= m BY <1>4
<1>6. QED BY <1>5

----------------------------------------------------------------------------
(* Plans: environments.                                                    *)

\* Strings, the literals among them.
AnyString == STRING \cup NotPlatforms \cup {""}
PlanValue == {v \in [name : AnyString, machine : AnyString] : v.name = None.name => v = None}

PlanPlatform == [name : Platforms, machine : AnyString]

\* An environment of a plan.
PlanEnv ==
  [build : PlanPlatform, host : PlanPlatform, target : PlanPlatform, module : AnyString, enabled : BOOLEAN]
KnownArgs(S) == {a \in S : AllKnown(a)}

LEMMA ArgsTypes ==
  /\ \A a \in KnownArgs(BlockArgs) :
       /\ AllKnown(a)
       /\ a \in [build : PlanValue, host : PlanValue, target : PlanValue, module : AnyString,
                enabled : BOOLEAN]
  /\ \A a \in KnownArgs(ActionArgs) :
       /\ AllKnown(a)
       /\ a \in [build : PlanValue, host : PlanValue, target : PlanValue, module : AnyString,
                board : AnyString]
  /\ Servers \subseteq PlanPlatform /\ LocalPlatform \in PlanPlatform
<1>1. Value \subseteq PlanValue BY DEF Value, PlanValue, AnyString
<1>2. Platform \subseteq PlanPlatform BY DEF Platform, PlanPlatform, AnyString
<1>3. STRING \subseteq AnyString BY DEF AnyString
<1> HIDE DEF PlanPlatform, PlanValue, AnyString, Value, Platform
<1>4. ASSUME NEW a \in BlockArgs
      PROVE  a \in [build : PlanValue, host : PlanValue, target : PlanValue, module : AnyString,
                enabled : BOOLEAN]
  BY <1>1, <1>3, PlanAssumption
<1>5. ASSUME NEW a \in ActionArgs
      PROVE  a \in [build : PlanValue, host : PlanValue, target : PlanValue, module : AnyString,
                board : AnyString]
  BY <1>1, <1>3, PlanAssumption
<1>6. QED BY <1>2, <1>4, <1>5, PlanAssumption DEF KnownArgs

LEMMA KnownValue ==
  ASSUME NEW v \in PlanValue, Known(v)
  PROVE  v = None \/ v.name \in Roles \/ v \in PlanPlatform
<1>1. CASE v.name = "none" BY <1>1 DEF PlanValue, None
<1>2. CASE v.name \in Platforms
  <2>1. v \in [name : AnyString, machine : AnyString] BY DEF PlanValue
  <2>2. v \in PlanPlatform BY <1>2, <2>1 DEF PlanPlatform
  <2>3. QED BY <2>2
<1>3. QED BY <1>1, <1>2 DEF Known, None

LEMMA NoneFacts == None \in PlanValue /\ None.name = "none" /\ None.name \notin Roles /\ Known(None)
<1>1. None = [name |-> "none", machine |-> ""] BY DEF None
<1>2. None \in PlanValue
  <2>1. "none" \in AnyString /\ "" \in AnyString BY DEF AnyString, NotPlatforms, None
  <2>2. None \in [name : AnyString, machine : AnyString] BY <1>1, <2>1
  <2>3. QED BY <2>2 DEF PlanValue
<1>3. None.name \in Roles \cup Platforms \cup {None.name} OBVIOUS
<1>4. QED BY <1>1, <1>2, <1>3 DEF Roles, Known

LEMMA PlatformNames ==
  ASSUME NEW p \in PlanPlatform
  PROVE  /\ p.name \notin Roles /\ p.name # "none" /\ p # None
         /\ p \in PlanValue /\ Known(p)
<1>1. p.name \in Platforms /\ p.name \in STRING \ NotPlatforms BY PlanAssumption DEF PlanPlatform
<1>2. p.name \notin Roles /\ p.name # "none" BY <1>1 DEF NotPlatforms, None
<1>3. p # None /\ Known(p) BY <1>1, <1>2, NoneFacts DEF Known
<1>4. p \in [name : AnyString, machine : AnyString] 
  <2>1. Platforms \subseteq AnyString BY PlanAssumption DEF AnyString
  <2>2. QED BY <2>1 DEF PlanPlatform
<1>5. QED BY <1>2, <1>3, <1>4 DEF PlanValue, None

\* The platform of a value that is given, and its name.
LEMMA PlatformOfType ==
  ASSUME NEW e \in PlanEnv, NEW v \in PlanValue, Known(v), v # None, NEW propagate \in BOOLEAN
  PROVE  /\ PlatformOf(e, v, propagate) \in PlanPlatform
         /\ PlatformOf(e, v, propagate).name = IF v.name \in Roles THEN e[v.name].name ELSE v.name
<1>1. CASE v.name \in Roles
  <2>1. e[v.name] \in PlanPlatform BY <1>1 DEF PlanEnv, Roles
  <2>2. QED BY <1>1, <2>1 DEF PlatformOf
<1>2. CASE v.name \notin Roles
  <2>1. v \in PlanPlatform BY <1>2, KnownValue
  <2>2. [v EXCEPT !.machine = e.build.machine] \in PlanPlatform
        /\ [v EXCEPT !.machine = e.build.machine].name = v.name
    BY <2>1 DEF PlanPlatform, PlanEnv
  <2>3. QED BY <1>2, <2>1, <2>2 DEF PlatformOf
<1>3. QED BY <1>1, <1>2

PlanEnvOf(a, new, e) ==
  /\ new.build = IF a.build = None THEN e.build ELSE PlatformOf(e, a.build, TRUE)
  /\ new.host = IF a.host # None THEN PlatformOf(e, a.host, FALSE)
                ELSE IF a.build # None THEN new.build ELSE e.host
  /\ new.target = IF a.target # None THEN PlatformOf(e, a.target, FALSE)
                  ELSE IF {a.build, a.host} # {None} THEN new.host ELSE e.target

\* The three roles after a call of set_env.
LEMMA SetEnvRoles ==
  ASSUME NEW e \in PlanEnv, NEW a, AllKnown(a),
         a.build \in PlanValue, a.host \in PlanValue, a.target \in PlanValue
  PROVE  /\ SetEnv(e, a) \in PlanEnv
         /\ SetEnv(e, a).module = e.module /\ SetEnv(e, a).enabled = e.enabled
         /\ SetEnv(e, a).build = IF a.build = None THEN e.build ELSE PlatformOf(e, a.build, TRUE)
         /\ SetEnv(e, a).host = IF a.host # None THEN PlatformOf(e, a.host, FALSE)
                                ELSE IF a.build # None THEN SetEnv(e, a).build ELSE e.host
         /\ SetEnv(e, a).target = IF a.target # None THEN PlatformOf(e, a.target, FALSE)
                                  ELSE IF {a.build, a.host} # {None} THEN SetEnv(e, a).host
                                  ELSE e.target
<1> DEFINE build == IF a.build = None THEN e.build ELSE PlatformOf(e, a.build, TRUE)
           host == IF a.host # None THEN PlatformOf(e, a.host, FALSE)
                   ELSE IF a.build # None THEN build ELSE e.host
           target == IF a.target # None THEN PlatformOf(e, a.target, FALSE)
                     ELSE IF {a.build, a.host} # {None} THEN host ELSE e.target
<1>1. Known(a.build) /\ Known(a.host) /\ Known(a.target)
  BY DEF AllKnown, Roles
<1>2. build \in PlanPlatform
  <2>1. e.build \in PlanPlatform BY DEF PlanEnv
  <2>2. QED BY <1>1, <2>1, PlatformOfType
<1>3. host \in PlanPlatform
  <2>1. e.host \in PlanPlatform BY DEF PlanEnv
  <2> HIDE DEF build
  <2>2. QED BY <1>1, <1>2, <2>1, PlatformOfType
<1>4. target \in PlanPlatform
  <2>1. e.target \in PlanPlatform BY DEF PlanEnv
  <2> HIDE DEF host
  <2>2. QED BY <1>1, <1>3, <2>1, PlatformOfType
<1>5. SetEnv(e, a) = [e EXCEPT !.build = build, !.host = host, !.target = target]
  BY DEF SetEnv
<1> HIDE DEF build, host, target
<1>6. /\ SetEnv(e, a) \in PlanEnv
      /\ SetEnv(e, a).build = build /\ SetEnv(e, a).host = host /\ SetEnv(e, a).target = target
      /\ SetEnv(e, a).module = e.module /\ SetEnv(e, a).enabled = e.enabled
  BY <1>2, <1>3, <1>4, <1>5 DEF PlanEnv
<1>7. QED BY <1>6 DEF build, host, target

LEMMA DefaultsFacts ==
  ASSUME NEW e \in PlanEnv, NEW a \in KnownArgs(BlockArgs)
  PROVE  /\ Defaults(e, a) \in PlanEnv
         /\ Defaults(e, a).enabled = (e.enabled /\ a.enabled)
         /\ Defaults(e, a).build = SetEnv(e, a).build
         /\ Defaults(e, a).host = SetEnv(e, a).host
         /\ Defaults(e, a).target = SetEnv(e, a).target
<1>1. a \in [build : PlanValue, host : PlanValue, target : PlanValue, module : AnyString, enabled : BOOLEAN]
      /\ AllKnown(a)
  BY ArgsTypes
<1>2. SetEnv(e, a) \in PlanEnv /\ SetEnv(e, a).enabled = e.enabled
  <2>1. a.build \in PlanValue /\ a.host \in PlanValue /\ a.target \in PlanValue BY <1>1
  <2>2. QED BY <1>1, <2>1, SetEnvRoles
<1> DEFINE new == SetEnv(e, a)
<1>3. Defaults(e, a) = [new EXCEPT !.enabled = @ /\ a.enabled,
                                   !.module = IF a.module = "" THEN @ ELSE a.module]
  BY DEF Defaults
<1> HIDE DEF new
<1>4. new \in PlanEnv /\ new.enabled = e.enabled BY <1>2 DEF new
<1>5. /\ Defaults(e, a) \in PlanEnv
      /\ Defaults(e, a).enabled = (new.enabled /\ a.enabled)
      /\ Defaults(e, a).build = new.build
      /\ Defaults(e, a).host = new.host
      /\ Defaults(e, a).target = new.target
  BY <1>1, <1>3, <1>4 DEF PlanEnv
<1>6. QED BY <1>4, <1>5 DEF new

\* What _add_action asks set_env for.
LEMMA PropagatedFacts ==
  ASSUME NEW e \in PlanEnv, NEW a \in KnownArgs(ActionArgs)
  PROVE  LET p == Propagated(e, a)
         IN  /\ p.build \in PlanValue /\ p.host \in PlanValue /\ p.target \in PlanValue /\ AllKnown(p)
             /\ p.build = a.build
             /\ p.host = IF a.host = None /\ IsCanadian(e) THEN [None EXCEPT !.name = "host"]
                         ELSE a.host
             /\ p.target = IF a.target = [None EXCEPT !.name = e.host.name] THEN [None EXCEPT !.name = "host"]
                           ELSE IF a.target = None /\ IsCross(e)
                           THEN [None EXCEPT !.name = "target"] ELSE a.target
<1> DEFINE host == IF a.host = None /\ IsCanadian(e) THEN [None EXCEPT !.name = "host"] ELSE a.host
           target == IF a.target = [None EXCEPT !.name = e.host.name] THEN [None EXCEPT !.name = "host"]
                     ELSE IF a.target = None /\ IsCross(e)
                     THEN [None EXCEPT !.name = "target"] ELSE a.target
           p == Propagated(e, a)
<1>1. a \in [build : PlanValue, host : PlanValue, target : PlanValue, module : AnyString, board : AnyString]
      /\ AllKnown(a)
  BY ArgsTypes
<1>2. Known(a.build) /\ Known(a.host) /\ Known(a.target) BY <1>1 DEF AllKnown, Roles
<1>3. \A r \in Roles : [None EXCEPT !.name = r] \in PlanValue /\ Known([None EXCEPT !.name = r])
  <2> SUFFICES ASSUME NEW r \in Roles
               PROVE  [None EXCEPT !.name = r] \in PlanValue /\ Known([None EXCEPT !.name = r])
    OBVIOUS
  <2>1. r \in AnyString /\ r # "none" BY DEF Roles, AnyString, NotPlatforms
  <2>2. None \in [name : AnyString, machine : AnyString] BY NoneFacts DEF PlanValue
  <2>3. [None EXCEPT !.name = r] \in [name : AnyString, machine : AnyString]
        /\ [None EXCEPT !.name = r].name = r
    BY <2>1, <2>2
  <2>4. QED BY <2>1, <2>3, NoneFacts DEF PlanValue, Known
<1>4. host \in PlanValue /\ Known(host) BY <1>1, <1>2, <1>3 DEF Roles
<1>5. target \in PlanValue /\ Known(target) BY <1>1, <1>2, <1>3 DEF Roles
<1>6. p = [a EXCEPT !.host = host, !.target = target] BY DEF Propagated
<1> HIDE DEF host, target, p
<1>7. p.build = a.build /\ p.host = host /\ p.target = target BY <1>1, <1>6
<1>8. AllKnown(p) BY <1>2, <1>4, <1>5, <1>7 DEF AllKnown, Roles
<1>9. QED BY <1>1, <1>4, <1>5, <1>7, <1>8 DEF host, target, p

LEMMA RecordedFacts ==
  ASSUME NEW e \in PlanEnv, NEW a \in KnownArgs(ActionArgs)
  PROVE  LET new == SetEnv(e, Propagated(e, a))
             env == Recorded(e, a)
         IN  /\ env \in PlanEnv /\ env.enabled = e.enabled
             /\ env.module = IF a.module = "" THEN e.module ELSE a.module
             /\ env.build = new.build /\ env.host = new.host
             /\ env.target.name = new.target.name
             /\ a.board = "" => env.target = new.target
<1> DEFINE new == SetEnv(e, Propagated(e, a))
<1>1. a \in [build : PlanValue, host : PlanValue, target : PlanValue, module : AnyString, board : AnyString]
  BY ArgsTypes
<1>2. new \in PlanEnv /\ new.module = e.module /\ new.enabled = e.enabled
  <2> DEFINE p == Propagated(e, a)
  <2>1. p.build \in PlanValue /\ p.host \in PlanValue /\ p.target \in PlanValue /\ AllKnown(p)
    BY PropagatedFacts
  <2> HIDE DEF p
  <2>2. SetEnv(e, p) \in PlanEnv /\ SetEnv(e, p).module = e.module
        /\ SetEnv(e, p).enabled = e.enabled
    BY <2>1, SetEnvRoles
  <2>3. QED BY <2>2 DEF p
<1>3. Recorded(e, a) =
        [new EXCEPT !.module = IF a.module = "" THEN @ ELSE a.module,
                    !.target.machine = IF a.board = "" THEN @ ELSE a.board]
  BY DEF Recorded
<1> HIDE DEF new
<1>4. new.target \in PlanPlatform BY <1>2 DEF PlanEnv
<1> DEFINE told == [new.target EXCEPT !.machine = IF a.board = "" THEN @ ELSE a.board]
<1>5. told \in PlanPlatform /\ told.name = new.target.name /\ (a.board = "" => told = new.target)
  BY <1>1, <1>4 DEF PlanPlatform
<1>6. Recorded(e, a) = [new EXCEPT !.module = IF a.module = "" THEN @ ELSE a.module,
                                   !.target = told]
  BY <1>2, <1>3 DEF PlanEnv
<1> HIDE DEF told
<1>7. Recorded(e, a) \in PlanEnv BY <1>1, <1>2, <1>5, <1>6 DEF PlanEnv
<1>8. /\ Recorded(e, a).enabled = e.enabled
      /\ Recorded(e, a).module = IF a.module = "" THEN e.module ELSE a.module
      /\ Recorded(e, a).build = new.build /\ Recorded(e, a).host = new.host
      /\ Recorded(e, a).target = told
  BY <1>1, <1>2, <1>6 DEF PlanEnv
<1>9. QED BY <1>5, <1>7, <1>8 DEF new

\* An action is recorded as it is written.
LEMMA RecordedAsWritten ==
  ASSUME NEW e \in PlanEnv, NEW a \in KnownArgs(ActionArgs)
  PROVE  AsWritten(Recorded(e, a), e, a)
<1> DEFINE p == Propagated(e, a)
           new == SetEnv(e, p)
           env == Recorded(e, a)
<1>1. a \in [build : PlanValue, host : PlanValue, target : PlanValue, module : AnyString, board : AnyString]
      /\ AllKnown(a)
  BY ArgsTypes
<1>2. /\ p.build \in PlanValue /\ p.host \in PlanValue /\ p.target \in PlanValue /\ AllKnown(p)
      /\ p.build = a.build
      /\ p.host = IF a.host = None /\ IsCanadian(e) THEN [None EXCEPT !.name = "host"]
                  ELSE a.host
      /\ p.target = IF a.target = [None EXCEPT !.name = e.host.name] THEN [None EXCEPT !.name = "host"]
                    ELSE IF a.target = None /\ IsCross(e)
                    THEN [None EXCEPT !.name = "target"] ELSE a.target
  BY PropagatedFacts
<1>3. /\ env \in PlanEnv /\ env.module = IF a.module = "" THEN e.module ELSE a.module
      /\ env.build = new.build /\ env.host = new.host
      /\ env.target.name = new.target.name
      /\ a.board = "" => env.target = new.target
  BY RecordedFacts
<1> HIDE DEF p
<1>4. /\ new.build = IF p.build = None THEN e.build ELSE PlatformOf(e, p.build, TRUE)
      /\ new.host = IF p.host # None THEN PlatformOf(e, p.host, FALSE)
                    ELSE IF p.build # None THEN new.build ELSE e.host
      /\ new.target = IF p.target # None THEN PlatformOf(e, p.target, FALSE)
                      ELSE IF {p.build, p.host} # {None} THEN new.host ELSE e.target
  BY <1>2, SetEnvRoles
<1> HIDE DEF new, env
<1>5. Known(p.build) /\ Known(p.host) /\ Known(p.target) BY <1>2 DEF AllKnown, Roles
<1>6. e.build \in PlanPlatform /\ e.host \in PlanPlatform /\ e.target \in PlanPlatform BY DEF PlanEnv
<1>7. \A r \in Roles : [None EXCEPT !.name = r] # None /\ [None EXCEPT !.name = r].name = r
  BY DEF None, Roles
<1> DEFINE HostGiven == [None EXCEPT !.name = e.host.name]
<1>8. HostGiven.name = e.host.name /\ HostGiven # None
  <2>1. HostGiven.name = e.host.name BY DEF None
  <2>2. QED BY <1>6, <2>1, PlatformNames, NoneFacts
<1> HIDE DEF HostGiven
<1> DEFINE Said(v) == IF v.name \in Roles THEN e[v.name].name ELSE v.name
<1>9. a.build # None => env.build.name = Said(a.build)
  <2>1. SUFFICES ASSUME a.build # None PROVE new.build.name = Said(a.build) BY <1>3
  <2>2. new.build = PlatformOf(e, a.build, TRUE) BY <1>2, <1>4, <2>1
  <2>3. a.build \in PlanValue /\ Known(a.build) /\ TRUE \in BOOLEAN BY <1>2, <1>5
  <2>4. PlatformOf(e, a.build, TRUE).name = Said(a.build) BY <2>1, <2>3, PlatformOfType
  <2>5. QED BY <2>2, <2>4
<1>10. a.host # None => env.host.name = Said(a.host)
  <2>1. SUFFICES ASSUME a.host # None PROVE new.host.name = Said(a.host) BY <1>3
  <2>2. p.host = a.host BY <1>2, <2>1
  <2>3. new.host = PlatformOf(e, a.host, FALSE) BY <1>4, <2>1, <2>2
  <2>4. a.host \in PlanValue /\ Known(a.host) /\ FALSE \in BOOLEAN BY <1>2, <1>5, <2>2
  <2>5. PlatformOf(e, a.host, FALSE).name = Said(a.host) BY <2>1, <2>4, PlatformOfType
  <2>6. QED BY <2>3, <2>5
<1>11. a.target # None => env.target.name = Said(a.target)
  <2>1. CASE a.target = HostGiven
    <3>1. p.target = [None EXCEPT !.name = "host"] BY <1>2, <2>1 DEF HostGiven
    <3>2. p.target # None /\ p.target.name = "host" /\ "host" \in Roles BY <1>7, <3>1 DEF Roles
    <3>3. new.target.name = e.host.name BY <1>2, <1>4, <1>5, <3>2, PlatformOfType
    <3>4. a.target.name = e.host.name /\ a.target.name \notin Roles
      BY <1>6, <1>8, <2>1, PlatformNames
    <3>5. QED BY <1>3, <3>3, <3>4
  <2>2. CASE a.target # HostGiven
    <3>1. a.target # None => p.target = a.target BY <1>2, <2>2 DEF HostGiven
    <3>2. a.target # None => new.target.name = Said(a.target)
      BY <1>2, <1>4, <1>5, <3>1, PlatformOfType
    <3>3. QED BY <1>3, <3>2
  <2>3. QED BY <2>1, <2>2
<1>12. a.target = None /\ IsCross(e) => env.target.name = e.target.name
  <2>1. SUFFICES ASSUME a.target = None, IsCross(e) PROVE new.target.name = e.target.name
    BY <1>3
  <2>2. p.target = [None EXCEPT !.name = "target"] BY <1>2, <1>8, <2>1 DEF HostGiven
  <2>3. p.target # None /\ p.target.name = "target" /\ "target" \in Roles
    BY <1>7, <2>2 DEF Roles
  <2>4. QED BY <1>2, <1>4, <1>5, <2>3, PlatformOfType
<1>13. a.host = None /\ IsCanadian(e) => env.host = e.host
  <2>1. SUFFICES ASSUME a.host = None, IsCanadian(e) PROVE new.host = e.host BY <1>3
  <2>2. p.host = [None EXCEPT !.name = "host"] BY <1>2, <2>1
  <2>3. p.host # None /\ p.host.name = "host" /\ "host" \in Roles BY <1>7, <2>2 DEF Roles
  <2>4. QED BY <1>4, <2>3 DEF PlatformOf
<1>14. a.target = None /\ ~IsCross(e) /\ a.board = "" => ~IsCross(env)
  <2>1. SUFFICES ASSUME a.target = None, ~IsCross(e), a.board = "" PROVE new.target = new.host
    BY <1>3 DEF IsCross
  <2>2. p.target = None BY <1>2, <1>8, <2>1 DEF HostGiven
  <2>3. e.target = e.host BY <2>1 DEF IsCross
  <2>4. QED BY <1>4, <2>2, <2>3
<1>15. a.host = None /\ e.build = e.host => env.host = env.build
  <2>1. SUFFICES ASSUME a.host = None, e.build = e.host PROVE new.host = new.build BY <1>3
  <2>2. p.host = None BY <1>2, <2>1 DEF IsCanadian
  <2>3. QED BY <1>4, <2>1, <2>2
<1>16. \A r \in Roles : a[r] # None => env[r].name = Said(a[r])
  BY <1>9, <1>10, <1>11 DEF Roles
<1>17. AsWritten(env, e, a) BY <1>3, <1>12, <1>13, <1>14, <1>15, <1>16 DEF AsWritten
<1>18. QED BY <1>17 DEF env

\* The triplet of an environment, on this machine.
LEMMA TripletRight ==
  ASSUME NEW e \in PlanEnv
  PROVE  LET back == FromTriplet(NewEnv(LocalPlatform), e)
         IN  /\ RoleNames(back) = RoleNames(e)
             /\ IsCross(back) => IsCross(e)
             /\ IsCross(e) /\ TargetIsTold(e) => IsCross(back)
<1> DEFINE here == NewEnv(LocalPlatform)
           Said(p) == [p EXCEPT !.machine = ""]
           a == [build |-> IF e.build = LocalPlatform THEN None ELSE Said(e.build),
                 host |-> IF e.host = e.build THEN None ELSE Said(e.host),
                 target |-> IF e.target = e.host THEN None ELSE e.target]
           back == FromTriplet(here, e)
<1>1. e.build \in PlanPlatform /\ e.host \in PlanPlatform /\ e.target \in PlanPlatform
      /\ LocalPlatform \in PlanPlatform
  BY ArgsTypes DEF PlanEnv
<1>2. here \in PlanEnv /\ here.build = LocalPlatform /\ here.host = LocalPlatform
      /\ here.target = LocalPlatform
  BY <1>1 DEF NewEnv, PlanEnv, AnyString
<1>3. back = SetEnv(here, a) BY Zenon DEF FromTriplet
<1>4. ASSUME NEW p \in PlanPlatform
      PROVE  /\ Said(p) \in PlanPlatform /\ Said(p).name = p.name /\ Said(p).machine = ""
             /\ Said(p) # None /\ Said(p).name \notin Roles /\ Said(p) \in PlanValue /\ Known(Said(p))
             /\ p # None /\ p.name \notin Roles /\ p \in PlanValue /\ Known(p)
  <2>1. Said(p) \in PlanPlatform /\ Said(p).name = p.name /\ Said(p).machine = ""
    BY DEF PlanPlatform, AnyString
  <2> HIDE DEF Said
  <2>2. QED BY <2>1, PlatformNames
<1> HIDE DEF Said
<1>5. a.build \in PlanValue /\ Known(a.build) BY <1>1, <1>4, NoneFacts
<1>6. a.host \in PlanValue /\ Known(a.host) BY <1>1, <1>4, NoneFacts
<1>7. a.target \in PlanValue /\ Known(a.target) BY <1>1, <1>4, NoneFacts
<1>8. /\ a.build = IF e.build = LocalPlatform THEN None ELSE Said(e.build)
      /\ a.host = IF e.host = e.build THEN None ELSE Said(e.host)
      /\ a.target = IF e.target = e.host THEN None ELSE e.target
  OBVIOUS
<1> HIDE DEF a, here
<1>9. AllKnown(a) BY <1>5, <1>6, <1>7 DEF AllKnown, Roles
<1>10. /\ back.build = IF a.build = None THEN here.build ELSE PlatformOf(here, a.build, TRUE)
       /\ back.host = IF a.host # None THEN PlatformOf(here, a.host, FALSE)
                      ELSE IF a.build # None THEN back.build ELSE here.host
       /\ back.target = IF a.target # None THEN PlatformOf(here, a.target, FALSE)
                        ELSE IF {a.build, a.host} # {None} THEN back.host ELSE here.target
  <2> HIDE DEF back
  <2>1. PlanEnvOf(a, back, here) BY <1>2, <1>3, <1>5, <1>6, <1>7, <1>9, SetEnvRoles DEF PlanEnvOf
  <2>2. QED BY <2>1 DEF PlanEnvOf
<1> HIDE DEF back
<1>11. /\ e.build = LocalPlatform => back.build = LocalPlatform
       /\ e.build # LocalPlatform => back.build.name = e.build.name
                                    /\ back.build.machine = LocalPlatform.machine
  <2>1. CASE e.build = LocalPlatform BY <1>2, <1>8, <1>10, <2>1
  <2>2. CASE e.build # LocalPlatform
    <3>1. a.build # None /\ a.build = Said(e.build) BY <1>1, <1>4, <1>8, <2>2
    <3>2. back.build = PlatformOf(here, Said(e.build), TRUE) BY <1>10, <3>1
    <3>3. back.build = [Said(e.build) EXCEPT !.machine = LocalPlatform.machine]
      BY <1>1, <1>2, <1>4, <3>2 DEF PlatformOf
    <3>4. Said(e.build) \in PlanPlatform /\ Said(e.build).name = e.build.name BY <1>1, <1>4
    <3>5. QED BY <2>2, <3>3, <3>4 DEF PlanPlatform
  <2>3. QED BY <2>1, <2>2
<1>12. back.build.name = e.build.name BY <1>11
<1>13. e.host = e.build => back.host = back.build
  <2>1. SUFFICES ASSUME e.host = e.build PROVE back.host = back.build OBVIOUS
  <2>2. a.host = None BY <1>8, <2>1
  <2>3. QED BY <1>2, <1>10, <2>2
<1>14. e.host # e.build => back.host = Said(e.host)
  BY <1>1, <1>4, <1>8, <1>10 DEF PlatformOf
<1>15. back.host.name = e.host.name BY <1>1, <1>4, <1>12, <1>13, <1>14
<1>16. e.target = e.host => back.target = back.host
  <2>1. SUFFICES ASSUME e.target = e.host PROVE back.target = back.host OBVIOUS
  <2>2. a.target = None BY <1>8, <2>1
  <2>3. QED BY <1>2, <1>10, <2>2
<1>17. e.target # e.host => back.target = e.target
  BY <1>1, <1>4, <1>8, <1>10 DEF PlatformOf
<1>18. RoleNames(back) = RoleNames(e)
  BY <1>12, <1>15, <1>16, <1>17 DEF RoleNames, Roles
<1>19. IsCross(back) => IsCross(e) BY <1>16 DEF IsCross
<1>20. ASSUME IsCross(e), TargetIsTold(e), ~IsCross(back) PROVE FALSE
  <2>1. back.target = e.target /\ back.target = back.host BY <1>17, <1>20 DEF IsCross
  <2>2. e.target.name = e.host.name BY <1>15, <2>1
  <2>3. e.target.machine \notin {"", LocalPlatform.machine} BY <1>20, <2>2 DEF TargetIsTold
  <2>4. CASE e.host # e.build BY <1>1, <1>4, <1>14, <2>1, <2>3, <2>4
  <2>5. CASE e.host = e.build
    <3>1. back.host = back.build BY <1>13, <2>5
    <3>2. back.build.machine = LocalPlatform.machine BY <1>11
    <3>3. QED BY <2>1, <2>3, <3>1, <3>2
  <2>6. QED BY <2>4, <2>5
<1>21. QED BY <1>18, <1>19, <1>20 DEF back, here

\* The environments in force after each of the blocks of b, from the outside in.
EnvsTo(s, b, m, F) ==
  F = [n \in 0..m |-> IF n = 0 THEN NewEnv(s) ELSE Defaults(F[n - 1], b[n])]
EnvIn(s, b) == (CHOOSE F : EnvsTo(s, b, Len(b), F))[Len(b)]
BlockSeq == Seq(KnownArgs(BlockArgs))

LEMMA NewEnvType ==
  ASSUME NEW s \in Servers
  PROVE  /\ NewEnv(s) \in PlanEnv /\ NewEnv(s).enabled = TRUE
         /\ \A r \in Roles : NewEnv(s)[r] = s
<1>1. s \in PlanPlatform BY ArgsTypes
<1>2. "" \in AnyString BY DEF AnyString
<1>3. NewEnv(s) \in PlanEnv BY <1>1, <1>2 DEF NewEnv, PlanEnv
<1>4. NewEnv(s).enabled = TRUE BY DEF NewEnv
<1>5. NewEnv(s).build = s /\ NewEnv(s).host = s /\ NewEnv(s).target = s BY DEF NewEnv
<1>6. \A r \in Roles : NewEnv(s)[r] = s
  <2> HIDE DEF NewEnv
  <2>1. QED BY <1>5 DEF Roles
<1>7. QED BY <1>3, <1>4, <1>6

LEMMA EnvsExist ==
  ASSUME NEW s \in Servers, NEW b \in BlockSeq, NEW m \in 0..Len(b)
  PROVE  \E F : EnvsTo(s, b, m, F)
<1> DEFINE T == {n \in 0..Len(b) : ~ \E F : EnvsTo(s, b, n, F)}
<1>0. Len(b) \in Nat BY DEF BlockSeq
<1>1. ASSUME NEW n \in T, \A k \in T : n <= k PROVE FALSE
  <2>1. n \in 0..Len(b) /\ ~ \E F : EnvsTo(s, b, n, F) OBVIOUS
  <2>2. CASE n = 0
    <3> DEFINE F == [k \in 0..0 |-> NewEnv(s)]
    <3>1. F = [k \in 0..0 |-> IF k = 0 THEN NewEnv(s) ELSE Defaults(F[k - 1], b[k])]
      OBVIOUS
    <3>2. EnvsTo(s, b, 0, F) BY <3>1 DEF EnvsTo
    <3>3. QED BY <2>1, <2>2, <3>2
  <2>3. CASE n # 0
    <3>1. n - 1 \in 0..Len(b) /\ n - 1 < n BY <1>0, <2>1, <2>3
    <3>2. n - 1 \notin T BY <1>1, <3>1
    <3>3. PICK G : EnvsTo(s, b, n - 1, G) BY <3>1, <3>2
    <3>4. G = [k \in 0..(n - 1) |-> IF k = 0 THEN NewEnv(s) ELSE Defaults(G[k - 1], b[k])]
      BY <3>3 DEF EnvsTo
    <3> DEFINE F == [k \in 0..n |-> IF k < n THEN G[k] ELSE Defaults(G[n - 1], b[n])]
    <3>5. \A k \in 0..n : F[k] = IF k = 0 THEN NewEnv(s) ELSE Defaults(F[k - 1], b[k])
      <4> SUFFICES ASSUME NEW k \in 0..n
                   PROVE  F[k] = IF k = 0 THEN NewEnv(s) ELSE Defaults(F[k - 1], b[k])
        OBVIOUS
      <4>1. CASE k = n
        <5>1. F[k] = Defaults(G[n - 1], b[n]) BY <4>1
        <5>2. F[k - 1] = G[n - 1] BY <2>1, <2>3, <4>1
        <5>3. QED BY <2>3, <4>1, <5>1, <5>2
      <4>2. CASE k # n
        <5>1. k \in 0..(n - 1) /\ F[k] = G[k] BY <2>1, <4>2
        <5>2. G[k] = IF k = 0 THEN NewEnv(s) ELSE Defaults(G[k - 1], b[k]) BY <3>4, <5>1
        <5>3. k # 0 => F[k - 1] = G[k - 1] BY <2>1, <5>1
        <5> HIDE DEF F
        <5>4. QED BY <5>1, <5>2, <5>3
      <4>3. QED BY <4>1, <4>2
    <3>6. F = [k \in 0..n |-> F[k]] OBVIOUS
    <3> HIDE DEF F
    <3>7. F = [k \in 0..n |-> IF k = 0 THEN NewEnv(s) ELSE Defaults(F[k - 1], b[k])]
      BY <3>5, <3>6
    <3>8. EnvsTo(s, b, n, F) BY <3>7 DEF EnvsTo
    <3>9. QED BY <2>1, <3>8
  <2>4. QED BY <2>2, <2>3
<1>2. T \in SUBSET Nat BY <1>0
<1> HIDE DEF T
<1>3. T = {} BY <1>1, <1>2, SmallestNat
<1>4. QED BY <1>3 DEF T

EnvsStep(s, b, m, F) ==
  F[0] = NewEnv(s) /\ \A n \in 1..m : F[n] = Defaults(F[n - 1], b[n])

LEMMA EnvsSteps ==
  ASSUME NEW s, NEW b, NEW m \in Nat, NEW F, EnvsTo(s, b, m, F)
  PROVE  EnvsStep(s, b, m, F)
<1>1. F = [n \in 0..m |-> IF n = 0 THEN NewEnv(s) ELSE Defaults(F[n - 1], b[n])]
  BY DEF EnvsTo
<1>2. \A n \in 0..m : F[n] = IF n = 0 THEN NewEnv(s) ELSE Defaults(F[n - 1], b[n])
  BY <1>1
<1>3. QED BY <1>2 DEF EnvsStep

LEMMA EnvsAgree ==
  ASSUME NEW s \in Servers, NEW b \in BlockSeq, NEW c \in BlockSeq, Len(b) <= Len(c),
         \A n \in 1..Len(b) : b[n] = c[n],
         NEW F, EnvsTo(s, b, Len(b), F), NEW G, EnvsTo(s, c, Len(c), G)
  PROVE  \A n \in 0..Len(b) : F[n] = G[n]
<1> DEFINE T == {n \in 0..Len(b) : F[n] # G[n]}
<1>0. Len(b) \in Nat /\ Len(c) \in Nat BY DEF BlockSeq
<1>1. /\ F[0] = NewEnv(s) /\ \A n \in 1..Len(b) : F[n] = Defaults(F[n - 1], b[n])
      /\ G[0] = NewEnv(s) /\ \A n \in 1..Len(c) : G[n] = Defaults(G[n - 1], c[n])
  BY <1>0, EnvsSteps DEF EnvsStep
<1>2. ASSUME NEW n \in T, \A k \in T : n <= k PROVE FALSE
  <2>1. n \in 1..Len(b) /\ n \in 1..Len(c) BY <1>0, <1>1
  <2>2. n - 1 \in 0..Len(b) /\ n - 1 < n BY <1>0, <2>1
  <2>3. F[n - 1] = G[n - 1] BY <1>2, <2>2
  <2>4. F[n] = Defaults(F[n - 1], b[n]) /\ G[n] = Defaults(G[n - 1], c[n]) BY <1>1, <2>1
  <2>5. QED BY <2>1, <2>3, <2>4
<1>3. T \in SUBSET Nat BY <1>0
<1> HIDE DEF T
<1>4. T = {} BY <1>2, <1>3, SmallestNat
<1>5. QED BY <1>4 DEF T

\* What the environments are made of.
LEMMA EnvsTypes ==
  ASSUME NEW s \in Servers, NEW b \in BlockSeq, NEW F, EnvsTo(s, b, Len(b), F)
  PROVE  \A n \in 0..Len(b) : F[n] \in PlanEnv /\ (F[n].enabled <=> \A i \in 1..n : b[i].enabled)
<1> DEFINE Right(n) == F[n] \in PlanEnv /\ (F[n].enabled <=> \A i \in 1..n : b[i].enabled)
           T == {n \in 0..Len(b) : ~Right(n)}
<1>0. Len(b) \in Nat /\ \A n \in 1..Len(b) : b[n] \in KnownArgs(BlockArgs) BY DEF BlockSeq
<1>1. F[0] = NewEnv(s) /\ \A n \in 1..Len(b) : F[n] = Defaults(F[n - 1], b[n])
  <2>1. EnvsStep(s, b, Len(b), F) BY <1>0, EnvsSteps
  <2>2. QED BY <2>1 DEF EnvsStep
<1>2. ASSUME NEW n \in T, \A k \in T : n <= k PROVE FALSE
  <2>1. n \in 1..Len(b) 
    <3>0. 1..0 = {} OBVIOUS
    <3>1. F[0].enabled = TRUE BY <1>1, NewEnvType
    <3>2. Right(0) BY <1>1, <3>0, <3>1, NewEnvType
    <3>3. QED BY <1>0, <3>2
  <2>2. n - 1 \in 0..Len(b) /\ n - 1 < n BY <1>0, <2>1
  <2>3. Right(n - 1) BY <1>2, <2>2
  <2>4. b[n] \in KnownArgs(BlockArgs) /\ F[n] = Defaults(F[n - 1], b[n]) BY <1>0, <1>1, <2>1
  <2>5. F[n] \in PlanEnv /\ F[n].enabled = (F[n - 1].enabled /\ b[n].enabled)
    BY <2>3, <2>4, DefaultsFacts
  <2>6. (\A i \in 1..n : b[i].enabled) <=> ((\A i \in 1..(n - 1) : b[i].enabled) /\ b[n].enabled)
    <3>1. 1..n = 1..(n - 1) \cup {n} BY <2>1
    <3>2. QED BY <3>1
  <2>7. Right(n) BY <2>3, <2>5, <2>6
  <2>8. QED BY <2>7
<1>3. T \in SUBSET Nat BY <1>0
<1> HIDE DEF T
<1>4. T = {} BY <1>2, <1>3, SmallestNat
<1>5. QED BY <1>4 DEF T

LEMMA EnvInIs ==
  ASSUME NEW s \in Servers, NEW b \in BlockSeq
  PROVE  \E F : EnvsTo(s, b, Len(b), F) /\ EnvIn(s, b) = F[Len(b)]
<1>1. Len(b) \in 0..Len(b) BY DEF BlockSeq
<1>2. \E F : EnvsTo(s, b, Len(b), F) BY <1>1, EnvsExist
<1>3. QED BY <1>2 DEF EnvIn

LEMMA EnvInFacts ==
  ASSUME NEW s \in Servers, NEW b \in BlockSeq
  PROVE  EnvIn(s, b) \in PlanEnv /\ EnvIn(s, b).enabled = Enabled(b)
<1>1. PICK F : EnvsTo(s, b, Len(b), F) /\ EnvIn(s, b) = F[Len(b)] BY EnvInIs
<1>2. Len(b) \in 0..Len(b) /\ DOMAIN b = 1..Len(b) BY DEF BlockSeq
<1>3. F[Len(b)] \in PlanEnv /\ (F[Len(b)].enabled <=> \A i \in 1..Len(b) : b[i].enabled)
  BY <1>1, <1>2, EnvsTypes
<1>4. Enabled(b) <=> \A i \in 1..Len(b) : b[i].enabled BY <1>2 DEF Enabled
<1>5. F[Len(b)].enabled \in BOOLEAN BY <1>3 DEF PlanEnv
<1>6. Enabled(b) \in BOOLEAN BY DEF Enabled
<1>7. F[Len(b)].enabled = Enabled(b) BY <1>3, <1>4, <1>5, <1>6
<1>8. QED BY <1>1, <1>3, <1>7

LEMMA EnvInEmpty ==
  ASSUME NEW s \in Servers
  PROVE  <<>> \in BlockSeq /\ EnvIn(s, <<>>) = NewEnv(s)
<1>1. <<>> \in BlockSeq /\ Len(<<>>) = 0 BY DEF BlockSeq
<1>2. PICK b : b = <<>> OBVIOUS
<1>3. b \in BlockSeq /\ Len(b) = 0 BY <1>1, <1>2
<1>4. PICK F : EnvsTo(s, b, Len(b), F) /\ EnvIn(s, b) = F[Len(b)] BY <1>3, EnvInIs
<1>5. EnvsStep(s, b, 0, F) BY <1>3, <1>4, EnvsSteps
<1>6. F[0] = NewEnv(s) BY <1>5 DEF EnvsStep
<1>7. QED BY <1>2, <1>3, <1>4, <1>6

LEMMA EnvInAppend ==
  ASSUME NEW s \in Servers, NEW b \in BlockSeq, NEW a \in KnownArgs(BlockArgs)
  PROVE  Append(b, a) \in BlockSeq /\ EnvIn(s, Append(b, a)) = Defaults(EnvIn(s, b), a)
<1> DEFINE c == Append(b, a)
<1>1. /\ c \in BlockSeq /\ Len(c) = Len(b) + 1 /\ Len(b) \in Nat
      /\ c[Len(c)] = a /\ \A n \in 1..Len(b) : b[n] = c[n]
  BY DEF BlockSeq
<1> HIDE DEF c
<1>2. PICK F : EnvsTo(s, b, Len(b), F) /\ EnvIn(s, b) = F[Len(b)] BY EnvInIs
<1>3. PICK G : EnvsTo(s, c, Len(c), G) /\ EnvIn(s, c) = G[Len(c)] BY <1>1, EnvInIs
<1>4. F[Len(b)] = G[Len(b)]
  <2>1. Len(b) \in 0..Len(b) /\ Len(b) <= Len(c) BY <1>1
  <2>2. \A n \in 0..Len(b) : F[n] = G[n] BY <1>1, <1>2, <1>3, <2>1, EnvsAgree
  <2>3. QED BY <2>1, <2>2
<1>5. G[Len(c)] = Defaults(G[Len(b)], a)
  <2>1. Len(c) \in 1..Len(c) /\ Len(c) - 1 = Len(b) BY <1>1
  <2>2. \A n \in 1..Len(c) : G[n] = Defaults(G[n - 1], c[n])
    <3>1. Len(c) \in Nat /\ EnvsTo(s, c, Len(c), G) BY <1>1, <1>3
    <3>2. EnvsStep(s, c, Len(c), G) BY <3>1, EnvsSteps
    <3>3. QED BY <3>2 DEF EnvsStep
  <2>3. QED BY <1>1, <2>1, <2>2
<1>6. QED BY <1>1, <1>2, <1>3, <1>4, <1>5 DEF c

----------------------------------------------------------------------------
\* The names of the platforms, from the last value that decides each.
NamedAs(names, a, r) ==
  LET given == {i \in DOMAIN Deciders[r] : a[Deciders[r][i]] # None}
      first == CHOOSE i \in given : \A j \in given : i <= j
      v     == a[Deciders[r][first]].name
  IN  IF given = {} THEN names[r] ELSE IF v \in Roles THEN names[v] ELSE v

\* The value that decides the name of a role.
LEMMA FirstDecider ==
  ASSUME NEW a, NEW names
  PROVE  /\ NamedAs(names, a, "build") =
              IF a["build"] = None THEN names["build"]
              ELSE IF a["build"].name \in Roles THEN names[a["build"].name] ELSE a["build"].name
         /\ NamedAs(names, a, "host") =
              IF a["host"] # None
              THEN IF a["host"].name \in Roles THEN names[a["host"].name] ELSE a["host"].name
              ELSE IF a["build"] # None
              THEN IF a["build"].name \in Roles THEN names[a["build"].name] ELSE a["build"].name
              ELSE names["host"]
         /\ NamedAs(names, a, "target") =
              IF a["target"] # None
              THEN IF a["target"].name \in Roles THEN names[a["target"].name] ELSE a["target"].name
              ELSE IF a["host"] # None
              THEN IF a["host"].name \in Roles THEN names[a["host"].name] ELSE a["host"].name
              ELSE IF a["build"] # None
              THEN IF a["build"].name \in Roles THEN names[a["build"].name] ELSE a["build"].name
              ELSE names["target"]
<1> DEFINE Given(r) == {i \in DOMAIN Deciders[r] : a[Deciders[r][i]] # None}
           ByThe(w) == IF w.name \in Roles THEN names[w.name] ELSE w.name
<1>1. ASSUME NEW r \in Roles, NEW n \in DOMAIN Deciders[r], DOMAIN Deciders[r] \subseteq Nat,
             n \in Given(r), \A j \in Given(r) : n <= j
      PROVE  NamedAs(names, a, r) = ByThe(a[Deciders[r][n]])
  <2> DEFINE first == CHOOSE i \in Given(r) : \A j \in Given(r) : i <= j
  <2>1. first \in Given(r) /\ \A j \in Given(r) : first <= j BY <1>1
  <2>2. first \in Nat /\ n \in Nat /\ first <= n /\ n <= first BY <1>1, <2>1
  <2>3. first = n BY <2>2
  <2>4. Given(r) # {} BY <1>1
  <2>5. NamedAs(names, a, r) =
          IF Given(r) = {} THEN names[r]
          ELSE IF a[Deciders[r][first]].name \in Roles THEN names[a[Deciders[r][first]].name]
          ELSE a[Deciders[r][first]].name
    BY Zenon DEF NamedAs
  <2> HIDE DEF first, Given
  <2>6. QED BY <2>3, <2>4, <2>5
<1>2. ASSUME NEW r \in Roles, Given(r) = {} PROVE NamedAs(names, a, r) = names[r]
  BY <1>2, Zenon DEF NamedAs
<1>3. /\ Deciders["build"] = <<"build">> /\ Deciders["host"] = <<"host", "build">>
      /\ Deciders["target"] = <<"target", "host", "build">>
  BY DEF Deciders
<1>4. /\ DOMAIN Deciders["build"] = {1} /\ DOMAIN Deciders["host"] = {1, 2}
      /\ DOMAIN Deciders["target"] = {1, 2, 3}
  BY <1>3
<1>5. /\ Deciders["build"][1] = "build" /\ Deciders["host"][1] = "host"
      /\ Deciders["host"][2] = "build" /\ Deciders["target"][1] = "target"
      /\ Deciders["target"][2] = "host" /\ Deciders["target"][3] = "build"
  BY <1>3
<1>6. /\ \A i : i \in Given("build") <=> i = 1 /\ a["build"] # None
      /\ \A i : i \in Given("host") <=> (i = 1 /\ a["host"] # None) \/ (i = 2 /\ a["build"] # None)
      /\ \A i : i \in Given("target") <=> \/ i = 1 /\ a["target"] # None
                                          \/ i = 2 /\ a["host"] # None
                                          \/ i = 3 /\ a["build"] # None
  BY <1>4, <1>5
<1>7. "build" \in Roles /\ "host" \in Roles /\ "target" \in Roles BY DEF Roles
<1> HIDE DEF Given, ByThe
<1>8. NamedAs(names, a, "build") =
        IF a["build"] = None THEN names["build"] ELSE ByThe(a["build"])
  <2>1. CASE a["build"] = None
    <3>1. Given("build") = {} BY <1>6, <2>1
    <3>2. QED BY <1>2, <1>7, <2>1, <3>1
  <2>2. CASE a["build"] # None
    <3>1. 1 \in Given("build") /\ \A j \in Given("build") : 1 <= j BY <1>6, <2>2
    <3>2. 1 \in DOMAIN Deciders["build"] /\ DOMAIN Deciders["build"] \subseteq Nat BY <1>4
    <3>3. NamedAs(names, a, "build") = ByThe(a[Deciders["build"][1]])
      BY <1>1, <1>7, <3>1, <3>2
    <3>4. QED BY <1>5, <2>2, <3>3
  <2>3. QED BY <2>1, <2>2
<1>9. NamedAs(names, a, "host") =
        IF a["host"] # None THEN ByThe(a["host"])
        ELSE IF a["build"] # None THEN ByThe(a["build"]) ELSE names["host"]
  <2>0. DOMAIN Deciders["host"] \subseteq Nat /\ 1 \in DOMAIN Deciders["host"]
        /\ 2 \in DOMAIN Deciders["host"]
    BY <1>4
  <2>1. CASE a["host"] # None
    <3>1. 1 \in Given("host") /\ \A j \in Given("host") : 1 <= j BY <1>6, <2>1
    <3>2. NamedAs(names, a, "host") = ByThe(a[Deciders["host"][1]])
      BY <1>1, <1>7, <2>0, <3>1
    <3>3. QED BY <1>5, <2>1, <3>2
  <2>2. CASE a["host"] = None /\ a["build"] # None
    <3>1. 2 \in Given("host") /\ \A j \in Given("host") : 2 <= j BY <1>6, <2>2
    <3>2. NamedAs(names, a, "host") = ByThe(a[Deciders["host"][2]])
      BY <1>1, <1>7, <2>0, <3>1
    <3>3. QED BY <1>5, <2>2, <3>2
  <2>3. CASE a["host"] = None /\ a["build"] = None
    <3>1. Given("host") = {} BY <1>6, <2>3
    <3>2. QED BY <1>2, <1>7, <2>3, <3>1
  <2>4. QED BY <2>1, <2>2, <2>3
<1>10. NamedAs(names, a, "target") =
         IF a["target"] # None THEN ByThe(a["target"])
         ELSE IF a["host"] # None THEN ByThe(a["host"])
         ELSE IF a["build"] # None THEN ByThe(a["build"]) ELSE names["target"]
  <2>0. DOMAIN Deciders["target"] \subseteq Nat /\ 1 \in DOMAIN Deciders["target"]
        /\ 2 \in DOMAIN Deciders["target"] /\ 3 \in DOMAIN Deciders["target"]
    BY <1>4
  <2>1. CASE a["target"] # None
    <3>1. 1 \in Given("target") /\ \A j \in Given("target") : 1 <= j BY <1>6, <2>1
    <3>2. NamedAs(names, a, "target") = ByThe(a[Deciders["target"][1]])
      BY <1>1, <1>7, <2>0, <3>1
    <3>3. QED BY <1>5, <2>1, <3>2
  <2>2. CASE a["target"] = None /\ a["host"] # None
    <3>1. 2 \in Given("target") /\ \A j \in Given("target") : 2 <= j BY <1>6, <2>2
    <3>2. NamedAs(names, a, "target") = ByThe(a[Deciders["target"][2]])
      BY <1>1, <1>7, <2>0, <3>1
    <3>3. QED BY <1>5, <2>2, <3>2
  <2>3. CASE a["target"] = None /\ a["host"] = None /\ a["build"] # None
    <3>1. 3 \in Given("target") /\ \A j \in Given("target") : 3 <= j BY <1>6, <2>3
    <3>2. NamedAs(names, a, "target") = ByThe(a[Deciders["target"][3]])
      BY <1>1, <1>7, <2>0, <3>1
    <3>3. QED BY <1>5, <2>3, <3>2
  <2>4. CASE a["target"] = None /\ a["host"] = None /\ a["build"] = None
    <3>1. Given("target") = {} BY <1>6, <2>4
    <3>2. QED BY <1>2, <1>7, <2>4, <3>1
  <2>5. QED BY <2>1, <2>2, <2>3, <2>4
<1>11. QED BY <1>8, <1>9, <1>10 DEF ByThe

\* The names after one more block.
LEMMA NamesStep ==
  ASSUME NEW e \in PlanEnv, NEW a \in KnownArgs(BlockArgs), NEW r \in Roles
  PROVE  Defaults(e, a)[r].name = NamedAs(RoleNames(e), a, r)
<1>1. a \in [build : PlanValue, host : PlanValue, target : PlanValue, module : AnyString, enabled : BOOLEAN]
      /\ AllKnown(a)
  BY ArgsTypes
<1>2. Known(a.build) /\ Known(a.host) /\ Known(a.target) BY <1>1 DEF AllKnown, Roles
<1> DEFINE new == SetEnv(e, a)
           Said(v) == IF v.name \in Roles THEN e[v.name].name ELSE v.name
<1>3. /\ new.build = IF a.build = None THEN e.build ELSE PlatformOf(e, a.build, TRUE)
      /\ new.host = IF a.host # None THEN PlatformOf(e, a.host, FALSE)
                    ELSE IF a.build # None THEN new.build ELSE e.host
      /\ new.target = IF a.target # None THEN PlatformOf(e, a.target, FALSE)
                      ELSE IF {a.build, a.host} # {None} THEN new.host ELSE e.target
  <2> HIDE DEF new
  <2>1. PlanEnvOf(a, SetEnv(e, a), e)
    <3>1. a.build \in PlanValue /\ a.host \in PlanValue /\ a.target \in PlanValue BY <1>1
    <3>2. QED BY <1>1, <3>1, SetEnvRoles DEF PlanEnvOf
  <2>2. QED BY <2>1 DEF PlanEnvOf, new
<1>4. /\ Defaults(e, a).build = new.build /\ Defaults(e, a).host = new.host
      /\ Defaults(e, a).target = new.target
  BY DefaultsFacts
<1> HIDE DEF new
<1>5. /\ a.build # None => PlatformOf(e, a.build, TRUE).name = Said(a.build)
      /\ a.host # None => PlatformOf(e, a.host, FALSE).name = Said(a.host)
      /\ a.target # None => PlatformOf(e, a.target, FALSE).name = Said(a.target)
  <2>1. a.build \in PlanValue /\ a.host \in PlanValue /\ a.target \in PlanValue
        /\ TRUE \in BOOLEAN /\ FALSE \in BOOLEAN
    BY <1>1
  <2>2. QED BY <1>2, <2>1, PlatformOfType
<1> DEFINE names == RoleNames(e)
           ByThe(v) == IF v.name \in Roles THEN names[v.name] ELSE v.name
<1>6. ASSUME NEW v PROVE ByThe(v) = Said(v) BY DEF RoleNames
<1>7. names["build"] = e.build.name /\ names["host"] = e.host.name /\ names["target"] = e.target.name
  BY DEF RoleNames, Roles
<1> HIDE DEF names
<1>8. /\ NamedAs(names, a, "build") = IF a.build = None THEN names["build"] ELSE ByThe(a.build)
      /\ NamedAs(names, a, "host") =
           IF a.host # None THEN ByThe(a.host)
           ELSE IF a.build # None THEN ByThe(a.build) ELSE names["host"]
      /\ NamedAs(names, a, "target") =
           IF a.target # None THEN ByThe(a.target)
           ELSE IF a.host # None THEN ByThe(a.host)
           ELSE IF a.build # None THEN ByThe(a.build) ELSE names["target"]
  BY FirstDecider
<1> HIDE DEF ByThe, Said
<1>9. CASE r = "build"
  <2>1. Defaults(e, a)[r].name = IF a.build = None THEN e.build.name ELSE Said(a.build)
    BY <1>3, <1>4, <1>5, <1>9
  <2>2. QED BY <1>6, <1>7, <1>8, <1>9, <2>1 DEF names
<1>10. CASE r = "host"
  <2>1. Defaults(e, a)[r].name = IF a.host # None THEN Said(a.host)
                                 ELSE IF a.build # None THEN Said(a.build) ELSE e.host.name
    BY <1>3, <1>4, <1>5, <1>10
  <2>2. QED BY <1>6, <1>7, <1>8, <1>10, <2>1 DEF names
<1>11. CASE r = "target"
  <2>1. ({a.build, a.host} # {None}) = (a.build # None \/ a.host # None) OBVIOUS
  <2>2. Defaults(e, a)[r].name = IF a.target # None THEN Said(a.target)
                                 ELSE IF a.host # None THEN Said(a.host)
                                 ELSE IF a.build # None THEN Said(a.build) ELSE e.target.name
    BY <1>3, <1>4, <1>5, <1>11, <2>1
  <2>3. QED BY <1>6, <1>7, <1>8, <1>11, <2>2 DEF names
<1>12. QED BY <1>9, <1>10, <1>11 DEF Roles

\* The names of the platforms in a block are those that NameIn tells.
LEMMA NamesInBlocks ==
  ASSUME NEW b \in BlockSeq, server \in Servers
  PROVE  RoleNames(EnvIn(server, b)) = NameIn(b)
<1> DEFINE NamesTo(N) == N = [n \in 0..Len(b) |->
                                IF n = 0 THEN [r \in Roles |-> server.name]
                                ELSE [r \in Roles |-> NamedAs(N[n - 1], b[n], r)]]
<1>0. Len(b) \in Nat /\ \A n \in 1..Len(b) : b[n] \in KnownArgs(BlockArgs) BY DEF BlockSeq
<1>1. PICK F : EnvsTo(server, b, Len(b), F) /\ EnvIn(server, b) = F[Len(b)] BY EnvInIs
<1>2. F[0] = NewEnv(server) /\ \A n \in 1..Len(b) : F[n] = Defaults(F[n - 1], b[n])
  <2>1. EnvsStep(server, b, Len(b), F) BY <1>0, <1>1, EnvsSteps
  <2>2. QED BY <2>1 DEF EnvsStep
<1>3. \A n \in 0..Len(b) : F[n] \in PlanEnv BY <1>1, EnvsTypes
<1>4. ASSUME NEW N, NamesTo(N) PROVE \A n \in 0..Len(b) : N[n] = RoleNames(F[n])
  <2> DEFINE T == {n \in 0..Len(b) : N[n] # RoleNames(F[n])}
  <2>1. \A n \in 0..Len(b) : N[n] = IF n = 0 THEN [r \in Roles |-> server.name]
                                    ELSE [r \in Roles |-> NamedAs(N[n - 1], b[n], r)]
    BY <1>4
  <2>2. ASSUME NEW n \in T, \A k \in T : n <= k PROVE FALSE
    <3>1. RoleNames(F[0]) = [r \in Roles |-> server.name]
      <4>1. \A r \in Roles : F[0][r].name = server.name BY <1>2, NewEnvType
      <4>2. QED BY <4>1 DEF RoleNames
    <3>2. n \in 1..Len(b)
      <4>1. 0 \in 0..Len(b) /\ n \in 0..Len(b) BY <1>0
      <4>2. N[0] = [r \in Roles |-> server.name] BY <2>1, <4>1
      <4>3. n # 0 BY <3>1, <4>2
      <4>4. QED BY <1>0, <4>1, <4>3
    <3>3. n - 1 \in 0..Len(b) /\ n - 1 < n BY <1>0, <3>2
    <3>4. N[n - 1] = RoleNames(F[n - 1]) BY <2>2, <3>3
    <3>5. N[n] = [r \in Roles |-> NamedAs(N[n - 1], b[n], r)] BY <2>1, <3>2
    <3>6. ASSUME NEW r \in Roles PROVE F[n][r].name = NamedAs(RoleNames(F[n - 1]), b[n], r)
      <4>1. F[n] = Defaults(F[n - 1], b[n]) /\ b[n] \in KnownArgs(BlockArgs) BY <1>0, <1>2, <3>2
      <4>2. F[n - 1] \in PlanEnv BY <1>3, <3>3
      <4>3. QED BY <4>1, <4>2, NamesStep
    <3>7. RoleNames(F[n]) = [r \in Roles |-> NamedAs(RoleNames(F[n - 1]), b[n], r)]
      BY <3>6 DEF RoleNames
    <3>8. QED BY <3>4, <3>5, <3>7
  <2>3. T \in SUBSET Nat BY <1>0
  <2> HIDE DEF T
  <2>4. T = {} BY <2>2, <2>3, SmallestNat
  <2>5. QED BY <2>4 DEF T
<1>5. \E N : NamesTo(N)
  <2> DEFINE N == [n \in 0..Len(b) |-> RoleNames(F[n])]
  <2>1. ASSUME NEW n \in 0..Len(b)
        PROVE  N[n] = IF n = 0 THEN [r \in Roles |-> server.name]
                      ELSE [r \in Roles |-> NamedAs(N[n - 1], b[n], r)]
    <3>1. CASE n = 0
      <4>1. N[n] = RoleNames(NewEnv(server)) BY <1>2, <3>1
      <4>2. QED BY <3>1, <4>1, NewEnvType DEF RoleNames
    <3>2. CASE n # 0
      <4>1. n \in 1..Len(b) /\ n - 1 \in 0..Len(b) BY <1>0, <3>2
      <4>2. F[n] = Defaults(F[n - 1], b[n]) /\ b[n] \in KnownArgs(BlockArgs)
            /\ F[n - 1] \in PlanEnv
        BY <1>0, <1>2, <1>3, <4>1
      <4>3. \A r \in Roles : F[n][r].name = NamedAs(RoleNames(F[n - 1]), b[n], r)
        BY <4>2, NamesStep
      <4>4. RoleNames(F[n]) = [r \in Roles |-> NamedAs(RoleNames(F[n - 1]), b[n], r)]
        BY <4>3 DEF RoleNames
      <4>5. N[n] = RoleNames(F[n]) /\ N[n - 1] = RoleNames(F[n - 1]) BY <4>1
      <4> HIDE DEF N
      <4>6. QED BY <3>2, <4>4, <4>5
    <3>3. QED BY <3>1, <3>2
  <2>2. N = [n \in 0..Len(b) |-> N[n]] OBVIOUS
  <2> HIDE DEF N
  <2>3. NamesTo(N) BY <2>1, <2>2
  <2>4. QED BY <2>3
<1>6. NameIn(b) = (CHOOSE N : NamesTo(N))[Len(b)]
  BY Zenon DEF NameIn, NamedAs
<1> HIDE DEF NamesTo
<1>7. NamesTo(CHOOSE N : NamesTo(N)) BY <1>5
<1>8. QED BY <1>0, <1>1, <1>4, <1>6, <1>7

\* The stack in the blocks b.
StackFor(s, b, st) ==
  /\ b \in BlockSeq /\ st \in Seq(PlanEnv) /\ Len(st) = Len(b) + 1
  /\ \A n \in 0..Len(b) : st[n + 1] = EnvIn(s, SubSeq(b, 1, n))

\* The calls q and what is recorded for them.
Call == [blocks : BlockSeq, args : ActionArgs]
IsRecorded(c) == (Enabled(c.blocks) \/ ~IgnoreDisabled) /\ AllKnown(c.args)
CallsIn(q) == {i \in DOMAIN q : IsRecorded(q[i])}
PlaceIn(R, i) == Cardinality({j \in R : j <= i})
ListFor(s, q, list) ==
  /\ q \in Seq(Call) /\ list \in Seq(PlanEnv)
  /\ Len(list) = Cardinality(CallsIn(q))
  /\ \A i \in CallsIn(q) :
        list[PlaceIn(CallsIn(q), i)] = Recorded(EnvIn(s, q[i].blocks), q[i].args)

PlansInv ==
  /\ server \in Servers
  /\ StackFor(server, blocks, stack)
  /\ mod_env = Top(stack)
  /\ ListFor(server, asked, action_list)

LEMMA StackTop ==
  ASSUME NEW s \in Servers, NEW b, NEW st, StackFor(s, b, st)
  PROVE  Top(st) = EnvIn(s, b) /\ EnvIn(s, b) \in PlanEnv /\ EnvIn(s, b).enabled = Enabled(b)
<1>1. b \in BlockSeq /\ Len(b) \in 0..Len(b) /\ Len(st) = Len(b) + 1
  BY DEF StackFor, BlockSeq
<1>2. SubSeq(b, 1, Len(b)) = b BY <1>1 DEF BlockSeq
<1>3. st[Len(b) + 1] = EnvIn(s, SubSeq(b, 1, Len(b))) BY <1>1 DEF StackFor
<1>4. EnvIn(s, b) \in PlanEnv /\ EnvIn(s, b).enabled = Enabled(b) BY <1>1, EnvInFacts
<1>5. QED BY <1>1, <1>2, <1>3, <1>4 DEF Top

LEMMA BlockEntered ==
  ASSUME NEW s \in Servers, NEW b, NEW st, StackFor(s, b, st), NEW a \in KnownArgs(BlockArgs)
  PROVE  StackFor(s, Append(b, a), Append(st, Defaults(Top(st), a)))
<1> DEFINE c == Append(b, a)
           tt == Append(st, Defaults(Top(st), a))
<1>1. /\ b \in BlockSeq /\ st \in Seq(PlanEnv) /\ Len(st) = Len(b) + 1 /\ Len(b) \in Nat
      /\ \A n \in 0..Len(b) : st[n + 1] = EnvIn(s, SubSeq(b, 1, n))
  BY DEF StackFor, BlockSeq
<1>2. Top(st) = EnvIn(s, b) /\ EnvIn(s, b) \in PlanEnv BY StackTop
<1>3. c \in BlockSeq /\ EnvIn(s, c) = Defaults(EnvIn(s, b), a) BY <1>1, EnvInAppend
<1>4. Defaults(Top(st), a) \in PlanEnv BY <1>2, DefaultsFacts
<1>5. /\ Len(c) = Len(b) + 1 /\ SubSeq(c, 1, Len(c)) = c
      /\ \A n \in 0..Len(b) : SubSeq(c, 1, n) = SubSeq(b, 1, n)
  <2>1. Len(c) = Len(b) + 1 /\ \A i \in 1..Len(b) : c[i] = b[i] BY <1>1 DEF BlockSeq
  <2>2. c \in Seq(KnownArgs(BlockArgs)) /\ b \in Seq(KnownArgs(BlockArgs))
    BY <1>1, <1>3 DEF BlockSeq
  <2> HIDE DEF c
  <2>3. SubSeq(c, 1, Len(c)) = c BY <2>2
  <2>4. ASSUME NEW n \in 0..Len(b) PROVE SubSeq(c, 1, n) = SubSeq(b, 1, n)
    BY <1>1, <2>1, <2>2
  <2>5. QED BY <2>1, <2>3, <2>4
<1>6. /\ tt \in Seq(PlanEnv) /\ Len(tt) = Len(st) + 1 /\ tt[Len(st) + 1] = Defaults(Top(st), a)
      /\ \A n \in 1..Len(st) : tt[n] = st[n]
  BY <1>1, <1>4
<1> HIDE DEF c, tt
<1>7. ASSUME NEW n \in 0..Len(c) PROVE tt[n + 1] = EnvIn(s, SubSeq(c, 1, n))
  <2>1. CASE n = Len(c) BY <1>1, <1>2, <1>3, <1>5, <1>6, <2>1
  <2>2. CASE n # Len(c)
    <3>1. n \in 0..Len(b) /\ n + 1 \in 1..Len(st) BY <1>1, <1>5, <2>2
    <3>2. QED BY <1>1, <1>5, <1>6, <3>1
  <2>3. QED BY <2>1, <2>2
<1>8. StackFor(s, c, tt) BY <1>1, <1>3, <1>5, <1>6, <1>7 DEF StackFor
<1>9. QED BY <1>8 DEF c, tt

LEMMA BlockLeft ==
  ASSUME NEW s \in Servers, NEW b, NEW st, StackFor(s, b, st), b # <<>>
  PROVE  StackFor(s, Pop(b), Pop(st))
<1> DEFINE c == Pop(b)
           tt == Pop(st)
<1>1. /\ b \in Seq(KnownArgs(BlockArgs)) /\ st \in Seq(PlanEnv) /\ Len(st) = Len(b) + 1
      /\ Len(b) \in Nat /\ Len(b) > 0
      /\ \A n \in 0..Len(b) : st[n + 1] = EnvIn(s, SubSeq(b, 1, n))
  BY DEF StackFor, BlockSeq
<1>2. /\ c \in Seq(KnownArgs(BlockArgs)) /\ Len(c) = Len(b) - 1
      /\ \A n \in 1..Len(c) : c[n] = b[n]
  BY <1>1, PopFacts
<1>3. /\ tt \in Seq(PlanEnv) /\ Len(tt) = Len(st) - 1
      /\ \A n \in 1..Len(tt) : tt[n] = st[n]
  BY <1>1, PopFacts
<1> HIDE DEF c, tt
<1>4. ASSUME NEW n \in 0..Len(c) PROVE tt[n + 1] = EnvIn(s, SubSeq(c, 1, n))
  <2>1. n + 1 \in 1..Len(tt) /\ n \in 0..Len(b) BY <1>1, <1>2, <1>3
  <2>2. SubSeq(c, 1, n) = SubSeq(b, 1, n) BY <1>1, <1>2
  <2>3. QED BY <1>1, <1>3, <2>1, <2>2
<1>5. StackFor(s, c, tt) BY <1>1, <1>2, <1>3, <1>4 DEF StackFor, BlockSeq
<1>6. QED BY <1>5 DEF c, tt

LEMMA PlaceFacts ==
  ASSUME NEW R \in SUBSET Nat, IsFiniteSet(R), NEW i \in R
  PROVE  PlaceIn(R, i) \in 1..Cardinality(R)
<1> DEFINE S == {j \in R : j <= i}
<1>1. S \subseteq R /\ i \in S OBVIOUS
<1> HIDE DEF S
<1>2. IsFiniteSet(S) /\ Cardinality(S) <= Cardinality(R) BY <1>1, FS_Subset
<1>3. Cardinality(S) \in Nat /\ Cardinality(R) \in Nat BY <1>2, FS_CardinalityType
<1>4. Cardinality(S) # 0 BY <1>1, <1>2, FS_EmptySet
<1>5. Cardinality(S) \in 1..Cardinality(R) BY <1>2, <1>3, <1>4
<1>6. QED BY <1>5 DEF S, PlaceIn

LEMMA CallsFinite ==
  ASSUME NEW q \in Seq(Call)
  PROVE  /\ IsFiniteSet(CallsIn(q)) /\ CallsIn(q) \in SUBSET (1..Len(q)) /\ CallsIn(q) \in SUBSET Nat
         /\ Cardinality(CallsIn(q)) \in Nat
<1>1. Len(q) \in Nat /\ DOMAIN q = 1..Len(q) OBVIOUS
<1>2. CallsIn(q) \subseteq 1..Len(q) BY <1>1 DEF CallsIn
<1>3. 1 \in Int /\ Len(q) \in Int BY <1>1
<1>4. IsFiniteSet(1..Len(q)) BY <1>3, FS_Interval
<1>5. IsFiniteSet(CallsIn(q)) BY <1>2, <1>4, FS_Subset
<1>6. QED BY <1>1, <1>2, <1>5, FS_CardinalityType

LEMMA CallsAdded ==
  ASSUME NEW q \in Seq(Call), NEW c \in Call
  PROVE  /\ Append(q, c) \in Seq(Call) /\ Len(Append(q, c)) = Len(q) + 1
         /\ Append(q, c)[Len(q) + 1] = c /\ \A i \in 1..Len(q) : Append(q, c)[i] = q[i]
         /\ CallsIn(Append(q, c)) = IF IsRecorded(c) THEN CallsIn(q) \cup {Len(q) + 1} ELSE CallsIn(q)
<1> DEFINE r == Append(q, c)
<1>1. /\ r \in Seq(Call) /\ Len(r) = Len(q) + 1 /\ Len(q) \in Nat /\ r[Len(q) + 1] = c
      /\ \A i \in 1..Len(q) : r[i] = q[i]
  OBVIOUS
<1>2. DOMAIN r = 1..(Len(q) + 1) /\ DOMAIN q = 1..Len(q) OBVIOUS
<1> HIDE DEF r
<1>3. ASSUME NEW i PROVE i \in CallsIn(r) <=> i \in CallsIn(q) \/ (i = Len(q) + 1 /\ IsRecorded(c))
  <2>1. i \in 1..(Len(q) + 1) <=> i \in 1..Len(q) \/ i = Len(q) + 1 BY <1>1
  <2>2. Len(q) + 1 \notin 1..Len(q) BY <1>1
  <2>3. QED BY <1>1, <1>2, <2>1, <2>2 DEF CallsIn
<1>4. CallsIn(r) = IF IsRecorded(c) THEN CallsIn(q) \cup {Len(q) + 1} ELSE CallsIn(q)
  <2>1. CASE IsRecorded(c) BY <1>3, <2>1
  <2>2. CASE ~IsRecorded(c) BY <1>3, <2>2
  <2>3. QED BY <2>1, <2>2
<1>5. QED BY <1>1, <1>4 DEF r

LEMMA ListGrows ==
  ASSUME NEW s \in Servers, NEW q, NEW list, ListFor(s, q, list),
         NEW c \in Call, IsRecorded(c)
  PROVE  ListFor(s, Append(q, c), Append(list, Recorded(EnvIn(s, c.blocks), c.args)))
<1> DEFINE r == Append(q, c)
           env == Recorded(EnvIn(s, c.blocks), c.args)
           l == Append(list, env)
           R == CallsIn(q)
           here == Len(q) + 1
<1>1. /\ q \in Seq(Call) /\ list \in Seq(PlanEnv) /\ Len(list) = Cardinality(R)
      /\ \A i \in R : list[PlaceIn(R, i)] = Recorded(EnvIn(s, q[i].blocks), q[i].args)
  BY DEF ListFor
<1>2. /\ r \in Seq(Call) /\ r[here] = c /\ \A i \in 1..Len(q) : r[i] = q[i]
      /\ CallsIn(r) = R \cup {here}
  BY <1>1, CallsAdded
<1>3. /\ IsFiniteSet(R) /\ R \in SUBSET (1..Len(q)) /\ R \in SUBSET Nat /\ Cardinality(R) \in Nat
  BY <1>1, CallsFinite
<1>4. env \in PlanEnv
  <2>1. c.blocks \in BlockSeq /\ c.args \in KnownArgs(ActionArgs)
    BY DEF Call, KnownArgs, IsRecorded
  <2>2. EnvIn(s, c.blocks) \in PlanEnv BY <2>1, EnvInFacts
  <2>3. QED BY <2>1, <2>2, RecordedFacts
<1> HIDE DEF r, env, R
<1>5. /\ l \in Seq(PlanEnv) /\ Len(l) = Len(list) + 1 /\ l[Len(list) + 1] = env
      /\ \A n \in 1..Len(list) : l[n] = list[n]
  BY <1>1, <1>4
<1>6. Len(q) \in Nat /\ here \notin R /\ here \in Nat BY <1>1, <1>3
<1>7. Cardinality(R \cup {here}) = Cardinality(R) + 1
  BY <1>3, <1>6, FS_AddElement
<1>8. PlaceIn(R \cup {here}, here) = Cardinality(R) + 1
  <2>0. \A j \in R \cup {here} : j <= here BY <1>3, <1>6
  <2>1. {j \in R \cup {here} : j <= here} = R \cup {here} BY <2>0
  <2>2. QED BY <1>7, <2>1 DEF PlaceIn
<1>9. ASSUME NEW i \in R PROVE PlaceIn(R \cup {here}, i) = PlaceIn(R, i)
  <2>1. {j \in R \cup {here} : j <= i} = {j \in R : j <= i} BY <1>1, <1>3, <1>6
  <2>2. QED BY <2>1 DEF PlaceIn
<1> HIDE DEF l
<1>10. ASSUME NEW i \in R \cup {here}
       PROVE  l[PlaceIn(R \cup {here}, i)] = Recorded(EnvIn(s, r[i].blocks), r[i].args)
  <2>1. CASE i = here
    <3>1. l[PlaceIn(R \cup {here}, i)] = env BY <1>1, <1>5, <1>8, <2>1
    <3>2. r[i] = c BY <1>2, <2>1
    <3>3. QED BY <3>1, <3>2 DEF env
  <2>2. CASE i \in R
    <3>1. PlaceIn(R, i) \in 1..Len(list) BY <1>1, <1>3, <2>2, PlaceFacts
    <3>2. r[i] = q[i] BY <1>2, <1>3, <2>2
    <3>3. QED BY <1>1, <1>5, <1>9, <2>2, <3>1, <3>2
  <2>3. QED BY <2>1, <2>2
<1>11. Len(l) = Cardinality(CallsIn(r)) BY <1>1, <1>2, <1>5, <1>7
<1>12. ListFor(s, r, l) BY <1>2, <1>5, <1>10, <1>11 DEF ListFor
<1>13. QED BY <1>12 DEF r, l, env

LEMMA ListStays ==
  ASSUME NEW s \in Servers, NEW q, NEW list, ListFor(s, q, list),
         NEW c \in Call, ~IsRecorded(c)
  PROVE  ListFor(s, Append(q, c), list)
<1> DEFINE r == Append(q, c)
<1>1. q \in Seq(Call) BY DEF ListFor
<1>2. r \in Seq(Call) /\ (\A i \in 1..Len(q) : r[i] = q[i]) /\ CallsIn(r) = CallsIn(q)
  BY <1>1, CallsAdded
<1>3. CallsIn(q) \subseteq 1..Len(q) BY <1>1, CallsFinite
<1> HIDE DEF r
<1>4. ListFor(s, r, list) BY <1>2, <1>3 DEF ListFor
<1>5. QED BY <1>4 DEF r

LEMMA NoCalls ==
  ASSUME NEW s PROVE ListFor(s, <<>>, <<>>)
<1>1. CallsIn(<<>>) = {} BY DEF CallsIn
<1>2. <<>> \in Seq(Call) /\ <<>> \in Seq(PlanEnv) /\ Len(<<>>) = 0 OBVIOUS
<1>3. Cardinality({}) = 0 BY FS_EmptySet
<1>4. PICK e : e = <<>> OBVIOUS
<1>5. e \in Seq(Call) /\ e \in Seq(PlanEnv) /\ Len(e) = Cardinality(CallsIn(e)) /\ CallsIn(e) = {}
  BY <1>1, <1>2, <1>3, <1>4
<1>6. ListFor(s, e, e) BY <1>5 DEF ListFor
<1>7. QED BY <1>4, <1>6

LEMMA PlansInit == PlanInit => PlansInv
<1> SUFFICES ASSUME PlanInit PROVE PlansInv OBVIOUS
<1>1. /\ server \in Servers /\ stack = <<NewEnv(server)>> /\ mod_env = NewEnv(server)
      /\ action_list = <<>> /\ blocks = <<>> /\ asked = <<>>
  BY DEF PlanInit
<1>2. ListFor(server, asked, action_list) BY <1>1, NoCalls
<1>3. StackFor(server, blocks, stack)
  <2>1. blocks \in BlockSeq /\ EnvIn(server, blocks) = NewEnv(server) BY <1>1, EnvInEmpty
  <2>2. NewEnv(server) \in PlanEnv BY <1>1, NewEnvType
  <2>3. stack \in Seq(PlanEnv) /\ Len(stack) = 1 /\ stack[1] = NewEnv(server) BY <1>1, <2>2
  <2>4. Len(blocks) = 0 /\ SubSeq(blocks, 1, 0) = blocks BY <1>1
  <2>5. \A n \in 0..Len(blocks) : stack[n + 1] = EnvIn(server, SubSeq(blocks, 1, n))
    <3>1. \A n \in 0..Len(blocks) : n = 0 BY <2>4
    <3>2. stack[0 + 1] = stack[1] OBVIOUS
    <3>3. stack[0 + 1] = EnvIn(server, SubSeq(blocks, 1, 0)) BY <2>1, <2>3, <2>4, <3>2, Zenon
    <3>4. QED BY <3>1, <3>3
  <2>6. QED BY <2>1, <2>3, <2>4, <2>5 DEF StackFor
<1>4. Top(stack) = NewEnv(server) BY <1>1 DEF Top
<1>5. QED BY <1>1, <1>2, <1>3, <1>4 DEF PlansInv

LEMMA PlansStep == PlansInv /\ [PlanNext]_planVars => PlansInv'
<1> SUFFICES ASSUME PlansInv, [PlanNext]_planVars PROVE PlansInv' OBVIOUS
<1> USE DEF PlansInv
<1>1. CASE ExecutePlan BY <1>1, NoCalls DEF ExecutePlan
<1>2. CASE LeaveBlock
  <2>1. /\ blocks # <<>> /\ stack' = Pop(stack) /\ mod_env' = Top(stack') /\ blocks' = Pop(blocks)
        /\ UNCHANGED <<action_list, server, asked>>
    BY <1>2 DEF LeaveBlock, Popped
  <2>2. StackFor(server, Pop(blocks), Pop(stack)) BY <2>1, BlockLeft
  <2>3. QED BY <2>1, <2>2
<1>3. ASSUME NEW a \in BlockArgs, EnterBlock(a) PROVE PlansInv'
  <2>1. CASE AllKnown(a)
    <3>1. /\ stack' = Append(stack, Defaults(Top(stack), a)) /\ mod_env' = Top(stack')
          /\ blocks' = Append(blocks, a) /\ UNCHANGED <<action_list, server, asked>>
      BY <1>3, <2>1 DEF EnterBlock
    <3>2. a \in KnownArgs(BlockArgs) BY <2>1 DEF KnownArgs
    <3>3. StackFor(server, Append(blocks, a), Append(stack, Defaults(Top(stack), a)))
      BY <3>2, BlockEntered
    <3>4. QED BY <3>1, <3>3
  <2>2. CASE ~AllKnown(a) BY <1>3, <2>2 DEF EnterBlock
  <2>3. QED BY <2>1, <2>2
<1>4. ASSUME NEW a \in ActionArgs, AddAction(a) PROVE PlansInv'
  <2> DEFINE c == [blocks |-> blocks, args |-> a]
  <2>1. /\ asked' = Append(asked, c) /\ UNCHANGED <<stack, mod_env, server, blocks>>
        /\ IF IgnoreDisabled /\ ~Top(stack).enabled
           THEN action_list' = action_list
           ELSE IF AllKnown(a)
           THEN action_list' = Append(action_list, Recorded(Top(stack), a))
           ELSE action_list' = action_list
    BY <1>4 DEF AddAction
  <2>2. c \in Call /\ c.blocks = blocks /\ c.args = a BY DEF StackFor, Call
  <2>3. Top(stack) = EnvIn(server, blocks) /\ Top(stack).enabled = Enabled(blocks)
    BY StackTop
  <2> HIDE DEF c
  <2>4. CASE IsRecorded(c)
    <3>1. action_list' = Append(action_list, Recorded(EnvIn(server, c.blocks), c.args))
      BY <2>1, <2>2, <2>3, <2>4 DEF IsRecorded
    <3>2. ListFor(server, Append(asked, c), Append(action_list, Recorded(EnvIn(server, c.blocks), c.args)))
      BY <2>2, <2>4, ListGrows
    <3>3. QED BY <2>1, <3>1, <3>2
  <2>5. CASE ~IsRecorded(c)
    <3>1. action_list' = action_list BY <2>1, <2>2, <2>3, <2>5 DEF IsRecorded
    <3>2. ListFor(server, Append(asked, c), action_list) BY <2>2, <2>5, ListStays
    <3>3. QED BY <2>1, <3>1, <3>2
  <2>6. QED BY <2>4, <2>5
<1>5. CASE PlanRaises BY <1>5 DEF PlanRaises
<1>6. CASE PlanCatches BY <1>6 DEF PlanCatches
<1>7. CASE EndOfPlan BY <1>7 DEF EndOfPlan
<1>8. ASSUME NEW n \in EntryPoints \cup {"nested"}, Decorate(n) PROVE PlansInv'
  BY <1>8 DEF Decorate
<1>9. CASE UNCHANGED planVars BY <1>9 DEF planVars
<1>10. QED BY <1>1, <1>2, <1>3, <1>4, <1>5, <1>6, <1>7, <1>8, <1>9 DEF PlanNext

LEMMA PlansInvRight == PlansInv => PlanRight
<1> SUFFICES ASSUME PlansInv PROVE PlanRight OBVIOUS
<1>1. server \in Servers /\ StackFor(server, blocks, stack) /\ mod_env = Top(stack)
      /\ ListFor(server, asked, action_list)
  BY DEF PlansInv
<1>2. /\ blocks \in BlockSeq /\ Len(stack) = Len(blocks) + 1
      /\ \A n \in 0..Len(blocks) : stack[n + 1] = EnvIn(server, SubSeq(blocks, 1, n))
  BY <1>1 DEF StackFor
<1>3. ASSUME NEW n \in 0..Len(blocks) PROVE RoleNames(stack[n + 1]) = NameIn(SubSeq(blocks, 1, n))
  <2>1. SubSeq(blocks, 1, n) \in BlockSeq BY <1>2 DEF BlockSeq
  <2>2. QED BY <1>1, <1>2, <2>1, NamesInBlocks
<1>4. stack[1] = NewEnv(server)
  <2>1. 0 \in 0..Len(blocks) /\ SubSeq(blocks, 1, 0) = <<>> BY <1>2 DEF BlockSeq
  <2>2. stack[0 + 1] = EnvIn(server, SubSeq(blocks, 1, 0)) BY <1>2, <2>1
  <2>3. EnvIn(server, <<>>) = NewEnv(server) BY <1>1, EnvInEmpty
  <2>4. stack[0 + 1] = NewEnv(server) BY <2>1, <2>2, <2>3, Zenon
  <2>5. 0 + 1 = 1 OBVIOUS
  <2>6. QED BY <2>4, <2>5
<1>5. RecordedCalls = CallsIn(asked) BY DEF RecordedCalls, CallsIn, IsRecorded
<1>6. Len(action_list) = Cardinality(RecordedCalls) BY <1>1, <1>5 DEF ListFor
<1>7. ASSUME NEW i \in RecordedCalls
      PROVE  LET env == action_list[PlaceOf(i)]
             IN  /\ env.enabled = Enabled(asked[i].blocks)
                 /\ asked[i].blocks = blocks => AsWritten(env, Top(stack), asked[i].args)
  <2>1. i \in CallsIn(asked) BY <1>5
  <2>2. PlaceOf(i) = PlaceIn(CallsIn(asked), i) BY <1>5 DEF PlaceOf, PlaceIn
  <2>3. asked[i] \in Call /\ IsRecorded(asked[i])
    BY <1>1, <2>1 DEF ListFor, CallsIn
  <2>4. asked[i].blocks \in BlockSeq /\ asked[i].args \in KnownArgs(ActionArgs)
    BY <2>3 DEF Call, KnownArgs, IsRecorded
  <2> DEFINE e == EnvIn(server, asked[i].blocks)
  <2>5. e \in PlanEnv /\ e.enabled = Enabled(asked[i].blocks) BY <1>1, <2>4, EnvInFacts
  <2>6. action_list[PlaceOf(i)] = Recorded(e, asked[i].args) BY <1>1, <2>1, <2>2 DEF ListFor
  <2> HIDE DEF e
  <2>7. Recorded(e, asked[i].args).enabled = e.enabled BY <2>4, <2>5, RecordedFacts
  <2>8. AsWritten(Recorded(e, asked[i].args), e, asked[i].args)
    BY <2>4, <2>5, RecordedAsWritten
  <2>9. asked[i].blocks = blocks => Top(stack) = e BY <1>1, StackTop DEF e
  <2>10. QED BY <2>5, <2>6, <2>7, <2>8, <2>9
<1>8. ASSUME NEW i \in DOMAIN action_list
      PROVE  LET e == action_list[i]
                 back == FromTriplet(NewEnv(LocalPlatform), e)
             IN  /\ RoleNames(back) = RoleNames(e)
                 /\ IsCross(back) => IsCross(e)
                 /\ IsCross(e) /\ TargetIsTold(e) => IsCross(back)
  <2>1. action_list[i] \in PlanEnv BY <1>1 DEF ListFor
  <2>2. QED BY <2>1, TripletRight
<1>9. QED BY <1>1, <1>2, <1>3, <1>4, <1>6, <1>7, <1>8 DEF PlanRight

\* What a plan sees and returns is decided by the blocks around each line (see
\* PlanRight): the stack is the environments of the blocks the plan is in, from
\* the outside in, and what was recorded is, call by call, what its blocks and
\* its arguments make.
THEOREM PlanRightHolds == PlansSpec => []PlanRight
<1>1. PlanInit => PlansInv BY PlansInit
<1>2. PlansInv /\ [PlanNext]_planVars => PlansInv' BY PlansStep
<1>3. PlansInv => PlanRight BY PlansInvRight
<1>4. QED BY <1>1, <1>2, <1>3, PTL DEF PlansSpec

\* Blocks that save and restore leave the surroundings as they were, and plans
\* the environments, whatever a process does of both (see EnvironmentsRight).
THEOREM EnvironmentsRightHolds == EnvironmentSpec /\ PlansSpec => []EnvironmentsRight
<1>1. RestoredRight /\ PlanRight => EnvironmentsRight BY DEF EnvironmentsRight
<1>2. QED BY <1>1, RestoredRightHolds, PlanRightHolds, PTL

=============================================================================
