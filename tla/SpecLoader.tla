------------------------------ MODULE SpecLoader ------------------------------
(***************************************************************************)
(* e3.anod.loader: a repository of specifications reads the names and the  *)
(* checksums of its files, executes its prolog, and loads a specification  *)
(* when it is asked for.  To load is to execute the code of the file, that *)
(* may ask for other specifications in its turn, and to find a class in    *)
(* what it has defined.  Files may be edited at any time.                  *)
(*                                                                         *)
(* Code is a sequence of statements: "spec" asks for a specification,      *)
(* "try" does so and goes on when it cannot be loaded, "class" defines a   *)
(* subclass of Anod of that name, "raise" raises.  A statement of the      *)
(* prolog may also be "name", that gives a name to all specifications.     *)
(***************************************************************************)
EXTENDS Naturals, Sequences, FiniteSets, SequencesExt

CONSTANTS Specs, Codes, Prologs,
          ClassRank,    \* the order of the names of classes; "Anod" is one
          MaxDepth,     \* of the calls of Python
          MaxAsked, MaxEdits

VARIABLES code,         \* what is in the files, with the number of edits
          checksum,     \* AnodModule.checksum: the edit that was read for it
          module,       \* AnodModule.module: 0, or a class
          classes,      \* the classes that loads have returned, as they were made
          prolog,       \* the code of the prolog
          prolog_dict,  \* how many of its statements were executed
          frames,       \* the code under execution, the last one on top
          failing,      \* an exception goes up
          repository,   \* "none", "prolog", "ready", "failed"
          answer,       \* of the last call: 0 for an exception, or a class
          circular,     \* specifications executed inside their own execution
          loads_asked

loaderVars == <<code, checksum, module, classes, prolog, prolog_dict, frames, failing,
                repository, answer, circular, loads_asked>>

Statement(op, of) == [op |-> op, of |-> of]
CodeStatements ==
    [op : {"spec", "try"}, of : Specs] \cup [op : {"class"}, of : DOMAIN ClassRank]
    \cup [op : {"raise"}, of : STRING]
PrologStatements == CodeStatements \cup [op : {"name"}, of : STRING]

ASSUME LoaderAssumption ==
    /\ Specs \subseteq STRING /\ "prolog" \notin Specs /\ DOMAIN ClassRank \subseteq STRING
    /\ Codes \subseteq Seq(CodeStatements) /\ Prologs \subseteq Seq(PrologStatements)

LoaderInit ==
    /\ code \in [Specs -> {[edit |-> 0, text |-> c] : c \in Codes}]
    /\ checksum = [s \in Specs |-> 0] /\ module = [s \in Specs |-> 0]
    /\ classes = <<>>
    /\ prolog \in Prologs /\ prolog_dict = 0
    /\ frames = <<>> /\ failing = FALSE /\ repository = "none"
    /\ answer = 0 /\ circular = {} /\ loads_asked = 0

TopFrame == Last(frames)
Running == frames # <<>> /\ ~failing
Current == TopFrame.text[TopFrame.line]
AtStatement(ops) ==
    Running /\ TopFrame.line <= Len(TopFrame.text) /\ Current.op \in ops
NextLine(fs) == [fs EXCEPT ![Len(fs)].line = @ + 1]

Frame(s, text, edit) ==
    [spec |-> s, text |-> text, edit |-> edit, line |-> 1, bases |-> {}, defined |-> {},
     names |-> prolog_dict]

Edit(s) ==
    /\ code[s].edit < MaxEdits
    /\ \E c \in Codes : code' = [code EXCEPT ![s] = [edit |-> @.edit + 1, text |-> c]]
    /\ UNCHANGED <<checksum, module, classes, prolog, prolog_dict, frames, failing,
                   repository, answer, circular, loads_asked>>

\* AnodSpecRepository.__init__
NewRepository ==
    /\ repository = "none" /\ repository' = "prolog"
    /\ checksum' = [s \in Specs |-> code[s].edit]
    /\ frames' = <<Frame("prolog", prolog, 0)>>
    /\ UNCHANGED <<code, module, classes, prolog, prolog_dict, failing, answer, circular,
                   loads_asked>>

-----------------------------------------------------------------------------
(* AnodModule.load                                                         *)

\* The file is read now, with the names that the prolog has given so far.
Execute(s) ==
    /\ frames' = Append(frames, Frame(s, code[s].text, code[s].edit))
    /\ circular' = circular \cup {t \in {s} : \E i \in DOMAIN frames : frames[i].spec = t}

\* Variant: what is loaded is not looked at for another specification.
IsLoadedForCaller(s) == module[s] # 0 /\ frames = <<>>

IsLoaded(s) == module[s] # 0

LoadSpec(s) ==
    /\ repository = "ready" /\ frames = <<>> /\ loads_asked < MaxAsked
    /\ loads_asked' = loads_asked + 1
    /\ IF IsLoaded(s) THEN answer' = module[s] /\ UNCHANGED <<frames, circular>>
       ELSE Execute(s) /\ UNCHANGED answer
    /\ UNCHANGED <<code, checksum, module, classes, prolog, prolog_dict, failing, repository>>

\* The code under execution asks for a specification.
AskSpec ==
    /\ AtStatement({"spec", "try"})
    /\ IF IsLoaded(Current.of)
       THEN /\ frames' = NextLine([frames EXCEPT ![Len(frames)].bases =
                                      @ \cup {module[Current.of]}])
            /\ UNCHANGED <<failing, circular>>
       ELSE IF Len(frames) = MaxDepth
       THEN /\ frames' = IF Current.op = "try" THEN NextLine(frames) ELSE frames
            /\ failing' = (Current.op = "spec") /\ UNCHANGED circular
       ELSE Execute(Current.of) /\ UNCHANGED failing
    /\ UNCHANGED <<code, checksum, module, classes, prolog, prolog_dict, repository, answer,
                   loads_asked>>

Define ==
    /\ AtStatement({"class", "name"})
    /\ frames' = NextLine([frames EXCEPT ![Len(frames)].defined = @ \cup {Current.of}])
    /\ prolog_dict' = IF Current.op = "name" THEN prolog_dict + 1 ELSE prolog_dict
    /\ UNCHANGED <<code, checksum, module, classes, prolog, failing, repository, answer,
                   circular, loads_asked>>

RaiseStatement ==
    /\ AtStatement({"raise"}) /\ failing' = TRUE
    /\ UNCHANGED <<code, checksum, module, classes, prolog, prolog_dict, frames, repository,
                   answer, circular, loads_asked>>

\* The first subclass of Anod that the module has defined, in the order of names.
Found(frame) ==
    CHOOSE c \in frame.defined : \A d \in frame.defined : ClassRank[c] <= ClassRank[d]

AtEnd == Running /\ TopFrame.line > Len(TopFrame.text)

\* The class is registered, whether or not another one was meanwhile.
EndOfCode ==
    /\ AtEnd /\ TopFrame.spec # "prolog"
    /\ IF TopFrame.defined = {} \/ Found(TopFrame) = "Anod"
       THEN failing' = TRUE /\ UNCHANGED <<module, classes, frames, answer>>
       ELSE LET id == Len(classes) + 1
                below == Front(frames)
            IN  /\ classes' = Append(classes,
                       [spec |-> TopFrame.spec, name |-> Found(TopFrame),
                        edit |-> TopFrame.edit, names |-> TopFrame.names,
                        bases |-> TopFrame.bases, spec_checksum |-> checksum[TopFrame.spec],
                        in_prolog |-> repository = "prolog"])
                /\ module' = [module EXCEPT ![TopFrame.spec] = id]
                /\ IF below = <<>> THEN frames' = <<>> /\ answer' = id
                   ELSE /\ frames' = NextLine([below EXCEPT ![Len(below)].bases = @ \cup {id}])
                        /\ UNCHANGED answer
                /\ UNCHANGED failing
    /\ UNCHANGED <<code, checksum, prolog, prolog_dict, repository, circular, loads_asked>>

EndOfProlog ==
    /\ AtEnd /\ TopFrame.spec = "prolog"
    /\ frames' = <<>> /\ repository' = "ready"
    /\ UNCHANGED <<code, checksum, module, classes, prolog, prolog_dict, failing, answer,
                   circular, loads_asked>>

\* The exception leaves the code: "invalid spec code" for who asked for it.
Leave ==
    /\ failing
    /\ LET below == Front(frames)
       IN  IF below = <<>>
           THEN /\ frames' = <<>> /\ failing' = FALSE /\ answer' = 0
                /\ repository' = IF repository = "prolog" THEN "failed" ELSE repository
           ELSE LET caught == Last(below).text[Last(below).line].op = "try"
                IN  /\ frames' = IF caught THEN NextLine(below) ELSE below
                    /\ failing' = ~caught /\ UNCHANGED <<answer, repository>>
    /\ UNCHANGED <<code, checksum, module, classes, prolog, prolog_dict, circular, loads_asked>>

LoaderStep ==
    AskSpec \/ Define \/ RaiseStatement \/ EndOfCode \/ EndOfProlog \/ Leave

LoaderNext ==
    \/ NewRepository \/ LoaderStep
    \/ \E s \in Specs : LoadSpec(s) \/ Edit(s)

LoaderSpec == LoaderInit /\ [][LoaderNext]_loaderVars

-----------------------------------------------------------------------------
(* Properties.                                                             *)

Made(s) == {i \in DOMAIN classes : classes[i].spec = s}
NamesIn(p) == Cardinality({i \in DOMAIN p : p[i].op = "name"})

\* Whoever asks for a specification, from the prolog, from another one or after
\* loads that failed, gets one class, that is the base of its children, unless
\* the specification was executed inside its own execution; one that inherits
\* from a specification was made from a class that is whole; a load sees all
\* the names of the prolog but when the prolog asked for it; and the checksum of
\* a class is that of its code unless the file was edited after the repository
\* was made (AnodModule.load, AnodSpecRepository.__init__).
LoadedRight ==
    /\ \A s \in Specs \ circular : Cardinality(Made(s)) <= 1
    /\ \A i \in DOMAIN classes :
          /\ \A b \in classes[i].bases : b < i /\ (classes[b].spec \notin circular =>
                                                       module[classes[b].spec] = b)
          /\ classes[i].names = NamesIn(prolog) \/ classes[i].in_prolog
          /\ classes[i].edit = classes[i].spec_checksum
             \/ code[classes[i].spec].edit > checksum[classes[i].spec]
    /\ frames = <<>> /\ repository = "ready" /\ answer # 0 =>
          module[classes[answer].spec] = answer

\* "spec_checksum: the sha1 of the specification file content".
ChecksumIsOfCode == \A i \in DOMAIN classes : classes[i].edit = classes[i].spec_checksum
==============================================================================
