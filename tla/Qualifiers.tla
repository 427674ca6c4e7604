------------------------------ MODULE Qualifiers ------------------------------
(***************************************************************************)
(* e3.anod.qualifiers_manager: a specification declares its qualifiers and *)
(* the names of some of its configurations; then what the user gives is    *)
(* parsed into the values of the qualifiers, the name of the build space   *)
(* and the component.                                                      *)
(*                                                                         *)
(* A word is a sequence of tokens, where "-", "_" and ";" are tokens of    *)
(* their own.  A value is a set of words: that of a tag is {} or {True},   *)
(* of a key with a value {word}, of a key with a set any set.              *)
(***************************************************************************)
EXTENDS Naturals, Sequences, FiniteSets, SequencesExt

CONSTANTS QualifierDecls, SpaceDecls, \* what a specification may declare
          Given,          \* what a user may give: functions from names to inputs
          Rank,           \* the order of words, and of names as words
          BaseName,       \* a word
          TargetWords,    \* of the target when the build is a cross build
          MaxDecls, MaxParsed

True == <<"true">>
Input(type, words) == [type |-> type, words |-> words]  \* "str", "bool", "none", "set"
NoChoices == {<<"any", "any">>}
NoDefault == {<<"no", "default">>}

VARIABLES kind,           \* of the instance: "build" or "test"
          qualifier_decls,\* name -> declaration
          component_decls,\* declarations, in order
          target_info,    \* add_target_info_to_bs
          parsed          \* the inputs that were parsed, a set: empty before

qualifierVars == <<kind, qualifier_decls, component_decls, target_info, parsed>>

QualifierInit ==
    /\ kind \in {"build", "test"}
    /\ qualifier_decls = <<>> /\ component_decls = <<>>
    /\ target_info = FALSE /\ parsed = {}

Declaring == parsed = {}

Declare(d) ==
    /\ Declaring /\ Cardinality(DOMAIN qualifier_decls) < MaxDecls
    /\ d.test_only => kind = "test"
    /\ d.default # NoDefault /\ d.choices # NoChoices => d.default \subseteq d.choices
    /\ qualifier_decls' = [n \in DOMAIN qualifier_decls \cup {d.name} |->
                              IF n = d.name THEN d ELSE qualifier_decls[n]]
    /\ UNCHANGED <<kind, component_decls, target_info, parsed>>

\* declare_component does nothing for a test.  A name declared again keeps its
\* place.
DeclareSpace(c) ==
    /\ Declaring /\ Len(component_decls) < MaxDecls
    /\ c.has_component => kind # "test"
    /\ LET at == {i \in DOMAIN component_decls : component_decls[i].name = c.name}
       IN  component_decls' = IF at = {} THEN Append(component_decls, c)
                              ELSE [i \in DOMAIN component_decls |->
                                       IF i \in at THEN c ELSE component_decls[i]]
    /\ UNCHANGED <<kind, qualifier_decls, target_info, parsed>>

SetTargetInfo(b) ==
    /\ Declaring /\ target_info # b /\ target_info' = b
    /\ UNCHANGED <<kind, qualifier_decls, component_decls, parsed>>

-----------------------------------------------------------------------------
(* The value of a qualifier.                                               *)

\* The parts of a word between its separators; "" has none.
Split(word) ==
    LET Edge(i) == i \in {0, Len(word) + 1} \/ word[i] = ";"
    IN  {SubSeq(word, i + 1, j - 1) : <<i, j>> \in
            {e \in (0..Len(word)) \X (1..Len(word) + 1) :
                /\ word # <<>> /\ e[1] < e[2] /\ Edge(e[1]) /\ Edge(e[2])
                /\ \A k \in e[1] + 1..e[2] - 1 : ~Edge(k)}}

\* What an input stands for, by the kind of the qualifier.
Meant(d, input) ==
    IF d.kind = "tag" THEN IF input.type = "bool" THEN input.words ELSE {True}
    ELSE IF d.kind = "key" THEN IF input.type = "bool" THEN {<<>>} ELSE input.words
    ELSE IF input.type = "str" THEN UNION {Split(w) : w \in input.words}
    ELSE input.words

Accepts(d, input) ==
    CASE d.kind = "tag" -> input.type \in {"str", "none", "bool"}
      [] d.kind = "key" -> /\ input.type \in {"str", "bool"}
                           /\ d.choices # NoChoices => Meant(d, input) \subseteq d.choices
      [] d.kind = "set" -> /\ input.type \in {"str", "set"}
                           /\ d.choices \notin {NoChoices, {}} => Meant(d, input) \subseteq d.choices

Default(d) == IF d.kind = "tag" THEN {} ELSE d.default

Declared == DOMAIN qualifier_decls

\* compute_qualifier_values raises for a name that is not declared, an input
\* that is not accepted and a qualifier that has no value.
Computes(given) ==
    /\ DOMAIN given \subseteq Declared
    /\ \A n \in DOMAIN given : Accepts(qualifier_decls[n], given[n])
    /\ \A n \in Declared \ DOMAIN given : Default(qualifier_decls[n]) # NoDefault

Values(given) ==
    [n \in Declared |-> IF n \in DOMAIN given THEN Meant(qualifier_decls[n], given[n])
                        ELSE Default(qualifier_decls[n])]

-----------------------------------------------------------------------------
(* Names.                                                                  *)

Sorted(S) == SetToSortSeq(S, LAMBDA a, b : Rank[a] < Rank[b])
NotEmpty(words) == SelectSeq(words, LAMBDA w : w # <<>>)
Join(words, sep) ==
    FlattenSeq([i \in 1..Len(words) |-> IF i = 1 THEN words[i] ELSE <<sep>> \o words[i]])

\* Variant: the default is never shown.
IsShownUnlessDefault(d, value) == value \notin {{}, {<<>>}} /\ value # d.default

\* A default that is one of the choices is not shown, unless "" is another.
IsShown(d, value) ==
    /\ value # {} /\ (d.kind = "key" => value # {<<>>})
    /\ ~(d.kind = "key" /\ value = d.default /\ d.choices # NoChoices /\ <<>> \notin d.choices)

\* repr
Repr(d, value) ==
    LET key == IF d.omit_key THEN <<>> ELSE <<d.repr_name>>
    IN  IF d.kind = "tag" THEN IF value = {} THEN <<>> ELSE d.repr_name
        ELSE IF IsShown(d, value) THEN Join(key \o Sorted(value), "-") ELSE <<>>

\* The name made of those of all the qualifiers; what is hashed is written here
\* between two "#".
ComputedName(values) ==
    LET names == SetToSortSeq(Declared, LAMBDA m, n : Rank[<<m>>] < Rank[<<n>>])
        Reprs(hashed) == NotEmpty([i \in DOMAIN names |->
            IF qualifier_decls[names[i]].in_hash = hashed
            THEN Repr(qualifier_decls[names[i]], values[names[i]]) ELSE <<>>])
        pool == Reprs(TRUE)
        hash == IF pool = <<>> THEN <<>> ELSE <<<<"#">> \o Join(pool, "_") \o <<"#">>>>
        target == IF target_info THEN TargetWords ELSE <<>>
        test == IF kind = "test" THEN <<<<"test">>>> ELSE <<>>
    IN  Join(NotEmpty(<<BaseName>>) \o Reprs(FALSE) \o hash \o target \o test, "_")

\* The configurations that were named, as values.
StateOf(c) == Values(c.configuration)

Bound(values, only_components) ==
    {i \in DOMAIN component_decls :
        /\ StateOf(component_decls[i]) = values
        /\ only_components => component_decls[i].has_component}

\* Only the names that are components are looked at when a configuration comes
\* again.
NamedTwice ==
    \E i, j \in DOMAIN component_decls :
       /\ i < j /\ component_decls[i].has_component
       /\ StateOf(component_decls[i]) = StateOf(component_decls[j])

\* parse: whether it returns, and what it leaves.
Parses(given) ==
    /\ Computes(given)
    /\ \A i \in DOMAIN component_decls : Computes(component_decls[i].configuration)
    /\ ~NamedTwice

Latest(S) == CHOOSE i \in S : \A j \in S : j <= i
Name(given) ==
    LET bound == Bound(Values(given), FALSE)
    IN  IF bound # {} THEN component_decls[Latest(bound)].name ELSE ComputedName(Values(given))
Component(given) ==
    LET bound == Bound(Values(given), TRUE)
    IN  IF bound # {} THEN component_decls[Latest(bound)].name ELSE <<>>

\* One instance of the specification for each input.
Parse(given) ==
    /\ Cardinality(parsed) < MaxParsed /\ given \notin parsed
    /\ parsed' = parsed \cup {given}
    /\ UNCHANGED <<kind, qualifier_decls, component_decls, target_info>>

QualifierNext ==
    \/ \E d \in QualifierDecls : Declare(d)
    \/ \E c \in SpaceDecls : DeclareSpace(c)
    \/ \E b \in BOOLEAN : SetTargetInfo(b)
    \/ \E g \in Given : Parse(g)

QualifierSpec == QualifierInit /\ [][QualifierNext]_qualifierVars

-----------------------------------------------------------------------------
(* Properties.                                                             *)

Separators == {"-", "_", ";", "#"}
PlainWord(w) == w # <<>> /\ \A i \in DOMAIN w : w[i] \notin Separators

\* No key is omitted, no two qualifiers have one name for builds, no
\* configuration is named by hand, no word has a separator in it.
PlainDecls ==
    /\ component_decls = <<>>
    /\ \A m, n \in Declared : m # n => qualifier_decls[m].repr_name # qualifier_decls[n].repr_name
    /\ \A n \in Declared : ~qualifier_decls[n].omit_key
PlainValues(values) ==
    \A n \in Declared : \A w \in values[n] :
       PlainWord(w) \/ (w = <<>> /\ qualifier_decls[n].kind = "key")

\* As an input, the values that were computed.
FedBack(values) ==
    [n \in Declared |-> Input([tag |-> "bool", key |-> "str", set |-> "set"][qualifier_decls[n].kind],
                              values[n])]

Parsed == {g \in parsed : Parses(g)}

\* Two builds with different values have different names when names and words
\* are plain.  A component has the name of its build space when no name that is
\* not of a component was given to the same configuration, and no other values
\* have it.  Values that are given again are accepted and mean themselves.
NamesRight ==
    \A g \in Parsed :
       /\ Computes(FedBack(Values(g))) /\ Values(FedBack(Values(g))) = Values(g)
       /\ Component(g) # <<>> =>
             /\ Component(g) = Name(g) \/ Bound(Values(g), FALSE) # Bound(Values(g), TRUE)
             /\ \A h \in Parsed : Component(h) = Component(g) => Values(h) = Values(g)
       /\ \A h \in Parsed :
             /\ PlainDecls /\ PlainValues(Values(g)) /\ PlainValues(Values(h))
             /\ Values(g) # Values(h)
             => Name(g) # Name(h)

\* "This allows the build_space names to be different for each different builds
\* (assuming that different build <=> different set of qualifier values)".
BuildSpacesDiffer ==
    \A g, h \in Parsed : Values(g) # Values(h) => Name(g) # Name(h)
=============================================================================
