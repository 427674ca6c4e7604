------------------------------- MODULE MCAnod --------------------------------
(***************************************************************************)
(* Small instances of what anod does before it builds, in one run: a       *)
(* behaviour is a behaviour of one module, its part.                       *)
(*                                                                         *)
(*   "context"     AnodContext: a few specifications, and plans about them *)
(*   "environment" Environment: nested saves, one of them in a file        *)
(*   "plans"       Plans: blocks and actions that name, omit or misname    *)
(*                 platforms                                               *)
(*   "loader"      SpecLoader: two files, that may load each other, and a  *)
(*                 prolog that may load them                               *)
(*   "qualifiers"  Qualifiers: three qualifiers and two build spaces       *)
(***************************************************************************)
EXTENDS AnodContext, Plans, SpecLoader, Qualifiers, TLC

CONSTANT Parts

----------------------------------------------------------------------------
(* Specifications and the lines of a plan.                                 *)

\* A specification that has nothing but what follows.
Bare ==
  [prims |-> {"build"}, package |-> FALSE, component |-> FALSE, provides |-> <<>>,
   deps |-> [p \in {"build", "install", "test", "source"} |-> <<>>],
   needs |-> [p \in {"build", "install", "test", "source"} |-> <<>>]]

DependsOn(s, primitive) == [name |-> s, kind |-> primitive]

\* lib is packaged; tree, user and fetch depend on it in three ways.  src
\* provides the sources of tree, one of them unmanaged; user needs one without
\* a dependency on src, so that it has to come after a line that loads src.
\* blob can only be downloaded.
MCDef ==
  [s \in {"lib", "tree", "user", "fetch", "src", "blob"} |->
    CASE s = "lib" ->
           [Bare EXCEPT !.prims = {"build", "install"}, !.package = TRUE, !.component = TRUE]
      [] s = "tree" ->
           [Bare EXCEPT !.component = TRUE,
                        !.deps["build"] = <<DependsOn("lib", "build"), DependsOn("src", "source")>>,
                        !.needs["build"] = <<"code", "data">>]
      [] s = "user" ->
           [Bare EXCEPT !.prims = {"test"},
                        !.deps["test"] = <<DependsOn("lib", "install"), DependsOn("blob", "install")>>,
                        !.needs["test"] = <<"code">>]
      [] s = "fetch" ->
           [Bare EXCEPT !.deps["build"] = <<DependsOn("lib", "download"), DependsOn("src", "install")>>]
      [] s = "src" ->
           [Bare EXCEPT !.provides = <<"code", "data">>]
      [] s = "blob" ->
           [Bare EXCEPT !.prims = {"install"}]]

\* The install of lib has another predecessor than its decision.
DefWithInstallDeps ==
  [MCDef EXCEPT !["lib"].deps["install"] = <<DependsOn("blob", "install")>>]

LineFor(s, prim, upload) == [spec |-> s, prim |-> prim, upload |-> upload]

MCLines ==
  {LineFor("lib", "build", TRUE), LineFor("lib", "build", FALSE),
   LineFor("lib", "install", TRUE), LineFor("tree", "build", TRUE),
   LineFor("tree", "install", TRUE), LineFor("user", "test", TRUE),
   LineFor("fetch", "build", TRUE), LineFor("src", "source", TRUE)}

TreeAndInstall ==
  {LineFor("tree", "build", TRUE), LineFor("lib", "install", TRUE)}

TreeAndSources ==
  {LineFor("lib", "build", TRUE), LineFor("tree", "build", TRUE), LineFor("src", "source", TRUE)}

MCCheckouts == [x \in {"code", "data"} |-> <<"git">>]
AnyOrder == {{}}
TwoOrders == {{}, {"lib"}}

----------------------------------------------------------------------------
(* Plans.                                                                  *)

MCPlatforms == {"linux", "win64", "win", "arm"}
MCCanadianExceptions == {<<"win", "win64">>}
On(name, machine) == [name |-> name, machine |-> machine]
MCLocalPlatform == On("linux", "here")
MCServers == {MCLocalPlatform, On("linux", "there")}
MCHostPlatforms == {On("win", "")}

Asked(name) == On(name, "")
Block(build, host, target, module_name, enabled) ==
  [build |-> build, host |-> host, target |-> target, module |-> module_name,
   enabled |-> enabled]
MCBlockArgs ==
  {Block(None, None, Asked("arm"), "", TRUE), Block(Asked("win"), None, None, "m", TRUE),
   Block(None, Asked("win64"), None, "", TRUE), Block(None, None, None, "", FALSE),
   Block(Asked("target"), Asked("build"), None, "", TRUE),
   Block(Asked("nope"), None, None, "", TRUE), Block(None, None, Asked("build"), "n", TRUE),
   Block(None, None, Asked("linux"), "", TRUE)}

Call(build, host, target, module_name, board) ==
  [build |-> build, host |-> host, target |-> target, module |-> module_name, board |-> board]
MCActionArgs ==
  {Call(None, None, None, "", ""), Call(Asked("win"), None, None, "", ""),
   Call(None, Asked("linux"), None, "m", ""), Call(None, None, Asked("linux"), "", ""),
   Call(None, None, Asked("arm"), "", "board"),
   Call(Asked("win"), Asked("win64"), Asked("win64"), "", ""),
   Call(None, Asked("target"), Asked("host"), "", ""), Call(None, None, Asked("nope"), "", ""),
   Call(Asked("win"), None, Asked("win"), "", ""),
   Call(Asked("win"), Asked("build"), Asked("linux"), "", "")}

----------------------------------------------------------------------------
(* Files of specifications: with a class, after another one, with a class  *)
(* of another one, circular, failing, without a class of their own.        *)

MCCodes ==
  {<<Statement("class", "B")>>,
   <<Statement("spec", "x"), Statement("class", "B")>>,
   <<Statement("spec", "y"), Statement("class", "B")>>,
   <<Statement("try", "x"), Statement("class", "C"), Statement("class", "B")>>,
   <<Statement("try", "y"), Statement("class", "B")>>,
   <<Statement("raise", "")>>, <<Statement("class", "Anod")>>, <<>>}
MCPrologs ==
  {<<>>, <<Statement("spec", "x"), Statement("name", "n")>>,
   <<Statement("name", "n"), Statement("try", "y"), Statement("name", "m")>>}
MCClassRank == [A |-> 1, Anod |-> 2, B |-> 3, C |-> 4]

----------------------------------------------------------------------------
(* Qualifiers: a tag, a key and a set, with and without defaults, choices, *)
(* a place in the hash or in the names of tests only.                      *)

MCRank ==
  (<<"k">> :> 1) @@ (<<"s">> :> 2) @@ (<<"t">> :> 3) @@ (<<>> :> 4) @@ (<<"a">> :> 5)
  @@ (<<"a", "-", "b">> :> 6) @@ (<<"b">> :> 7)
Declaration(k, n, default, choices, in_hash, omit_key, test_only) ==
  [kind |-> k, name |-> n, repr_name |-> <<n>>, default |-> default, choices |-> choices,
   in_hash |-> in_hash, omit_key |-> omit_key, test_only |-> test_only]
MCQualifierDecls ==
  {Declaration("tag", "t", NoDefault, NoChoices, FALSE, FALSE, FALSE),
   Declaration("key", "k", NoDefault, NoChoices, FALSE, TRUE, FALSE),
   Declaration("key", "k", {<<"a">>}, {<<"a">>, <<"b">>}, TRUE, FALSE, FALSE),
   Declaration("key", "k", {<<"a">>}, {<<"a">>, <<>>}, FALSE, FALSE, FALSE),
   Declaration("set", "s", NoDefault, NoChoices, FALSE, FALSE, FALSE),
   Declaration("set", "s", {<<"a">>}, {<<"a">>, <<"b">>}, TRUE, FALSE, TRUE)}
MCSpaceDecls ==
  {[name |-> <<n>>, configuration |-> c, has_component |-> h] :
     n \in {"x", "y"}, h \in BOOLEAN, c \in {<<>>, "t" :> Input("none", {})}}
MCInputs == {Input("str", {<<"a">>}), Input("str", {<<>>}), Input("str", {<<"a", ";", "b">>})}
MCGiven ==
  {<<>>, "t" :> Input("none", {}),
   ("k" :> Input("str", {<<"b">>})) @@ ("t" :> Input("bool", {}))}
  \cup {"k" :> i : i \in MCInputs}
  \cup {"s" :> i : i \in MCInputs \cup {Input("set", {<<"a">>, <<"b">>}),
                                       Input("set", {<<"a", "-", "b">>})}}
MCBaseName == <<"base">>
MCTargetWords == <<<<"arm">>>>

----------------------------------------------------------------------------

VARIABLE part

allVars == <<vars, environmentVars, planVars, loaderVars, qualifierVars, part>>

Pick(S) == CHOOSE x \in S : TRUE

AnodInit ==
  /\ part \in Parts
  /\ ContextInit /\ (part = "context" \/ order = Pick(Orders))
  /\ EnvironmentInit /\ cwd = Pick(Directories)
  /\ PlanInit /\ (part = "plans" \/ server = LocalPlatform)
  /\ LoaderInit
  /\ part = "loader" \/ (prolog = <<>> /\ \A s \in Specs : code[s].text = <<>>)
  /\ QualifierInit /\ (part = "qualifiers" \/ kind = "build")

\* Nothing more need be asked.
NoMoreCalls == part # "context" /\ UNCHANGED allVars

AnodNext ==
  \/ part = "context" /\ Next /\ UNCHANGED <<environmentVars, planVars, loaderVars, qualifierVars, part>>
  \/ /\ part = "environment" /\ EnvironmentNext
     /\ UNCHANGED <<vars, planVars, loaderVars, qualifierVars, part>>
  \/ part = "plans" /\ PlanNext /\ UNCHANGED <<vars, environmentVars, loaderVars, qualifierVars, part>>
  \/ part = "loader" /\ LoaderNext /\ UNCHANGED <<vars, environmentVars, planVars, qualifierVars, part>>
  \/ part = "qualifiers" /\ QualifierNext /\ UNCHANGED <<vars, environmentVars, planVars, loaderVars, part>>
  \/ NoMoreCalls

AnodSpec == AnodInit /\ [][AnodNext]_allVars

=============================================================================
