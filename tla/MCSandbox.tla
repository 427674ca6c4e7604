------------------------------ MODULE MCSandbox ------------------------------
(***************************************************************************)
(* Small instances of what works on a sandbox, in one run: a behaviour is  *)
(* a behaviour of one module, its part.                                    *)
(*                                                                         *)
(*   "walk"        Walk: three actions, in a chain or with two             *)
(*                 predecessors                                            *)
(*   "electrolyt"  Electrolyt: one action of each kind                     *)
(*   "files"       FileMoves: two directories, names that patterns miss    *)
(*   "sync"        SyncTree: a file, and a directory with an entry         *)
(*   "checkouts"   Checkouts: two git repositories, two of svn, a directory*)
(*   "pypi"        PyPIClosure: three projects with an extra, markers, a   *)
(*                 pre-release and a yanked release                        *)
(*   "events"      Events: one handler of each kind, two mail servers      *)
(***************************************************************************)
EXTENDS Walk, Electrolyt, FileMoves, SyncTree, Checkouts, PyPIClosure, Events, TLC

CONSTANTS Parts, a, b, c

----------------------------------------------------------------------------
(* Walks.                                                                  *)

MCVertex == {a, b, c}

Chain == [v \in MCVertex |-> CASE v = a -> {} [] v = b -> {a} [] v = c -> {b}]
Join == [v \in MCVertex |-> CASE v = a -> {} [] v = b -> {} [] v = c -> {a, b}]

MCQueue == [v \in MCVertex |-> 1]
MCTokens == [v \in MCVertex |-> 1]
MCQueueTokens == [q \in 1..1 |-> 2]

WalksOver(graph, l, u, p, numWalks, numRequeues) ==
  [dag |-> graph, late |-> l, untracked |-> u, plain |-> p,
   walks |-> numWalks, requeues |-> numRequeues]

\* Two walks when everything is tracked, when something is not, and when a job
\* is plain; and three, so that a source may change and change back around a
\* failure.
MCCampaigns ==
  { WalksOver(Chain, {}, {}, {}, 2, 1), WalksOver(Join, {}, {}, {}, 2, 1),
    WalksOver(Chain, {a}, {b}, {}, 2, 0), WalksOver(Join, {a}, {b}, {}, 2, 0),
    WalksOver(Chain, {}, {}, {b}, 2, 0), WalksOver(Join, {}, {}, {a}, 2, 0),
    WalksOver(Chain, {}, {}, {}, 3, 0) }

\* The first job of a chain is not tracked.
UntrackedFirst == { WalksOver(Chain, {}, {a}, {}, 2, 0) }

----------------------------------------------------------------------------
(* Electrolyt: a source that is made, installed and built with.            *)

MCActionKind ==
  [checkout |-> "checkout", create |-> "createsource", get |-> "getsource",
   install |-> "installsource", build |-> "primitive", svn |-> "svn checkout",
   root |-> "root"]
MCActionsBefore ==
  [checkout |-> {}, create |-> {"checkout"}, get |-> {"create"}, install |-> {"get"},
   build |-> {"install"}, svn |-> {}, root |-> {"build", "svn"}]
MCActions == DOMAIN MCActionKind

----------------------------------------------------------------------------
(* Files: a directory with entries of its own, a hidden one, one whose     *)
(* name is a pattern, one named as its directory.                          *)

MCRelative ==
  {<<>>, <<"r">>, <<"r", "a">>, <<"a">>, <<".b">>, <<"[c]">>, <<"c">>, <<"r", "[c]">>, <<"r", "r">>,
   <<"r", "r", "a">>}
MCFilePaths == {<<d>> \o p : d \in {"dest", "aside"}, p \in MCRelative}
Filled(f) ==
  [p \in MCFilePaths |-> IF p \in {Dest, Aside} THEN IsDir
                         ELSE IF p \in DOMAIN f THEN f[p] ELSE Missing]
MCInitialFiles ==
  {Filled(<<>>),
   Filled((<<"aside", "r">> :> IsDir) @@ (<<"aside", "r", "a">> :> "old")
          @@ (<<"aside", "a">> :> "link") @@ (<<"dest", "a">> :> "other")),
   Filled((<<"aside", "[c]">> :> "old") @@ (<<"aside", "c">> :> "other"))}
MCMeaning == [x \in {"[c]"} |-> "c"]
MCMoveCalls ==
  [op : {"mv", "cp"}, sources : {{<<"aside", "r">>}, {<<"aside", "r">>, <<"aside", "a">>}},
   target : {<<"dest">>, <<"dest", "r">>}]
  \cup {[op |-> "mv", sources |-> {<<"aside", "*">>}, target |-> <<"dest">>]}
\* Archives: empty, one root directory, several roots, one file.
MCArchives ==
  {<<>>,
   (<<"r">> :> IsDir) @@ (<<"r", "a">> :> "new"),
   (<<"r">> :> IsDir) @@ (<<"r", "a">> :> "new") @@ (<<"r", "[c]">> :> "new"),
   (<<"a">> :> "new") @@ (<<".b">> :> "new") @@ (<<"r">> :> IsDir),
   <<"a">> :> "new"}
MCUnpackCalls ==
  {[archive |-> x, mode |-> m, delete |-> d] :
     x \in MCArchives, m \in {"keep", "remove", "auto"}, d \in BOOLEAN}

----------------------------------------------------------------------------
(* Trees to synchronise.                                                   *)

MCPaths == {<<>>, <<"d">>, <<"f">>, <<"d", "x">>}
Args(del, ign, di, fl, pt) ==
  [delete |-> del, ignore |-> ign, delete_ignore |-> di, file_list |-> fl,
   preserve_timestamps |-> pt]
All == {<<>>}             \* no file_list
MCCalls ==
  {Args(TRUE, {}, FALSE, All, TRUE), Args(TRUE, {}, FALSE, All, FALSE),
   Args(FALSE, {[kind |-> "name", path |-> <<"x">>]}, FALSE, All, TRUE),
   Args(TRUE, {[kind |-> "prefix", path |-> <<"f">>]}, TRUE, {<<"d">>}, TRUE),
   Args(TRUE, {}, FALSE, {}, TRUE)}

----------------------------------------------------------------------------
(* Repositories, packages, events.                                         *)

MCVcs == [g1 |-> "git", g2 |-> "git", s1 |-> "svn", s2 |-> "svn", x |-> "external"]
MCUrls == DOMAIN MCVcs

MCPlatforms == {"linux", "windows"}
MCReleases == {"a", "b", "c"} \X {1, 2, 3}
MCVersions == [a |-> {1, 2}, b |-> {1, 2, 3}, c |-> {1}]
MCKind == [f \in MCReleases |-> CASE f = <<"b", 3>> -> "pre"
                                  [] f = <<"a", 2>> -> "yanked"
                                  [] OTHER -> "plain"]
MCRequired == {Requirement("a", "", {1, 2}, MCPlatforms, "")}
MCRequires ==
  [f \in MCReleases |->
     CASE f = <<"a", 1>> -> {Requirement("b", "x", {1, 2, 3}, MCPlatforms, ""),
                             Requirement("c", "", {1}, {"linux"}, "")}
       [] f = <<"b", 2>> -> {Requirement("c", "", {1}, MCPlatforms, "x")}
       [] f = <<"c", 1>> -> {Requirement("b", "", {2}, MCPlatforms, "")}
       [] OTHER -> {}]
MCWorks == [f \in MCReleases |-> IF f = <<"c", 1>> THEN {"linux"} ELSE MCPlatforms]

MCHandlers == <<"file", "s3", "smtp", "logging">>
MCServers == <<"m1", "m2">>

----------------------------------------------------------------------------

VARIABLE part

allVars ==
  <<vars, electrolytVars, fileVars, syncVars, checkoutVars, pypiVars, eventVars, part>>

Pick(S) == CHOOSE x \in S : TRUE

SandboxInit ==
  /\ part \in Parts
  /\ WalkInit /\ (part = "walk" \/ (campaign = Pick(Campaigns) /\ source = Pick([Vertex -> Version])))
  /\ ElectrolytInit /\ (part = "electrolyt" \/ (upstream = Pick(Revisions) /\ ~local_builder))
  /\ FileInit /\ (part = "files" \/ (held = Pick(InitialFiles) /\ one_device))
  /\ SyncInit /\ (part = "sync" \/ target = EmptyRoot)
  /\ CheckoutInit
  /\ PyPIInit
  /\ EventInit

\* The caller need not call anything any more.
NoMoreCalls == part # "walk" /\ UNCHANGED allVars

SandboxNext ==
  \/ /\ part = "walk" /\ WalkNext
     /\ UNCHANGED <<electrolytVars, fileVars, syncVars, checkoutVars, pypiVars, eventVars, part>>
  \/ /\ part = "electrolyt" /\ ElectrolytNext
     /\ UNCHANGED <<vars, fileVars, syncVars, checkoutVars, pypiVars, eventVars, part>>
  \/ /\ part = "files" /\ FileNext
     /\ UNCHANGED <<vars, electrolytVars, syncVars, checkoutVars, pypiVars, eventVars, part>>
  \/ /\ part = "sync" /\ SyncNext
     /\ UNCHANGED <<vars, electrolytVars, fileVars, checkoutVars, pypiVars, eventVars, part>>
  \/ /\ part = "checkouts" /\ CheckoutNext
     /\ UNCHANGED <<vars, electrolytVars, fileVars, syncVars, pypiVars, eventVars, part>>
  \/ /\ part = "pypi" /\ PyPINext
     /\ UNCHANGED <<vars, electrolytVars, fileVars, syncVars, checkoutVars, eventVars, part>>
  \/ /\ part = "events" /\ EventNext
     /\ UNCHANGED <<vars, electrolytVars, fileVars, syncVars, checkoutVars, pypiVars, part>>
  \/ NoMoreCalls

SandboxSpec == SandboxInit /\ [][SandboxNext]_allVars

\* mv, cp, unpack_archive and sync_tree leave each file whole, in its place.
FilesRight == MoveRight /\ UnpackRight /\ SyncedRight

==============================================================================
