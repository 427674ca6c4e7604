------------------------------ MODULE MCStores -------------------------------
(***************************************************************************)
(* Small instances of stores and their clients, in one run: a behaviour is *)
(* a behaviour of one module, its part.                                    *)
(*                                                                         *)
(*   "store"     AnodStore: one source, one third party, one component     *)
(*   "clients"   StoreClients: two uploaders of one third party            *)
(*   "download"  FileDownload: two File objects and one directory          *)
(*   "cache"     ResourceCache: two clients, two resources of one name     *)
(*   "http"      HttpSession: two URLs and one file                        *)
(***************************************************************************)
EXTENDS AnodStore, StoreClients, FileDownload, ResourceCache, HttpSession, TLC

CONSTANTS Parts, f1, f2

\* A component with a readme, a file and a release; one with the same file
\* attached twice.
Shape(readme, files, attachments, releases) ==
    [readme |-> readme, files |-> files, attachments |-> attachments,
     releases |-> releases]
MCShapes == {Shape(TRUE, 1, <<>>, <<"r">>), Shape(FALSE, 0, <<"a", "a">>, <<>>)}

Query(query, name, bid, setup, kind) ==
    [query |-> query, name |-> name, bid |-> bid, setup |-> setup, kind |-> kind]
MCQueries ==
    {<<Query("source", "src", 1, "", "source"), Query("source", "src", 2, "", "source")>>,
     <<Query("component", "comp", NoId, "s1", ""), Query("source", "src", NoId, "s1", "source")>>,
     <<Query("source", "tp", 2, "", "thirdparty"), Query("source", "src", 3, "", "source")>>}

MCFiles == {f1, f2}
MCResource == (f1 :> "r1") @@ (f2 :> "r2")
MCFilename == [r \in {"r", "s"} |-> "name"]
MCBaseURLs == <<"u1", "u2">>

----------------------------------------------------------------------------

VARIABLE part

allVars == <<storeVars, clientVars, downloadVars, cacheVars, httpVars, part>>

StoresInit ==
  /\ part \in Parts
  /\ StoreInit /\ ClientInit /\ CacheInit /\ HttpInit
  /\ DownloadInit /\ (part = "download" \/ archive)

\* Nothing more need be asked.
NoMoreCalls == UNCHANGED allVars

StoresNext ==
  \/ part = "store" /\ StoreNext /\ UNCHANGED <<clientVars, downloadVars, cacheVars, httpVars, part>>
  \/ part = "clients" /\ ClientNext /\ UNCHANGED <<storeVars, downloadVars, cacheVars, httpVars, part>>
  \/ part = "download" /\ DownloadNext /\ UNCHANGED <<storeVars, clientVars, cacheVars, httpVars, part>>
  \/ part = "cache" /\ CacheNext /\ UNCHANGED <<storeVars, clientVars, downloadVars, httpVars, part>>
  \/ part = "http" /\ HttpNext /\ UNCHANGED <<storeVars, clientVars, downloadVars, cacheVars, part>>
  \/ NoMoreCalls

StoresSpec == StoresInit /\ [][StoresNext]_allVars

\* What is committed to the shared store is whole, what is copied to a local
\* one is closed, and a bulk update makes it answer alone (e3.anod.store).
StoreRight == ComponentsWhole /\ LocalClosed /\ OfflineAnswers

\* What the clients of one store think of it is true: the end of a wait, the
\* names of third parties, the attachments of a component.
ClientsRight == WaitRight /\ ThirdPartiesUnique /\ ObjectAgrees

==============================================================================
