---------------------------- MODULE ResourceCache ----------------------------
(***************************************************************************)
(* e3.store: Store.download_resource, that gives away the path of a file   *)
(* downloaded before when the cache has one and it verifies, over          *)
(* FileCache, whose entries are files that all processes share.  A         *)
(* resource is named by its uid, which is the hash of its content here.    *)
(***************************************************************************)
EXTENDS Naturals, FiniteSets

CONSTANTS Clients,        \* processes
          CachedResources, Filename,   \* uids, and the name the server gives to each
          Destinations,   \* directories resources are downloaded to
          MaxFetches, MaxEvents

NoFile == "none"
Part == "part"            \* half of a resource, another content
ASSUME ResourcesAssumption == {NoFile, Part} \cap CachedResources = {}

VARIABLES downloaded,     \* path -> content
          cached,         \* uid -> [path, state]: the entry, a file of the cache
          client,
          events,         \* what befell the files and entries so far
          fetches

cacheVars == <<downloaded, cached, client, events, fetches>>

PathOf(dest, r) == <<dest, Filename[r]>>
LocalPaths == {PathOf(d, r) : d \in Destinations, r \in CachedResources}
NoPath == <<"none", "none">>
NoEntry == [path |-> NoPath, state |-> "absent"]

CacheInit ==
    /\ downloaded = [q \in LocalPaths |-> NoFile]
    /\ cached = [r \in CachedResources |-> NoEntry]
    /\ client = [c \in Clients |-> [pc |-> "idle", uid |-> CHOOSE r \in CachedResources : TRUE,
                                    dest |-> CHOOSE d \in Destinations : TRUE,
                                    path |-> NoPath, touched |-> FALSE]]
    /\ events = 0 /\ fetches = 0

Step(c, from, to) == client[c].pc = from /\ client' = [client EXCEPT ![c].pc = to]
Stored == UNCHANGED <<downloaded, events, fetches>>

\* The clients that have got path q, or are about to, learn of a write to it.
Touched(q, by) ==
    [c \in Clients |-> IF c \notin by /\ client[c].path = q
                       THEN [client[c] EXCEPT !.touched = TRUE] ELSE client[c]]

StartFetch(c, uid, dest) ==
    /\ client[c].pc \in {"idle", "returned", "none", "raised"} /\ fetches < MaxFetches
    /\ fetches' = fetches + 1
    /\ client' = [client EXCEPT ![c] = [pc |-> "get", uid |-> uid, dest |-> dest,
                                        path |-> NoPath, touched |-> FALSE]]
    /\ UNCHANGED <<downloaded, cached, events>>

-----------------------------------------------------------------------------
(* FileCache.                                                              *)

\* get, with the cases of an entry that has no path and of one that expired.
Get(c) ==
    LET entry == cached[client[c].uid]
    IN  /\ client[c].pc = "get"
        /\ client' = [client EXCEPT
              ![c].path = IF entry.state = "valid" THEN entry.path ELSE NoPath,
              ![c].pc = IF entry.state = "expired" THEN "expire"
                        ELSE IF entry.state = "valid" THEN "verify" ELSE "download"]
        /\ UNCHANGED cached /\ Stored

\* rm of the entry, by its name: the file is looked for, and then removed
\* whichever it is now.  When it has gone in between rm raises FSError.
RemovePath(c, from, unlink) ==
    \/ /\ Step(c, from, IF cached[client[c].uid] = NoEntry THEN "download" ELSE unlink)
       /\ UNCHANGED cached /\ Stored
    \/ /\ Step(c, unlink, IF cached[client[c].uid] = NoEntry THEN "raised" ELSE "download")
       /\ cached' = [cached EXCEPT ![client[c].uid] = NoEntry]
       /\ Stored

Expire(c) == RemovePath(c, "expire", "expire unlink")
Delete(c) == RemovePath(c, "delete", "delete unlink")

\* set: written aside and renamed, or given up.
Set(c) ==
    /\ Step(c, "set", "returned")
    /\ \/ cached' = [cached EXCEPT ![client[c].uid] = [path |-> client[c].path,
                                                       state |-> "valid"]]
       \/ UNCHANGED cached
    /\ Stored

-----------------------------------------------------------------------------
(* Store.download_resource; the verify of HTTPSimpleStoreResourceInfo.      *)

\* Variant: the cached path is given away as it is.
VerdictTrusted(c) == "returned"

\* The hash of a file that is not there raises.
Verdict(c) ==
    LET content == downloaded[client[c].path]
    IN  IF content = NoFile THEN "raised"
        ELSE IF content = client[c].uid THEN "returned" ELSE "delete"

Verify(c) ==
    /\ client[c].pc = "verify"
    /\ client' = [client EXCEPT ![c].pc = Verdict(c), ![c].touched = FALSE]
    /\ UNCHANGED cached /\ Stored

Writes(c, q, content, pc) ==
    /\ downloaded' = [downloaded EXCEPT ![q] = content]
    /\ client' = [Touched(q, {c}) EXCEPT ![c].pc = pc, ![c].path = q, ![c].touched = FALSE]
    /\ UNCHANGED <<cached, events, fetches>>

\* download_resource_content: see HttpSession.  What two clients write at
\* once to one file may be mixed.  The end of a download always leaves a file at
\* the path, also where the one it wrote to was removed meanwhile: one outcome
\* more than there is.
Download(c) ==
    LET q == PathOf(client[c].dest, client[c].uid)
        mixed == \E d \in Clients \ {c} : client[d].pc = "chunks" /\ client[d].path = q
    IN  \/ client[c].pc = "download" /\ Writes(c, q, Part, "chunks")
        \/ client[c].pc = "chunks" /\ Writes(c, q, client[c].uid, "validate")
        \/ client[c].pc = "chunks" /\ mixed /\ Writes(c, q, Part, "validate")

DownloadFails(c) ==
    \/ Step(c, "download", "none") /\ UNCHANGED cached /\ Stored
    \/ client[c].pc = "chunks" /\ Writes(c, client[c].path, NoFile, "none")

\* download_file: what does not validate is removed, a file that is gone raises.
ValidateDownload(c) ==
    /\ client[c].pc = "validate"
    /\ LET content == downloaded[client[c].path]
       IN  IF content = Part \/ (content # NoFile /\ content # client[c].uid)
           THEN Writes(c, client[c].path, NoFile, "none")
           ELSE /\ client' = [client EXCEPT ![c].touched = FALSE,
                    ![c].pc = IF content = NoFile THEN "raised" ELSE "set"]
                /\ UNCHANGED cached /\ Stored

-----------------------------------------------------------------------------
\* Time passes; another program uses the cache; a file is removed or damaged.
Event ==
    /\ events < MaxEvents /\ events' = events + 1
    /\ \/ \E r \in CachedResources : /\ cached[r].state = "valid"
                               /\ cached' = [cached EXCEPT ![r].state = "expired"]
                               /\ UNCHANGED <<downloaded, client>>
       \/ \E r \in CachedResources : /\ cached' = [cached EXCEPT ![r] =
                                                [path |-> NoPath, state |-> "strange"]]
                               /\ UNCHANGED <<downloaded, client>>
       \/ \E q \in LocalPaths, content \in {NoFile, Part} :
             /\ downloaded[q] \notin {NoFile, content}
             /\ downloaded' = [downloaded EXCEPT ![q] = content]
             /\ client' = Touched(q, {})
             /\ UNCHANGED cached
    /\ UNCHANGED fetches

CacheNext ==
    \/ \E c \in Clients :
          \/ \E r \in CachedResources, d \in Destinations : StartFetch(c, r, d)
          \/ Get(c) \/ Expire(c) \/ Delete(c) \/ Set(c)
          \/ Verify(c) \/ Download(c) \/ DownloadFails(c) \/ ValidateDownload(c)
    \/ Event

CacheSpec == CacheInit /\ [][CacheNext]_cacheVars

-----------------------------------------------------------------------------
(* Properties.                                                             *)

\* Whatever became of entries and files, and of other clients that download to
\* the same directory, a path that is returned holds the resource asked for,
\* if it was not written to since it was verified.
ReturnedIsVerified ==
    \A c \in Clients : client[c].pc = "returned" /\ ~client[c].touched =>
       downloaded[client[c].path] = client[c].uid

\* "Discard invalid cache entry": when a call has met a cached path that does
\* not have the resource and has ended, the entry is no longer there.
InvalidIsDiscarded ==
    \A c \in Clients : client[c].pc = "raised" /\ client[c].path # NoPath =>
       \/ cached[client[c].uid].path # client[c].path
       \/ downloaded[client[c].path] # NoFile
=============================================================================
