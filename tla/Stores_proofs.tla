--------------------------- MODULE Stores_proofs ----------------------------
(***************************************************************************)
(* Theorems about ResourceCache, FileDownload and HttpSession, for any     *)
(* number of clients, resources, directories, URLs and calls.              *)
(*                                                                         *)
(* In the first two a file outlives the call that wrote it, and is trusted *)
(* by later ones on some evidence: a hash, or a metadata file.  In         *)
(* ResourceCache the path goes from one step of a call to the next, and    *)
(* only a write to that path can make it wrong.  In FileDownload the       *)
(* evidence is about the last call that saved it, so that all calls before *)
(* a call that relies on it must have saved theirs.  In HttpSession the    *)
(* queue of URLs turns as the request goes through its own copy of it: it  *)
(* is at any time the URL asked, those left, and those asked before.       *)
(***************************************************************************)
EXTENDS ResourceCache, FileDownload, HttpSession, TLAPS

-----------------------------------------------------------------------------
(* ResourceCache.                                                          *)

Held(c) == client[c].pc \in {"set", "returned"} /\ ~client[c].touched =>
              downloaded[client[c].path] = client[c].uid

Pcs == {"idle", "get", "expire", "expire unlink", "verify", "delete", "delete unlink",
        "download", "chunks", "validate", "set", "returned", "none", "raised"}
FileContents == CachedResources \cup {NoFile, Part}
Places == LocalPaths \cup {NoPath}

\* An entry that is valid has a path.
EntriesOK ==
    /\ cached \in [CachedResources -> [path : Places,
                                       state : {"absent", "valid", "expired", "strange"}]]
    /\ \A r \in CachedResources : cached[r].state = "valid" => cached[r].path \in LocalPaths

CacheTypeOK ==
    /\ downloaded \in [LocalPaths -> FileContents]
    /\ client \in [Clients -> [pc : Pcs, uid : CachedResources, dest : Destinations,
                               path : Places, touched : BOOLEAN]]

\* What client c holds in its variables is a path, once it has met one.
PathMet(c) == client[c].pc \in {"verify", "chunks", "validate", "set", "returned"} =>
                 client[c].path \in LocalPaths

CacheInv ==
    /\ CacheTypeOK /\ EntriesOK
    /\ \A c \in Clients : PathMet(c) /\ Held(c)

\* An entry is set or removed.
LEMMA EntrySet ==
    ASSUME EntriesOK, NEW r \in CachedResources, NEW e,
           e = NoEntry \/ \E q \in LocalPaths : e = [path |-> q, state |-> "valid"],
           cached' = [cached EXCEPT ![r] = e]
    PROVE  EntriesOK'
<1>1. /\ e \in [path : Places, state : {"absent", "valid", "expired", "strange"}]
      /\ e.state = "valid" => e.path \in LocalPaths
  BY DEF NoEntry, Places
<1>2. \A s \in CachedResources : cached'[s] = IF s = r THEN e ELSE cached[s]
  BY DEF EntriesOK
<1>3. QED
  BY <1>1, <1>2 DEF EntriesOK

LEMMA PathOfLocal ==
    ASSUME NEW d \in Destinations, NEW r \in CachedResources
    PROVE  PathOf(d, r) \in LocalPaths
BY DEF LocalPaths

\* What client c does to its own variables, the files as they are.
LEMMA OwnStep ==
    ASSUME CacheInv, NEW c \in Clients, NEW pc \in Pcs, NEW p \in Places, NEW t \in BOOLEAN,
           client' = [client EXCEPT ![c] = [@ EXCEPT !.pc = pc, !.path = p, !.touched = t]],
           UNCHANGED downloaded, EntriesOK',
           pc \in {"verify", "chunks", "validate", "set", "returned"} => p \in LocalPaths,
           pc \in {"set", "returned"} /\ ~t => downloaded[p] = client[c].uid
    PROVE  CacheInv'
<1>1. CacheTypeOK'
  BY DEF CacheInv, CacheTypeOK
<1>2. ASSUME NEW d \in Clients PROVE PathMet(d)' /\ Held(d)'
  <2>1. CASE d = c
    BY <2>1 DEF CacheInv, CacheTypeOK, PathMet, Held
  <2>2. CASE d # c
    <3>1. client'[d] = client[d]
      BY <2>2 DEF CacheInv, CacheTypeOK
    <3>2. QED
      BY <3>1 DEF CacheInv, CacheTypeOK, PathMet, Held
  <2>3. QED
    BY <2>1, <2>2
<1>3. QED
  BY <1>1, <1>2 DEF CacheInv

\* A file is written: whoever has its path learns of it, but client c.
LEMMA WritesStep ==
    ASSUME CacheInv, NEW c \in Clients, NEW q \in LocalPaths, NEW content \in FileContents,
           NEW pc \in Pcs \ {"set", "returned"}, Writes(c, q, content, pc)
    PROVE  CacheInv'
<1>1. CacheTypeOK'
  <2>1. downloaded' \in [LocalPaths -> FileContents]
    BY DEF CacheInv, CacheTypeOK, Writes
  <2>2. Touched(q, {c}) \in [Clients -> [pc : Pcs, uid : CachedResources, dest : Destinations,
                                        path : Places, touched : BOOLEAN]]
    BY DEF CacheInv, CacheTypeOK, Touched
  <2>3. client' = [Touched(q, {c}) EXCEPT ![c] =
                      [@ EXCEPT !.pc = pc, !.path = q, !.touched = FALSE]]
    BY DEF Writes
  <2>4. QED
    BY <2>1, <2>2, <2>3 DEF CacheTypeOK, Places
<1>2. ASSUME NEW d \in Clients PROVE PathMet(d)' /\ Held(d)'
  <2>1. CASE d = c
    BY <2>1 DEF CacheInv, CacheTypeOK, PathMet, Held, Writes, Touched
  <2>2. CASE d # c
    <3>1. client'[d] = IF client[d].path = q THEN [client[d] EXCEPT !.touched = TRUE]
                       ELSE client[d]
      BY <2>2 DEF CacheInv, CacheTypeOK, Writes, Touched
    <3>2. QED
      BY <3>1 DEF CacheInv, CacheTypeOK, PathMet, Held, Writes
  <2>3. QED
    BY <2>1, <2>2
<1>3. QED
  BY <1>1, <1>2 DEF CacheInv, EntriesOK, Writes

LEMMA EventStep ==
    ASSUME CacheInv, Event
    PROVE  CacheInv'
<1>1. ASSUME NEW r \in CachedResources, UNCHANGED <<downloaded, client>>,
             \/ cached' = [cached EXCEPT ![r].state = "expired"]
             \/ cached' = [cached EXCEPT ![r] = [path |-> NoPath, state |-> "strange"]]
      PROVE  CacheInv'
  <2>1. EntriesOK'
    BY <1>1 DEF CacheInv, EntriesOK, Places
  <2>2. QED
    BY <1>1, <2>1 DEF CacheInv, CacheTypeOK, PathMet, Held
<1>2. ASSUME NEW q \in LocalPaths, NEW content \in {NoFile, Part},
             downloaded' = [downloaded EXCEPT ![q] = content],
             client' = Touched(q, {}), UNCHANGED cached
      PROVE  CacheInv'
  <2>1. CacheTypeOK'
    BY <1>2 DEF CacheInv, CacheTypeOK, Touched, FileContents
  <2>2. ASSUME NEW d \in Clients PROVE PathMet(d)' /\ Held(d)'
    BY <1>2 DEF CacheInv, CacheTypeOK, PathMet, Held, Touched
  <2>3. QED
    BY <1>2, <2>1, <2>2 DEF CacheInv, EntriesOK
<1>3. QED
  BY <1>1, <1>2 DEF Event

\* For any number of clients and resources, any names the server gives, and any
\* files damaged or removed: a path that is returned was right when it was
\* verified, and is as long as nobody writes to it.
THEOREM ReturnedIsVerifiedHolds ==
    ASSUME CachedResources # {}, Destinations # {}
    PROVE  CacheSpec => []ReturnedIsVerified
<1>1. CacheInit => CacheInv
  BY DEF CacheInit, CacheInv, CacheTypeOK, EntriesOK, PathMet, Held, NoEntry,
         Pcs, FileContents, Places
<1>2. CacheInv /\ [CacheNext]_cacheVars => CacheInv'
  <2> SUFFICES ASSUME CacheInv, [CacheNext]_cacheVars PROVE CacheInv'
    OBVIOUS
  <2>1. ASSUME UNCHANGED cached PROVE EntriesOK'
    BY <2>1 DEF CacheInv, EntriesOK
  <2>2. \A c \in Clients : /\ client[c] = [pc |-> client[c].pc, uid |-> client[c].uid,
                                           dest |-> client[c].dest, path |-> client[c].path,
                                           touched |-> client[c].touched]
                           /\ client[c].pc \in Pcs /\ client[c].path \in Places
                           /\ client[c].touched \in BOOLEAN /\ client[c].uid \in CachedResources
                           /\ client[c].dest \in Destinations
    BY DEF CacheInv, CacheTypeOK
  <2>3. ASSUME NEW c \in Clients, NEW r \in CachedResources, NEW d \in Destinations,
               StartFetch(c, r, d)
        PROVE  CacheInv'
    BY <2>1, <2>3 DEF StartFetch, CacheInv, CacheTypeOK, PathMet, Held, Pcs, Places
  <2>4. ASSUME NEW c \in Clients, Get(c) PROVE CacheInv'
    <3> DEFINE entry == cached[client[c].uid]
               path == IF entry.state = "valid" THEN entry.path ELSE NoPath
               pc == IF entry.state = "expired" THEN "expire"
                     ELSE IF entry.state = "valid" THEN "verify" ELSE "download"
    <3>1. client' = [client EXCEPT ![c] = [@ EXCEPT !.pc = pc, !.path = path,
                                                    !.touched = client[c].touched]]
      BY <2>2, <2>4 DEF Get, CacheInv, CacheTypeOK
    <3>2. pc \in Pcs /\ path \in Places /\ (pc = "verify" => path \in LocalPaths)
      BY <2>2 DEF CacheInv, EntriesOK, Pcs, Places
    <3>3. /\ UNCHANGED downloaded /\ EntriesOK'
          /\ pc \in {"expire", "verify", "download"} /\ client[c].touched \in BOOLEAN
      BY <2>1, <2>2, <2>4 DEF Get, Stored
    <3> HIDE DEF pc, path
    <3>4. QED
      BY <3>1, <3>2, <3>3, OwnStep
  <2>5. ASSUME NEW c \in Clients, Expire(c) \/ Delete(c) PROVE CacheInv'
    <3>1. PICK pc \in {"expire unlink", "delete unlink", "download", "raised"} :
            client' = [client EXCEPT ![c].pc = pc]
      BY <2>5 DEF Expire, Delete, RemovePath, Step
    <3>2. client' = [client EXCEPT ![c] = [@ EXCEPT !.pc = pc, !.path = client[c].path,
                                                    !.touched = client[c].touched]]
      BY <2>2, <3>1 DEF CacheInv, CacheTypeOK
    <3>3. /\ UNCHANGED downloaded
          /\ UNCHANGED cached \/ cached' = [cached EXCEPT ![client[c].uid] = NoEntry]
      BY <2>5 DEF Expire, Delete, RemovePath, Stored
    <3>4. EntriesOK'
      BY <2>1, <2>2, <3>3, EntrySet DEF CacheInv
    <3>5. pc \in Pcs /\ client[c].path \in Places /\ client[c].touched \in BOOLEAN
      BY <2>2 DEF Pcs
    <3>6. QED
      BY <3>2, <3>3, <3>4, <3>5, OwnStep
  <2>6. ASSUME NEW c \in Clients, Set(c) PROVE CacheInv'
    <3>1. client' = [client EXCEPT ![c] = [@ EXCEPT !.pc = "returned", !.path = client[c].path,
                                                    !.touched = client[c].touched]]
      BY <2>2, <2>6 DEF Set, Step, CacheInv, CacheTypeOK
    <3>2. /\ client[c].path \in LocalPaths /\ client[c].touched \in BOOLEAN
          /\ ~client[c].touched => downloaded[client[c].path] = client[c].uid
      BY <2>2, <2>6 DEF Set, Step, PathMet, Held, CacheInv
    <3>3. EntriesOK' /\ UNCHANGED downloaded
      BY <2>1, <2>2, <2>6, <3>2, EntrySet DEF Set, Stored, CacheInv
    <3>4. "returned" \in Pcs /\ client[c].path \in Places
      BY <2>2 DEF Pcs
    <3>5. QED
      BY <3>1, <3>2, <3>3, <3>4, OwnStep
  <2>7. ASSUME NEW c \in Clients, Verify(c) PROVE CacheInv'
    <3>1. client' = [client EXCEPT ![c] = [@ EXCEPT !.pc = Verdict(c), !.path = client[c].path,
                                                    !.touched = FALSE]]
      BY <2>2, <2>7 DEF Verify, CacheInv, CacheTypeOK
    <3>2. client[c].path \in LocalPaths /\ client[c].path \in Places
      BY <2>2, <2>7 DEF Verify, PathMet, CacheInv
    <3>3. /\ Verdict(c) \in {"raised", "returned", "delete"} /\ Verdict(c) \in Pcs
          /\ Verdict(c) = "returned" => downloaded[client[c].path] = client[c].uid
      BY DEF Verdict, Pcs
    <3>4. EntriesOK' /\ UNCHANGED downloaded
      BY <2>1, <2>7 DEF Verify, Stored
    <3>5. QED
      BY <3>1, <3>2, <3>3, <3>4, OwnStep
  <2>8. ASSUME NEW c \in Clients, Download(c) PROVE CacheInv'
    <3> DEFINE q == PathOf(client[c].dest, client[c].uid)
    <3>1. q \in LocalPaths
      BY <2>2, PathOfLocal
    <3>2. PICK content \in FileContents, pc \in Pcs \ {"set", "returned"} :
            Writes(c, q, content, pc)
      BY <2>2, <2>8 DEF Download, FileContents, Pcs
    <3>3. QED
      BY <3>1, <3>2, WritesStep
  <2>9. ASSUME NEW c \in Clients, DownloadFails(c) PROVE CacheInv'
    <3>1. "none" \in Pcs \ {"set", "returned"} /\ NoFile \in FileContents
      BY DEF Pcs, FileContents
    <3>2. CASE client[c].pc = "chunks" /\ Writes(c, client[c].path, NoFile, "none")
      <4>1. client[c].path \in LocalPaths
        BY <3>2 DEF PathMet, CacheInv
      <4>2. QED
        BY <3>1, <3>2, <4>1, WritesStep
    <3>3. CASE Step(c, "download", "none") /\ UNCHANGED cached /\ Stored
      <4>1. client' = [client EXCEPT ![c] = [@ EXCEPT !.pc = "none", !.path = client[c].path,
                                                      !.touched = client[c].touched]]
        BY <2>2, <3>3 DEF Step, CacheInv, CacheTypeOK
      <4>2. EntriesOK' /\ UNCHANGED downloaded
        BY <2>1, <3>3 DEF Stored
      <4>3. QED
        BY <2>2, <3>1, <4>1, <4>2, OwnStep
    <3>4. QED
      BY <2>9, <3>2, <3>3 DEF DownloadFails
  <2>10. ASSUME NEW c \in Clients, ValidateDownload(c) PROVE CacheInv'
    <3> DEFINE content == downloaded[client[c].path]
               pc == IF content = NoFile THEN "raised" ELSE "set"
    <3>1. client[c].path \in LocalPaths
      BY <2>10 DEF ValidateDownload, PathMet, CacheInv
    <3>2. CASE Writes(c, client[c].path, NoFile, "none")
      <4>1. "none" \in Pcs \ {"set", "returned"} /\ NoFile \in FileContents
        BY DEF Pcs, FileContents
      <4>2. QED
        BY <3>1, <3>2, <4>1, WritesStep
    <3>3. CASE /\ content \in {NoFile, client[c].uid}
               /\ client' = [client EXCEPT ![c].touched = FALSE, ![c].pc = pc]
               /\ UNCHANGED cached /\ Stored
      <4>1. client' = [client EXCEPT ![c] = [@ EXCEPT !.pc = pc, !.path = client[c].path,
                                                      !.touched = FALSE]]
        BY <2>2, <3>3 DEF CacheInv, CacheTypeOK
      <4>2. /\ pc \in {"raised", "set"} /\ pc \in Pcs
            /\ pc = "set" => downloaded[client[c].path] = client[c].uid
        BY <3>3 DEF Pcs
      <4>3. EntriesOK' /\ UNCHANGED downloaded
        BY <2>1, <3>3 DEF Stored
      <4> HIDE DEF pc, content
      <4>4. QED
        BY <2>2, <3>1, <4>1, <4>2, <4>3, OwnStep
    <3>4. QED
      BY <2>10, <3>2, <3>3 DEF ValidateDownload
  <2>11. CASE Event
    BY <2>11, EventStep
  <2>12. CASE UNCHANGED cacheVars
    BY <2>1, <2>12 DEF cacheVars, CacheInv, CacheTypeOK, PathMet, Held
  <2>13. QED
    BY <2>3, <2>4, <2>5, <2>6, <2>7, <2>8, <2>9, <2>10, <2>11, <2>12 DEF CacheNext
<1>3. CacheInv => ReturnedIsVerified
  BY DEF CacheInv, Held, ReturnedIsVerified
<1>4. QED
  BY <1>1, <1>2, <1>3, PTL DEF CacheSpec

-----------------------------------------------------------------------------
(* FileDownload.                                                           *)

NoObject == [unpack_dir |-> Nothing, downloaded_as |-> FALSE]
Metas == [resource_id : Resources \cup {Nothing}, unpack_dir : Dirs \cup {Nothing}]
Objects == [unpack_dir : Dirs \cup {Nothing}, downloaded_as : BOOLEAN]

DownloadTypeOK ==
    /\ DOMAIN trees = Dirs /\ trees = [d \in Dirs |-> trees[d]]
    /\ meta \in Metas
    /\ object \in [Files -> Objects]
    /\ call.of \in Files /\ call.unpack_dir \in Dirs \cup {Nothing}
    /\ call.pc \in {"idle", "sync", "fetch", "unpack", "save"}
    /\ call.dest \in BOOLEAN /\ call.save \in BOOLEAN /\ call.skip \in BOOLEAN
    /\ call.sync \in BOOLEAN /\ call.sound \in BOOLEAN /\ call.fetched \in BOOLEAN
    /\ clean \in BOOLEAN /\ archive \in BOOLEAN

\* The metadata is that of the file and the tree that are there.
MetaTrue(m) ==
    m # NoMeta => /\ m.resource_id \in Resources
                  /\ file \in {Nothing, m.resource_id}
                  /\ archive /\ m.unpack_dir # Nothing => trees[m.unpack_dir] = m.resource_id

Wanted == Resource[call.of]

\* What a call on a sound File object has done at each of its steps, and what
\* it relies on when it has not fetched the file.
StepTrue ==
    /\ call.pc = "sync" => /\ call.sync /\ call.unpack_dir # Nothing
                           /\ trees[object[call.of].unpack_dir] = Wanted
    /\ call.pc \in {"fetch", "unpack"} => ~call.sync
    /\ call.pc = "fetch" => /\ ~call.fetched
                            /\ object[call.of].downloaded_as => file = Wanted
    /\ call.pc = "unpack" /\ call.fetched =>
          ~call.skip /\ call.got = Wanted /\ (call.dest => file = Wanted)
    /\ call.pc = "unpack" /\ ~call.fetched /\ clean =>
          /\ call.dest /\ file = Wanted /\ call.got = Wanted
          /\ call.prev # NoMeta
          /\ archive /\ call.prev.unpack_dir # Nothing =>
                trees[call.prev.unpack_dir] = Wanted
    /\ call.pc = "save" /\ (call.fetched \/ call.sync \/ clean) => Got

DownloadInv ==
    /\ DownloadTypeOK
    /\ call.pc = "idle" /\ clean => MetaTrue(meta)
    /\ call.sound => StepTrue
    /\ call.pc # "idle" => call.result = "none"
    /\ DownloadRight

\* A resource is neither nothing nor broken, and a directory is one.
LEMMA ResourceReal ==
    /\ \A f \in Files : Resource[f] \in Resources /\ Resource[f] # Nothing
    /\ Nothing \notin Resources /\ Nothing \notin Dirs
BY DownloadAssumption DEF Resources

LEMMA NoObjectIsObject == NoObject \in Objects
BY DEF NoObject, Objects

\* A call ends by raising, or dies: nothing is promised any more.
LEMMA Raises ==
    ASSUME DownloadInv, call' = End("error"), clean' = FALSE,
           meta' \in {meta, NoMeta}, UNCHANGED object \/ object' = [f \in Files |-> NoObject],
           DOMAIN trees' = Dirs, trees' = [d \in Dirs |-> trees'[d]], UNCHANGED archive
    PROVE  DownloadInv'
<1>1. /\ call'.pc = "idle" /\ call'.result = "error"
      /\ call'.of = call.of /\ call'.unpack_dir = call.unpack_dir /\ call'.dest = call.dest
      /\ call'.save = call.save /\ call'.skip = call.skip /\ call'.sound = call.sound
      /\ call'.sync = call.sync
      /\ call'.fetched = call.fetched
  BY DEF End, DownloadInv, DownloadTypeOK
<1>2. meta' \in Metas
  BY DEF DownloadInv, DownloadTypeOK, Metas, NoMeta
<1>3. object' \in [Files -> Objects]
  BY NoObjectIsObject DEF DownloadInv, DownloadTypeOK
<1>4. QED
  BY <1>1, <1>2, <1>3 DEF DownloadInv, DownloadTypeOK, StepTrue, DownloadRight

LEMMA StartStep ==
    ASSUME DownloadInv, NEW f \in Files, NEW dest \in BOOLEAN,
           NEW unpack_dir \in Dirs \cup {Nothing}, NEW save \in BOOLEAN,
           Start(f, dest, unpack_dir, save)
    PROVE  DownloadInv'
<1> DEFINE prev == IF dest THEN meta ELSE NoMeta
           unpacked == object[f].unpack_dir # Nothing
           needed == ~dest \/ prev.resource_id # Resource[f] \/ file = Nothing
<1>1. /\ call.pc = "idle" /\ UNCHANGED <<archive, file, meta, trees, object, clean>>
      /\ call'.of = f /\ call'.dest = dest /\ call'.unpack_dir = unpack_dir /\ call'.save = save
      /\ call'.prev = prev /\ call'.skip = TRUE /\ call'.fetched = FALSE
      /\ call'.sync = unpacked /\ call'.sound = Sound(f)
      /\ call'.got = (IF dest THEN file ELSE Nothing)
      /\ call'.result \in {"error", "none"}
      /\ call'.pc # "idle" => call'.result = "none"
      /\ call'.pc \in {"idle", "sync", "fetch", "unpack"}
      /\ ~unpacked => call'.pc = IF needed THEN "fetch" ELSE "unpack"
      /\ unpacked /\ call'.pc # "idle" => call'.pc = "sync" /\ unpack_dir # Nothing
  BY DEF Start
<1>2. Sound(f) \in BOOLEAN
  BY DEF Sound, DownloadInv, DownloadTypeOK, Objects
<1>3. DownloadTypeOK'
  BY <1>1, <1>2 DEF DownloadInv, DownloadTypeOK
<1>4. ASSUME call'.sound PROVE StepTrue'
  <2>1. /\ unpacked => trees[object[f].unpack_dir] = Resource[f]
        /\ ~unpacked /\ object[f].downloaded_as => file = Resource[f]
    BY <1>1, <1>4 DEF Sound
  <2>2. ASSUME ~needed, clean
        PROVE  /\ dest /\ file = Resource[f] /\ prev # NoMeta
               /\ archive /\ prev.unpack_dir # Nothing =>
                    trees[prev.unpack_dir] = Resource[f]
    BY <1>1, <2>2, ResourceReal DEF DownloadInv, MetaTrue, NoMeta
  <2> HIDE DEF needed, prev
  <2>3. QED
    BY <1>1, <2>1, <2>2 DEF StepTrue, Wanted
<1>5. call'.pc = "idle" /\ clean' => MetaTrue(meta)'
  BY <1>1 DEF DownloadInv, MetaTrue
<1>6. QED
  BY <1>1, <1>3, <1>4, <1>5 DEF DownloadInv, DownloadRight

LEMMA SyncStep ==
    ASSUME DownloadInv, Sync
    PROVE  DownloadInv'
<1> DEFINE source == trees[object[call.of].unpack_dir]
<1>1. /\ call.pc = "sync" /\ UNCHANGED <<archive, file, meta, object, clean>>
      /\ trees' = [trees EXCEPT ![call.unpack_dir] = source]
      /\ call'.pc = "save" /\ call'.skip \in BOOLEAN
      /\ call'.of = call.of /\ call'.dest = call.dest /\ call'.unpack_dir = call.unpack_dir
      /\ call'.save = call.save /\ call'.result = call.result
      /\ call'.sound = call.sound /\ call'.sync = call.sync /\ call'.fetched = call.fetched
  BY DEF Sync, DownloadInv, DownloadTypeOK
<1>2. DownloadTypeOK'
  BY <1>1 DEF DownloadInv, DownloadTypeOK
<1>3. ASSUME call.sound PROVE Got'
  <2>1. call.sync /\ call.unpack_dir \in Dirs /\ source = Wanted
    BY <1>1, <1>3 DEF DownloadInv, DownloadTypeOK, StepTrue
  <2>2. trees'[call.unpack_dir] = Wanted
    BY <1>1, <2>1 DEF DownloadInv, DownloadTypeOK
  <2>3. QED
    BY <1>1, <2>1, <2>2 DEF Got, Wanted
<1>4. QED
  BY <1>1, <1>2, <1>3 DEF DownloadInv, StepTrue, DownloadRight

LEMMA FetchStep ==
    ASSUME DownloadInv, Fetch
    PROVE  DownloadInv'
<1> DEFINE got == IF object[call.of].downloaded_as THEN file ELSE Resource[call.of]
<1>1. /\ call.pc = "fetch" /\ UNCHANGED <<archive, meta, trees, object, clean>>
      /\ file' = IF call.dest THEN got ELSE file
      /\ call' = [call EXCEPT !.pc = "unpack", !.skip = FALSE, !.got = got, !.fetched = TRUE]
  BY DEF Fetch
<1>2. /\ call'.pc = "unpack" /\ call'.skip = FALSE /\ call'.got = got /\ call'.fetched = TRUE
      /\ call'.of = call.of /\ call'.dest = call.dest /\ call'.unpack_dir = call.unpack_dir
      /\ call'.save = call.save /\ call'.sound = call.sound /\ call'.sync = call.sync /\ call'.result = call.result
  BY <1>1 DEF DownloadInv, DownloadTypeOK
<1>3. DownloadTypeOK'
  BY <1>1, <1>2 DEF DownloadInv, DownloadTypeOK
<1>4. call.sound => got = Wanted /\ ~call.sync
  BY <1>1 DEF DownloadInv, StepTrue, Wanted
<1> HIDE DEF got
<1>5. QED
  BY <1>1, <1>2, <1>3, <1>4 DEF DownloadInv, StepTrue, DownloadRight, Wanted

LEMMA UnpackStep ==
    ASSUME DownloadInv, Unpack
    PROVE  DownloadInv'
<1>1. /\ call.pc = "unpack" /\ UNCHANGED <<archive, file, meta, object, clean>>
      /\ call'.pc = "save" /\ call'.skip = (call.skip /\ ~MustUnpack)
      /\ call'.of = call.of /\ call'.dest = call.dest /\ call'.unpack_dir = call.unpack_dir
      /\ call'.save = call.save /\ call'.sound = call.sound /\ call'.sync = call.sync /\ call'.result = call.result
      /\ call'.fetched = call.fetched
      /\ trees' = IF MustUnpack THEN [trees EXCEPT ![call.unpack_dir] = call.got] ELSE trees
  BY DEF Unpack, DownloadInv, DownloadTypeOK
<1>2. DownloadTypeOK'
  BY <1>1 DEF DownloadInv, DownloadTypeOK, MustUnpack
<1>3. ASSUME call.sound, call.fetched \/ call.sync \/ clean PROVE Got'
  <2>1. ~call.sync /\ call.got = Wanted /\ (call.dest => file = Wanted)
    BY <1>1, <1>3 DEF DownloadInv, StepTrue
  <2>2. ASSUME call.unpack_dir # Nothing, archive PROVE trees'[call.unpack_dir] = Wanted
    <3>1. CASE MustUnpack
      BY <1>1, <2>1, <2>2, <3>1 DEF DownloadInv, DownloadTypeOK
    <3>2. CASE ~MustUnpack
      <4>1. call.skip /\ ~call.fetched
        BY <1>1, <1>3, <2>1, <2>2, <3>2 DEF MustUnpack, DownloadInv, StepTrue
      <4>2. QED
        BY <1>1, <1>3, <2>1, <2>2, <3>2, <4>1 DEF MustUnpack, DownloadInv, StepTrue
    <3>3. QED
      BY <3>1, <3>2
  <2>3. QED
    BY <1>1, <2>1, <2>2 DEF Got, Wanted
<1>4. QED
  BY <1>1, <1>2, <1>3 DEF DownloadInv, StepTrue, DownloadRight

LEMMA SaveStep ==
    ASSUME DownloadInv, Save
    PROVE  DownloadInv'
<1>1. /\ call.pc = "save" /\ UNCHANGED <<archive, file, trees>>
      /\ call'.pc = "idle" /\ call'.skip = call.skip
      /\ call'.of = call.of /\ call'.dest = call.dest /\ call'.unpack_dir = call.unpack_dir
      /\ call'.save = call.save /\ call'.sound = call.sound /\ call'.sync = call.sync /\ call'.fetched = call.fetched
      /\ object' = [object EXCEPT ![call.of] =
                      [unpack_dir |-> call.unpack_dir, downloaded_as |-> call.dest]]
      /\ meta' = IF call.dest /\ call.save
                 THEN [resource_id |-> Resource[call.of], unpack_dir |-> call.unpack_dir]
                 ELSE meta
      /\ clean' = (clean /\ call.dest /\ call.save /\ call.sound /\ ~call.sync)
  BY DEF Save, End, DownloadInv, DownloadTypeOK
<1>2. meta' \in Metas
  BY <1>1, ResourceReal DEF DownloadInv, DownloadTypeOK, Metas
<1>3. DownloadTypeOK'
  BY <1>1, <1>2 DEF DownloadInv, DownloadTypeOK, Objects
<1>4. call.sound /\ (call.fetched \/ call.sync \/ clean) => Got
  BY <1>1 DEF DownloadInv, StepTrue
<1>5. clean' => MetaTrue(meta)'
  BY <1>1, <1>4, ResourceReal DEF MetaTrue, Got, DownloadInv, DownloadTypeOK
<1>6. QED
  BY <1>1, <1>3, <1>4, <1>5 DEF DownloadInv, StepTrue, DownloadRight, Got

\* Whatever the calls before, on the same or on other objects and directories,
\* and wherever they failed or died.
THEOREM DownloadRightHolds ==
    ASSUME Files # {}
    PROVE  DownloadSpec => []DownloadRight
<1>1. NoCall.of \in Files
  BY DEF NoCall
<1>2. DownloadInit => DownloadInv
  BY <1>1, ResourceReal DEF DownloadInit, DownloadInv, DownloadTypeOK, MetaTrue, StepTrue,
     DownloadRight, NoCall, NoMeta, Metas, Objects
<1>3. DownloadInv /\ [DownloadNext]_downloadVars => DownloadInv'
  <2> SUFFICES ASSUME DownloadInv, [DownloadNext]_downloadVars PROVE DownloadInv'
    OBVIOUS
  <2>1. CASE Sync
    BY <2>1, SyncStep
  <2>2. CASE Fail
    <3>1. DOMAIN trees' = Dirs /\ trees' = [d \in Dirs |-> trees'[d]]
      BY <2>2 DEF Fail, DownloadInv, DownloadTypeOK
    <3>2. QED
      BY <2>2, <3>1, Raises DEF Fail
  <2>3. CASE Die
    <3>1. DOMAIN trees' = Dirs /\ trees' = [d \in Dirs |-> trees'[d]]
      BY <2>3 DEF Die, DownloadInv, DownloadTypeOK
    <3>2. QED
      BY <2>3, <3>1, Raises DEF Die, NoObject
  <2>4. CASE RemoveFile \/ \E f \in Files : NewObject(f)
    <3>1. /\ call.pc = "idle" /\ call' = NoCall /\ UNCHANGED <<archive, meta, trees, clean>>
          /\ file' \in {file, Nothing}
      BY <2>4 DEF RemoveFile, NewObject
    <3>2. object' \in [Files -> Objects]
      BY <2>4, NoObjectIsObject DEF RemoveFile, NewObject, DownloadInv, DownloadTypeOK, NoObject
    <3>3. clean' => MetaTrue(meta)'
      BY <3>1 DEF DownloadInv, MetaTrue
    <3>4. QED
      BY <1>1, <3>1, <3>2, <3>3 DEF DownloadInv, DownloadTypeOK, StepTrue, DownloadRight, NoCall
  <2>5. CASE UNCHANGED downloadVars
    BY <2>5 DEF downloadVars, DownloadInv, DownloadTypeOK, MetaTrue, StepTrue, Wanted, Got,
       DownloadRight
  <2>6. QED
    BY <2>1, <2>2, <2>3, <2>4, <2>5, StartStep, FetchStep, UnpackStep, SaveStep DEF DownloadNext
<1>4. DownloadInv => DownloadRight
  BY DEF DownloadInv
<1>5. QED
  BY <1>2, <1>3, <1>4, PTL DEF DownloadSpec

-----------------------------------------------------------------------------
(* HttpSession.                                                            *)

\* t is s, turned by one.
LEMMA Turned ==
    ASSUME NEW n \in Nat, n > 0, NEW s, NEW t, DOMAIN s = 1..n, DOMAIN t = 1..n,
           \A i \in 1..n : t[i] = IF i = n THEN s[1] ELSE s[i + 1]
    PROVE  Range(t) = Range(s) /\ (IsInjective(s) => IsInjective(t))
<1>1. \A i \in 1..n : (i = n => 1 \in 1..n) /\ (i # n => i + 1 \in 1..n)
  OBVIOUS
<1>2. \A i \in 1..n : i = 1 \/ (i - 1 \in 1..n /\ i - 1 # n /\ i - 1 + 1 = i)
  OBVIOUS
<1>3. Range(t) \subseteq Range(s)
  <2> SUFFICES ASSUME NEW i \in 1..n PROVE t[i] \in Range(s)
    BY DEF Range
  <2>1. CASE i = n
    BY <1>1, <2>1 DEF Range
  <2>2. CASE i # n
    BY <1>1, <2>2 DEF Range
  <2>3. QED
    BY <2>1, <2>2
<1>4. Range(s) \subseteq Range(t)
  <2> SUFFICES ASSUME NEW i \in 1..n PROVE s[i] \in Range(t)
    BY DEF Range
  <2>1. CASE i = 1
    <3>1. n \in 1..n /\ t[n] = s[i]
      BY <2>1
    <3>2. QED
      BY <3>1 DEF Range
  <2>2. CASE i # 1
    <3>1. i - 1 \in 1..n /\ t[i - 1] = s[i]
      BY <1>2, <2>2
    <3>2. QED
      BY <3>1 DEF Range
  <2>3. QED
    BY <2>1, <2>2
<1>5. ASSUME IsInjective(s), NEW i \in 1..n, NEW j \in 1..n, t[i] = t[j] PROVE i = j
  <2> DEFINE Next(k) == IF k = n THEN 1 ELSE k + 1
  <2>1. \A k \in 1..n : Next(k) \in 1..n /\ t[k] = s[Next(k)]
    OBVIOUS
  <2>2. Next(i) = Next(j)
    <3> HIDE DEF Next
    <3>1. QED
      BY <1>5, <2>1 DEF IsInjective
  <2>3. QED
    BY <2>2
<1>6. QED
  BY <1>3, <1>4, <1>5 DEF IsInjective

\* The head goes to the end.
LEMMA Rotation ==
    ASSUME NEW S, NEW s \in Seq(S), s # <<>>, IsInjective(s)
    PROVE  LET t == Append(Tail(s), Head(s))
           IN  /\ t \in Seq(S) /\ Len(t) = Len(s) /\ Range(t) = Range(s) /\ IsInjective(t)
               /\ \A i \in 1..Len(s) : t[i] = IF i = Len(s) THEN s[1] ELSE s[i + 1]
<1> DEFINE t == Append(Tail(s), Head(s))
<1>1. t \in Seq(S) /\ Len(t) = Len(s) /\ Len(s) \in Nat /\ Len(s) > 0
  OBVIOUS
<1>2. \A i \in 1..Len(s) : t[i] = IF i = Len(s) THEN s[1] ELSE s[i + 1]
  OBVIOUS
<1>3. DOMAIN t = 1..Len(s) /\ DOMAIN s = 1..Len(s)
  BY <1>1
<1> HIDE DEF t
<1>4. Range(t) = Range(s) /\ IsInjective(t)
  <2>1. PICK n \in Nat : n = Len(s)
    BY <1>1
  <2>2. /\ DOMAIN t = 1..n /\ DOMAIN s = 1..n /\ n > 0
        /\ \A i \in 1..n : t[i] = IF i = n THEN s[1] ELSE s[i + 1]
    BY <1>1, <1>2, <1>3, <2>1
  <2>3. QED
    BY <2>2, Turned
<1>5. QED
  BY <1>1, <1>2, <1>4 DEF t

RequestPcs == {"idle", "next", "send", "answer", "chunks", "validate", "returned", "none", "raised"}

HttpTypeOK(URL) ==
    /\ base_urls \in Seq(URL)
    /\ last_base_url \in URL \cup {NoURL}
    /\ request.pc \in RequestPcs
    /\ request.left \in Seq(URL) /\ request.asked \in Seq(URL)
    /\ DOMAIN request = DOMAIN NoRequest
    /\ request = [x \in DOMAIN NoRequest |-> request[x]]

\* The queue is the n URLs left, and then the m asked.
QueueBetween ==
    \E n, m \in Nat :
       /\ Len(request.left) = n /\ Len(request.asked) = m /\ Len(base_urls) = n + m
       /\ \A i \in 1..n : base_urls[i] = request.left[i]
       /\ \A i \in 1..m : base_urls[n + i] = request.asked[i]

\* The queue is the URL that is asked, the n left, and the m asked before.
QueueDuring ==
    \E n, m \in Nat :
       /\ Len(request.left) = n /\ Len(request.asked) = m + 1 /\ Len(base_urls) = 1 + n + m
       /\ base_urls[1] = request.to /\ request.asked[m + 1] = request.to
       /\ \A i \in 1..n : base_urls[1 + i] = request.left[i]
       /\ \A i \in 1..m : base_urls[1 + n + i] = request.asked[i]

HttpInv(URL) ==
    /\ HttpTypeOK(URL)
    /\ Range(base_urls) = Range(BaseURLs) /\ IsInjective(base_urls)
    /\ IsInjective(request.asked)
    /\ last_base_url # NoURL => auth = last_base_url
    /\ request.pc = "send" => auth = request.to
    /\ request.pc = "next" => QueueBetween
    /\ request.pc \in {"send", "answer", "chunks", "validate", "returned"} => QueueDuring

LEMMA AuthenticateStep ==
    ASSUME NEW URL, NoURL \notin URL, HttpInv(URL), Authenticate
    PROVE  HttpInv(URL)'
<1> DEFINE url == Head(request.left)
<1>1. /\ request.pc = "next" /\ request.left # <<>> /\ UNCHANGED base_urls /\ url \in URL
  BY DEF Authenticate, HttpInv, HttpTypeOK
<1>2. PICK answers \in BOOLEAN :
        /\ url = last_base_url => answers
        /\ AuthOf(url, answers)
        /\ request' = IF answers
                      THEN [request EXCEPT !.pc = "send", !.to = url,
                                           !.left = Tail(@), !.asked = Append(@, url)]
                      ELSE [request EXCEPT !.pc = "raised"]
  BY DEF Authenticate
<1>3. /\ last_base_url' \in URL \cup {NoURL}
      /\ last_base_url' # NoURL => auth' = last_base_url'
      /\ answers => auth' = url
  BY <1>1, <1>2 DEF AuthOf, HttpInv, HttpTypeOK
<1>4. CASE ~answers
  <2>1. request' = [request EXCEPT !.pc = "raised"]
    BY <1>2, <1>4
  <2>2. QED
    BY <1>1, <1>3, <2>1 DEF HttpInv, HttpTypeOK, RequestPcs, NoRequest
<1>5. CASE answers
  <2>1. /\ request'.pc = "send" /\ request'.to = url
        /\ request'.left = Tail(request.left) /\ request'.asked = Append(request.asked, url)
        /\ DOMAIN request' = DOMAIN NoRequest
        /\ request' = [x \in DOMAIN NoRequest |-> request'[x]]
    BY <1>2, <1>5 DEF HttpInv, HttpTypeOK, NoRequest
  <2>2. PICK n \in Nat, m \in Nat :
          /\ Len(request.left) = n /\ Len(request.asked) = m /\ Len(base_urls) = n + m
          /\ \A i \in 1..n : base_urls[i] = request.left[i]
          /\ \A i \in 1..m : base_urls[n + i] = request.asked[i]
    BY <1>1 DEF HttpInv, QueueBetween
  <2>3. /\ n > 0 /\ n - 1 \in Nat /\ Len(request'.left) = n - 1 /\ Len(request'.asked) = m + 1
        /\ \A i \in 1..(n - 1) : request'.left[i] = request.left[1 + i]
        /\ \A i \in 1..m : request'.asked[i] = request.asked[i]
        /\ request'.asked[m + 1] = url /\ url = request.left[1]
        /\ DOMAIN request'.asked = 1..(m + 1) /\ DOMAIN base_urls = 1..(n + m)
    <3>1. request.left \in Seq(URL) /\ request.asked \in Seq(URL) /\ base_urls \in Seq(URL)
      BY DEF HttpInv, HttpTypeOK
    <3>2. n > 0
      BY <1>1, <2>2, <3>1
    <3>3. QED
      BY <1>1, <2>1, <2>2, <3>1, <3>2, SMTT(30)
  <2> HIDE DEF url
  <2>4. QueueDuring'
    <3>1. ASSUME NEW i \in 1..(n - 1) PROVE base_urls[1 + i] = request'.left[i]
      <4>1. 1 + i \in 1..n
        OBVIOUS
      <4>2. QED
        BY <2>2, <2>3, <4>1
    <3>2. ASSUME NEW i \in 1..m PROVE base_urls[1 + (n - 1) + i] = request'.asked[i]
      <4>1. 1 + (n - 1) + i = n + i
        OBVIOUS
      <4>2. QED
        BY <2>2, <2>3, <4>1
    <3>3. base_urls[1] = url /\ Len(base_urls) = 1 + (n - 1) + m
      <4>1. 1 \in 1..n /\ n + m = 1 + (n - 1) + m
        BY <2>3
      <4>2. QED
        BY <2>2, <2>3, <4>1
    <3>4. /\ Len(request'.left) = n - 1 /\ Len(request'.asked) = m + 1
          /\ Len(base_urls') = 1 + (n - 1) + m
          /\ base_urls'[1] = request'.to /\ request'.asked[m + 1] = request'.to
          /\ \A i \in 1..(n - 1) : base_urls'[1 + i] = request'.left[i]
          /\ \A i \in 1..m : base_urls'[1 + (n - 1) + i] = request'.asked[i]
      BY <1>1, <2>1, <2>3, <3>1, <3>2, <3>3
    <3>5. n - 1 \in Nat /\ m \in Nat
      BY <2>3
    <3>6. QED
      BY ONLY <3>4, <3>5, Zenon DEF QueueDuring
  <2>5. IsInjective(request'.asked)
    <3> DEFINE Place(i) == IF i = m + 1 THEN 1 ELSE n + i
    <3>1. ASSUME NEW i \in 1..(m + 1)
          PROVE  Place(i) \in 1..(n + m) /\ request'.asked[i] = base_urls[Place(i)]
      <4>1. CASE i = m + 1
        <5>1. 1 \in 1..n /\ 1 \in 1..(n + m)
          BY <2>3
        <5>2. QED
          BY <2>2, <2>3, <4>1, <5>1
      <4>2. CASE i # m + 1
        <5>1. i \in 1..m /\ n + i \in 1..(n + m)
          BY <2>3, <4>2
        <5>2. QED
          BY <2>2, <2>3, <4>2, <5>1
      <4>3. QED
        BY <4>1, <4>2
    <3>2. ASSUME NEW i \in 1..(m + 1), NEW j \in 1..(m + 1), Place(i) = Place(j) PROVE i = j
      BY <2>3, <3>2
    <3>3. \A i, j \in 1..(n + m) : base_urls[i] = base_urls[j] => i = j
      BY <2>3 DEF HttpInv, IsInjective
    <3> HIDE DEF Place
    <3>4. QED
      BY <2>3, <3>1, <3>2, <3>3 DEF IsInjective
  <2>6. HttpTypeOK(URL)'
    BY <1>1, <1>3, <2>1 DEF HttpInv, HttpTypeOK, RequestPcs
  <2>7. QED
    BY <1>1, <1>3, <1>5, <2>1, <2>4, <2>5, <2>6 DEF HttpInv
<1>6. QED
  BY <1>4, <1>5

LEMMA FailsStep ==
    ASSUME NEW URL, HttpInv(URL), RequestFails
    PROVE  HttpInv(URL)'
<1>1. /\ request.pc = "send" /\ base_urls' = Append(Tail(base_urls), Head(base_urls))
      /\ UNCHANGED <<last_base_url, auth>>
      /\ request'.pc = "next" /\ request'.left = request.left /\ request'.asked = request.asked
      /\ DOMAIN request' = DOMAIN NoRequest
      /\ request' = [x \in DOMAIN NoRequest |-> request'[x]]
  BY DEF RequestFails, HttpInv, HttpTypeOK, NoRequest
<1>2. PICK n \in Nat, m \in Nat :
        /\ Len(request.left) = n /\ Len(request.asked) = m + 1 /\ Len(base_urls) = 1 + n + m
        /\ base_urls[1] = request.to /\ request.asked[m + 1] = request.to
        /\ \A i \in 1..n : base_urls[1 + i] = request.left[i]
        /\ \A i \in 1..m : base_urls[1 + n + i] = request.asked[i]
  BY <1>1 DEF HttpInv, QueueDuring
<1>3. /\ base_urls' \in Seq(URL) /\ Range(base_urls') = Range(base_urls) /\ IsInjective(base_urls')
      /\ Len(base_urls') = 1 + n + m
      /\ \A i \in 1..(1 + n + m) :
            base_urls'[i] = IF i = 1 + n + m THEN base_urls[1] ELSE base_urls[i + 1]
  <2>1. base_urls \in Seq(URL) /\ IsInjective(base_urls)
    BY DEF HttpInv, HttpTypeOK
  <2>2. base_urls # <<>>
    BY <1>2, <2>1
  <2>3. QED
    BY <1>1, <1>2, <2>1, <2>2, Rotation
<1>4. QueueBetween'
  <2>1. ASSUME NEW i \in 1..n PROVE base_urls'[i] = request.left[i]
    <3>1. i \in 1..(1 + n + m) /\ i # 1 + n + m /\ i + 1 = 1 + i
      OBVIOUS
    <3>2. QED
      BY <1>2, <1>3, <3>1
  <2>2. ASSUME NEW i \in 1..(m + 1) PROVE base_urls'[n + i] = request.asked[i]
    <3>1. CASE i = m + 1
      <4>1. n + i = 1 + n + m /\ n + i \in 1..(1 + n + m)
        BY <3>1
      <4>2. QED
        BY <1>2, <1>3, <3>1, <4>1
    <3>2. CASE i # m + 1
      <4>1. /\ i \in 1..m /\ n + i \in 1..(1 + n + m) /\ n + i # 1 + n + m
            /\ n + i + 1 = 1 + n + i
        BY <3>2
      <4>2. QED
        BY <1>2, <1>3, <4>1
    <3>3. QED
      BY <3>1, <3>2
  <2>3. Len(base_urls') = n + (m + 1) /\ m + 1 \in Nat
    <3>1. 1 + n + m = n + (m + 1)
      OBVIOUS
    <3>2. QED
      BY <1>3, <3>1
  <2>4. /\ Len(request'.left) = n /\ Len(request'.asked) = m + 1
        /\ Len(base_urls') = n + (m + 1) /\ n \in Nat /\ m + 1 \in Nat
        /\ \A i \in 1..n : base_urls'[i] = request'.left[i]
        /\ \A i \in 1..(m + 1) : base_urls'[n + i] = request'.asked[i]
    BY <1>1, <1>2, <2>1, <2>2, <2>3
  <2>5. QED
    BY ONLY <2>4, Zenon DEF QueueBetween
<1>5. QED
  BY <1>1, <1>3, <1>4 DEF HttpInv, HttpTypeOK, RequestPcs

\* For any list of distinct URLs, whichever fail or refuse, request after request.
THEOREM SessionRightHolds ==
    ASSUME NEW URL, NoURL \notin URL, BaseURLs \in Seq(URL), IsInjective(BaseURLs)
    PROVE  HttpSpec => []SessionRight
<1>1. HttpInit => HttpInv(URL)
  BY DEF HttpInit, HttpInv, HttpTypeOK, NoRequest, RequestPcs, IsInjective
<1>2. HttpInv(URL) /\ [HttpNext]_httpVars => HttpInv(URL)'
  <2> SUFFICES ASSUME HttpInv(URL), [HttpNext]_httpVars PROVE HttpInv(URL)'
    OBVIOUS
  <2>1. ASSUME NEW f \in Filenames, NEW e \in BOOLEAN, StartRequest(f, e) PROVE HttpInv(URL)'
    <3>1. /\ UNCHANGED <<base_urls, last_base_url, auth>>
          /\ request'.pc = "next" /\ request'.left = base_urls /\ request'.asked = <<>>
          /\ DOMAIN request' = DOMAIN NoRequest
          /\ request' = [x \in DOMAIN NoRequest |-> request'[x]]
      BY <2>1 DEF StartRequest, NoRequest
    <3>2. HttpTypeOK(URL)'
      BY <3>1 DEF HttpInv, HttpTypeOK, RequestPcs
    <3>3. QueueBetween' /\ IsInjective(request'.asked)
      <4>1. /\ Len(base_urls) \in Nat /\ Len(base_urls) = Len(base_urls) + 0
            /\ Len(request'.asked) = 0 /\ DOMAIN request'.asked = {}
        BY <3>1 DEF HttpInv, HttpTypeOK
      <4>2. IsInjective(request'.asked)
        BY <4>1 DEF IsInjective
      <4>3. PICK n \in Nat : n = Len(base_urls)
        BY <4>1
      <4>4. /\ Len(request'.left) = n /\ Len(request'.asked) = 0
            /\ Len(base_urls') = n + 0 /\ n \in Nat /\ 0 \in Nat
            /\ \A i \in 1..n : base_urls'[i] = request'.left[i]
            /\ \A i \in 1..0 : base_urls'[n + i] = request'.asked[i]
        BY <3>1, <4>1, <4>3
      <4>5. QueueBetween'
        BY ONLY <4>4, Zenon DEF QueueBetween
      <4>6. QED
        BY <4>2, <4>5
    <3>4. QED
      BY <3>1, <3>2, <3>3 DEF HttpInv
  <2>2. ASSUME NEW pc \in {"answer", "chunks", "validate", "returned", "none", "raised"},
               UNCHANGED <<base_urls, last_base_url, auth>>,
               request'.pc = pc, request'.left = request.left,
               request'.asked = request.asked, request'.to = request.to,
               DOMAIN request' = DOMAIN NoRequest,
               request' = [x \in DOMAIN NoRequest |-> request'[x]],
               \/ pc \in {"none", "raised"}
               \/ request.pc \in {"send", "answer", "chunks", "validate"}
        PROVE  HttpInv(URL)'
    <3>1. HttpTypeOK(URL)'
      BY <2>2 DEF HttpInv, HttpTypeOK, RequestPcs
    <3>2. QueueDuring => QueueDuring'
      BY <2>2 DEF QueueDuring
    <3>3. QED
      BY <2>2, <3>1, <3>2 DEF HttpInv
  <2>3. CASE RequestAnswered \/ RequestGivesUp
    BY <2>2, <2>3 DEF RequestAnswered, RequestGivesUp, HttpInv, HttpTypeOK, NoRequest
  <2>4. CASE OpenFile \/ LastChunk \/ Validate \/ ChunkFails \/ ChunkRaises
    <3> DEFINE AnswerPcs == {"chunks", "validate", "returned", "none", "raised"}
    <3>1. PICK content, pc : pc \in AnswerPcs /\ DownloadTo(content, pc)
      <4>1. CASE OpenFile
        BY <4>1 DEF OpenFile
      <4>2. CASE LastChunk
        BY <4>2 DEF LastChunk
      <4>3. CASE Validate
        BY <4>3 DEF Validate
      <4>4. CASE ChunkFails
        BY <4>4 DEF ChunkFails
      <4>5. CASE ChunkRaises
        BY <4>5 DEF ChunkRaises
      <4>6. QED
        BY <2>4, <4>1, <4>2, <4>3, <4>4, <4>5
    <3>2. request.pc \in {"answer", "chunks", "validate"}
      BY <2>4 DEF OpenFile, LastChunk, Validate, ChunkFails, ChunkRaises
    <3>3. /\ UNCHANGED <<base_urls, last_base_url, auth>>
          /\ request'.pc = pc /\ request'.left = request.left
          /\ request'.asked = request.asked /\ request'.to = request.to
          /\ DOMAIN request' = DOMAIN NoRequest
          /\ request' = [x \in DOMAIN NoRequest |-> request'[x]]
      BY <3>1 DEF DownloadTo, HttpInv, HttpTypeOK, NoRequest
    <3>4. QED
      BY <2>2, <3>1, <3>2, <3>3
  <2>5. CASE UNCHANGED httpVars
    BY <2>5 DEF httpVars, HttpInv, HttpTypeOK, QueueBetween, QueueDuring
  <2>6. QED
    BY <2>1, <2>3, <2>4, <2>5, AuthenticateStep, FailsStep DEF HttpNext
<1>3. HttpInv(URL) => SessionRight
  <2> SUFFICES ASSUME HttpInv(URL) PROVE SessionRight
    OBVIOUS
  <2>1. ASSUME request.pc \notin {"idle", "next", "raised", "none"}
        PROVE  Head(base_urls) = request.to
    <3>1. QueueDuring /\ base_urls \in Seq(URL)
      BY <2>1 DEF HttpInv, HttpTypeOK, RequestPcs
    <3>2. PICK n \in Nat, m \in Nat : Len(base_urls) = 1 + n + m /\ base_urls[1] = request.to
      BY <3>1 DEF QueueDuring
    <3>3. QED
      BY <3>1, <3>2
  <2>2. QED
    BY <2>1 DEF HttpInv, SessionRight
<1>4. QED
  BY <1>1, <1>2, <1>3, PTL DEF HttpSpec

=============================================================================
