---------------------------- MODULE FileDownload ----------------------------
(***************************************************************************)
(* File.download (e3.anod.store.file) into one directory, under one name,  *)
(* and its metadata file there: what lets a later call skip the download   *)
(* and the unpacking.  A call is a sequence of steps that may fail, or die *)
(* with the process; File objects remember where they were downloaded.     *)
(***************************************************************************)
EXTENDS Naturals

CONSTANTS Files,        \* File objects
          Resource,       \* [Files -> resource ids]
          Dirs,           \* directories to unpack to
          MaxCalls

Resources == {Resource[f] : f \in Files}
Nothing == "nothing"      \* no file, an empty directory, no metadata
Broken == "broken"        \* half of a file or of a tree
ASSUME DownloadAssumption == {Nothing, Broken} \cap (Resources \cup Dirs) = {}

VARIABLES archive,        \* the name of the file is that of an archive
          file,           \* the content of the downloaded file
          meta,           \* the metadata file: a resource id and an unpack directory
          trees,          \* [Dirs -> the content unpacked there]
          object,         \* [Files -> [unpack_dir, downloaded_as]] of the File objects
          call,           \* the call under way, or the last one
          clean,          \* every call went to its end and saved true metadata
          calls

downloadVars == <<archive, file, meta, trees, object, call, clean, calls>>

NoMeta == [resource_id |-> Nothing, unpack_dir |-> Nothing]
NoCall == [pc |-> "idle", of |-> CHOOSE f \in Files : TRUE, dest |-> FALSE,
           unpack_dir |-> Nothing, save |-> FALSE, prev |-> NoMeta, skip |-> TRUE,
           sync |-> FALSE, sound |-> TRUE, fetched |-> FALSE, got |-> Nothing, result |-> "none"]

DownloadInit ==
    /\ archive \in BOOLEAN
    /\ file = Nothing /\ meta = NoMeta
    /\ trees = [d \in Dirs |-> Nothing]
    /\ object = [f \in Files |-> [unpack_dir |-> Nothing, downloaded_as |-> FALSE]]
    /\ call = NoCall /\ clean = TRUE /\ calls = 0

End(result) == [call EXCEPT !.pc = "idle", !.result = result]

-----------------------------------------------------------------------------

\* What an object downloaded before takes the resource from is still the
\* resource: the tree it was unpacked to, or the downloaded file.
Sound(f) ==
    IF object[f].unpack_dir # Nothing THEN trees[object[f].unpack_dir] = Resource[f]
    ELSE object[f].downloaded_as => file = Resource[f]

\* The checks, and the metadata of an earlier download to the directory.
\* dest is FALSE for a download to a temporary file, deleted in the end.
Start(f, dest, unpack_dir, save) ==
    LET prev == IF dest THEN meta ELSE NoMeta
        unpacked == object[f].unpack_dir # Nothing
        refused == unpacked /\ unpack_dir = Nothing
        needed == ~dest \/ prev.resource_id # Resource[f] \/ file = Nothing
    IN  /\ call.pc = "idle" /\ calls < MaxCalls
        /\ calls' = calls + 1
        /\ call' = [pc |-> IF refused THEN "idle" ELSE IF unpacked THEN "sync"
                           ELSE IF needed THEN "fetch" ELSE "unpack",
                    of |-> f, dest |-> dest, unpack_dir |-> unpack_dir, save |-> save,
                    prev |-> prev, skip |-> TRUE,
                    sync |-> unpacked, sound |-> Sound(f), fetched |-> FALSE,
                    got |-> IF dest THEN file ELSE Nothing,
                    result |-> IF refused THEN "error" ELSE "none"]
        /\ UNCHANGED <<archive, file, meta, trees, object, clean>>

\* The resource is unpacked already, or so the object says: the trees are
\* synchronized, and the file is not downloaded.
Sync ==
    LET source == trees[object[call.of].unpack_dir]
    IN  /\ call.pc = "sync"
        /\ trees' = [trees EXCEPT ![call.unpack_dir] = source]
        /\ call' = [call EXCEPT !.pc = "save",
                                !.skip = trees[call.unpack_dir] = source]
        /\ UNCHANGED <<archive, file, meta, object, clean, calls>>

\* The file is copied from where it was downloaded to, unless that is the
\* very place it goes to, or is downloaded from the store.
Fetch ==
    LET got == IF object[call.of].downloaded_as THEN file ELSE Resource[call.of]
    IN  /\ call.pc = "fetch"
        /\ object[call.of].downloaded_as /\ ~call.dest => file # Nothing
        /\ file' = IF call.dest THEN got ELSE file
        /\ call' = [call EXCEPT !.pc = "unpack", !.skip = FALSE, !.got = got,
                                !.fetched = TRUE]
        /\ UNCHANGED <<archive, meta, trees, object, clean, calls>>

\* Variant: the directory an earlier download was unpacked to is not looked at.
MustUnpackFetched == call.unpack_dir # Nothing /\ archive /\ ~call.skip

\* An archive that is new, or was not unpacked there.
MustUnpack ==
    /\ call.unpack_dir # Nothing /\ archive
    /\ \/ ~call.skip
       \/ call.prev # NoMeta /\ call.prev.unpack_dir # call.unpack_dir

\* unpack_archive
Unpack ==
    /\ call.pc = "unpack"
    /\ MustUnpack => call.got \in Resources
    /\ trees' = IF MustUnpack THEN [trees EXCEPT ![call.unpack_dir] = call.got] ELSE trees
    /\ call' = [call EXCEPT !.pc = "save", !.skip = @ /\ ~MustUnpack]
    /\ UNCHANGED <<archive, file, meta, object, clean, calls>>

\* A step raises, or the process dies in it.
Fail ==
    /\ \/ /\ call.pc = "fetch" /\ UNCHANGED trees
          /\ file' \in IF call.dest /\ ~object[call.of].downloaded_as
                       THEN {file, Broken} ELSE {file}
       \/ /\ call.pc \in {"unpack", "sync"} /\ call.unpack_dir # Nothing
          /\ UNCHANGED file
          /\ trees' \in {trees, [trees EXCEPT ![call.unpack_dir] = Broken]}
    /\ call' = End("error") /\ clean' = FALSE
    /\ UNCHANGED <<archive, meta, object, calls>>

\* The end: the object is updated and the metadata saved, with the directory
\* asked for even if nothing was unpacked to it.
Save ==
    /\ call.pc = "save"
    /\ object' = [object EXCEPT ![call.of] =
                    [unpack_dir |-> call.unpack_dir, downloaded_as |-> call.dest]]
    /\ meta' = IF call.dest /\ call.save
               THEN [resource_id |-> Resource[call.of], unpack_dir |-> call.unpack_dir]
               ELSE meta
    /\ call' = End(IF call.skip THEN "skipped" ELSE "done")
    /\ clean' = (clean /\ call.dest /\ call.save /\ call.sound /\ ~call.sync)
    /\ UNCHANGED <<archive, file, trees, calls>>

\* The process dies, at the latest while it writes the metadata file: half of
\* one does not load, and is as none.
Die ==
    /\ call.pc # "idle"
    /\ meta' \in IF call.pc = "save" /\ call.dest /\ call.save THEN {meta, NoMeta} ELSE {meta}
    /\ call' = End("error") /\ clean' = FALSE
    /\ object' = [f \in Files |-> [unpack_dir |-> Nothing, downloaded_as |-> FALSE]]
    /\ UNCHANGED <<archive, file, trees, calls>>

\* A new object for the file, as the store gives one for each query.
NewObject(f) ==
    /\ call.pc = "idle"
    /\ object' = [object EXCEPT ![f] = [unpack_dir |-> Nothing, downloaded_as |-> FALSE]]
    /\ call' = NoCall
    /\ UNCHANGED <<archive, file, meta, trees, clean, calls>>

\* The downloaded file is removed by someone.
RemoveFile ==
    /\ call.pc = "idle" /\ file # Nothing
    /\ file' = Nothing /\ call' = NoCall
    /\ UNCHANGED <<archive, meta, trees, object, clean, calls>>

DownloadNext ==
    \/ \E f \in Files, dest \in BOOLEAN, dir \in Dirs \cup {Nothing}, save \in BOOLEAN :
          Start(f, dest, dir, save)
    \/ Sync \/ Fetch \/ Unpack \/ Fail \/ Save \/ Die
    \/ \E f \in Files : NewObject(f)
    \/ RemoveFile

DownloadSpec == DownloadInit /\ [][DownloadNext]_downloadVars

-----------------------------------------------------------------------------
(* Properties                                                              *)

\* The resource is there, and unpacked where that was asked for; trees that are
\* synchronized come without the file.
Got == /\ call.dest /\ ~call.sync => file = Resource[call.of]
       /\ call.unpack_dir # Nothing /\ (archive \/ call.sync) =>
             trees[call.unpack_dir] = Resource[call.of]

\* A call that reports success after it fetched the file or synchronized the
\* trees leaves the resource of its File object, unpacked if it is an archive,
\* whatever failed before; if the object was downloaded before, provided that
\* what it was downloaded to is still its resource.  So does a call that relies
\* on what earlier ones left, if all calls before it went to their end, saved
\* their metadata and did not only synchronize: after a failure nothing is
\* promised of such a call (see SkippedIsUpToDate).
DownloadRight ==
    /\ call.result \in {"done", "skipped"} /\ call.sound
    /\ call.fetched \/ call.sync \/ clean
    => Got

\* "False if the download was skipped because the file has already been
\* downloaded and the local copy is up to date" (file.py:376-378).  This is not
\* so after a call that replaced the file and did not save its metadata.
SkippedIsUpToDate ==
    call.result = "skipped" /\ call.sound /\ call.dest /\ ~call.sync =>
        file = Resource[call.of]

\* "True if a file was downloaded" (file.py:376).  This is not so of an object
\* downloaded before: with its trees synchronized, or its file gone, there may
\* be no file, or that of another object.
DoneIsThere == call.result = "done" /\ call.dest => file = Resource[call.of]
=============================================================================
