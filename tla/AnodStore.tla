----------------------------- MODULE AnodStore -----------------------------
(***************************************************************************)
(* e3.anod.store: a store that clients write builds, files and components  *)
(* to (StoreRW), and a local store that copies rows of it and answers from *)
(* them (LocalStore).  Each store has the tables its connection sees and   *)
(* the committed ones, which are what is left when the process dies.  A    *)
(* write that raises leaves its first rows in the open transaction: the    *)
(* next commit, even the one of close(), makes them permanent.             *)
(***************************************************************************)
EXTENDS StoreTables

CONSTANTS Setups, Dates, Sources, ThirdParties, Components,
          Contents,       \* resource ids, each the name of the path it is sent from
          Shapes,         \* what a submitted component is made of
          Queries,        \* the lists of queries of a bulk update
          ChunkSize,      \* E3_CATHOD_BULK_CHUNK_SIZE
          MaxWrites, MaxAdds, MaxFaults   \* the bounds of the operations

ASSUME ChunkAssumption == ChunkSize \in Nat \ {0}

VARIABLES online, onlineSaved,   \* the shared store
          disk,                  \* the paths that exist
          local,
          bulk,                  \* the bulk update under way
          count                  \* operations so far: writes, adds and faults

storeVars == <<online, onlineSaved, disk, local, bulk, count>>
onlineVars == <<online, onlineSaved>>
localVars == <<local, bulk>>

Idle == [pc |-> "idle", todo |-> <<>>, bids |-> {}, results |-> <<>>]

StoreInit ==
    /\ online = EmptyTables /\ onlineSaved = EmptyTables
    /\ disk = Contents
    /\ local = EmptyTables
    /\ bulk = Idle
    /\ count = [writes |-> 0, adds |-> 0, faults |-> 0]

\* unique_id()
NewBuild(db) == Len(db.buildinfos) + 1
NewComponent(db) == Len(db.components) + 1

BuildIds(db) == {db.buildinfos[i].build_id : i \in DOMAIN db.buildinfos}

-----------------------------------------------------------------------------
(* The shared store: one action per write operation.                       *)

Fault == count.faults < MaxFaults /\ count' = [count EXCEPT !.faults = @ + 1]

\* An operation that comes to its commit commits all there is to commit.
Write(result) ==
    /\ count.writes < MaxWrites
    /\ online' = result.db
    /\ \/ /\ result.ok
          /\ onlineSaved' = result.db
          /\ count' = [count EXCEPT !.writes = @ + 1]
       \/ ~result.ok /\ UNCHANGED onlineSaved /\ Fault
    /\ UNCHANGED <<disk, localVars>>

CreateBuildId(setup, date) ==
    /\ Write(Result(CreateBuild(online, NewBuild(online), setup, date), TRUE, NoId))

CopyBuildId(bid, setup) ==
    /\ Write(CopyBuild(online, bid, NewBuild(online), setup))

MarkBuildReady(bid) ==
    Write(Result(Update(online, "buildinfos", "build_id", bid, "isready", TRUE), TRUE, NoId))

\* submit_file, and create_thirdparty which sets the kind.
SubmitOneFile(name, kind, bid, content) ==
    /\ Write(SubmitFile(online, disk, NewFile(online),
                [name |-> name, kind |-> kind, build_id |-> bid, resource_id |-> content,
                 path |-> content, metadata |-> 0]))

\* The files may be those of another build than the component.
SubmitOneComponent(name, bid, file_bid, content, shape) ==
    LET File(kind) == [name |-> name, kind |-> kind, build_id |-> file_bid,
                       resource_id |-> content, path |-> content, metadata |-> 0]
        \* Sources are those a client was given by the store.
        known == SelectSeq(online.files, LAMBDA f : f.kind = "source" /\ FileReadable(online, f))
    IN  Write(SubmitComponent(online, disk, NewComponent(online),
             [name |-> name, build_id |-> bid,
              readme |-> IF shape.readme THEN <<File("readme")>> ELSE <<>>,
              files |-> [i \in 1..shape.files |-> File("binary")],
              sources |-> [i \in DOMAIN known |-> [id |-> known[i].file_id, name |-> ""]],
              attachments |-> [i \in DOMAIN shape.attachments |->
                                 [name |-> shape.attachments[i], file |-> File("attachment")]],
              releases |-> shape.releases]))

UpdateFileMetadata(file, metadata) ==
    Write(Result(Update(online, "files", "file_id", file, "metadata", metadata),
                 TRUE, NoId))

AddComponentAttachment(component, file, name) ==
    Write(Result(Link(online, "attachment", file, component, name), TRUE, NoId))

\* The process that has the shared store open closes it, or dies.
CloseOnline == onlineSaved' = online /\ UNCHANGED <<online, disk, localVars, count>>
CrashOnline == online' = onlineSaved /\ UNCHANGED <<onlineSaved, disk, localVars, count>>

\* A path that resources were sent from disappears.
LosePath(path) ==
    /\ path \in disk /\ disk' = disk \ {path}
    /\ Fault
    /\ UNCHANGED <<onlineVars, localVars>>

OnlineNext ==
    \/ \E setup \in Setups, date \in Dates : CreateBuildId(setup, date)
    \/ \E bid \in BuildIds(online), setup \in Setups : CopyBuildId(bid, setup)
    \/ \E bid \in BuildIds(online) : MarkBuildReady(bid)
    \/ \E bid \in BuildIds(online) \cup {NoId}, content \in Contents :
          \/ \E name \in Sources : SubmitOneFile(name, "source", bid, content)
          \/ \E name \in ThirdParties : SubmitOneFile(name, "thirdparty", bid, content)
          \/ \E name \in Components, shape \in Shapes, build \in {bid, NoId, Unknown} :
                SubmitOneComponent(name, build, bid, content, shape)
    \/ \E i \in DOMAIN online.files : UpdateFileMetadata(online.files[i].file_id, 1)
    \/ \E c \in DOMAIN online.components, f \in DOMAIN online.files :
          /\ FileReadable(online, online.files[f])
          /\ AddComponentAttachment(online.components[c].component_id,
                                    online.files[f].file_id, "added")
    \/ CloseOnline
    \/ CrashOnline
    \/ \E path \in disk : LosePath(path)

-----------------------------------------------------------------------------
(* The local store.                                                        *)

\* An operation is one transaction, so a process killed within it has not
\* begun it.  That none raises half-way is a consequence of LocalClosed.
AddLocally(result) ==
    /\ bulk.pc # "asking" /\ count.adds < MaxAdds
    /\ local' = result.db
    /\ count' = [count EXCEPT !.adds = @ + 1]
    /\ UNCHANGED <<onlineVars, disk, bulk>>

\* add_build_info_from_store
AddBuildInfoFromStore(bid) ==
    /\ AddLocally(Result(RawAddBuild(local, TheRow(online.buildinfos, "build_id", bid)),
                         TRUE, NoId))

\* add_source_from_store: the build first, in a commit of its own, and then
\* the file, if the shared store has one that it can read.
AddSourceFromStore(name, bid, kind) ==
    LET built == RawAddBuild(local, TheRow(online.buildinfos, "build_id", bid))
        found == SourceInfo(online, name, bid, kind)
    IN  /\ AddLocally(IF found = <<>> \/ ~FileReadable(online, found[1])
                      THEN Result(built, TRUE, NoId)
                      ELSE RawAddFile(built, disk, FileDict(online, disk, found[1])))

\* The same with a setup: the build is the latest one of the setup.
AddLatestSource(name, setup, kind) ==
    LET latest == LatestBuild(online, setup, AnyDate, TRUE)
    IN  latest # <<>> /\ AddSourceFromStore(name, latest[1].build_id, kind)

\* add_component_from_store: all that latest_components gives, in one commit.
AddComponentFromStore(setup, name) ==
    LET latest == LatestComponents(online, setup, name)
    IN  /\ latest # <<>>
        /\ \A i \in DOMAIN latest : ComponentReadable(online, latest[i])
        /\ AddLocally(FoldLeft(
             LAMBDA r, c : IF ~r.ok THEN r
                           ELSE RawAddComponent(r.db, disk, ComponentDict(online, disk, c)),
             Result(local, TRUE, NoId), latest))

-----------------------------------------------------------------------------
(* bulk_update_from_store: queries the local rows do not answer are sent,  *)
(* a chunk at a time, and the answers are added.                           *)

\* The query as sent: with the build id of the setup if it has none.
Prepared(q) ==
    LET latest == LatestBuild(online, q.setup, AnyDate, TRUE)
    IN  IF q.query = "source" /\ q.bid = NoId /\ q.setup # "" /\ latest # <<>>
        THEN [q EXCEPT !.bid = latest[1].build_id] ELSE q

\* A source the local rows give is enough if it is of the build asked for.
AnsweredLocally(q) ==
    /\ q.query = "source"
    /\ LET found == SourceInfo(local, q.name, q.bid, q.kind)
       IN  /\ found # <<>> /\ FileReadable(local, found[1])
           /\ q.kind = "source" => found[1].build_id = q.bid

StartBulk(queries) ==
    LET prepared == [i \in DOMAIN queries |-> Prepared(queries[i])]
    IN  /\ bulk.pc = "idle" /\ count.adds < MaxAdds
        /\ count' = [count EXCEPT !.adds = @ + 1]
        /\ bulk' = [pc |-> "asking",
                    todo |-> SelectSeq(prepared, LAMBDA q : ~AnsweredLocally(q)),
                    bids |-> {prepared[i].bid : i \in
                                {j \in DOMAIN prepared : prepared[j].query = "source"}} \ {NoId},
                    results |-> <<>>]
        /\ UNCHANGED <<onlineVars, disk, local>>

\* bulk_query on one query: the row answered, or none and a message.
OnlineAnswer(q) ==
    LET found == IF q.query = "component" THEN LatestComponents(online, q.setup, q.name)
                 ELSE IF q.kind = "thirdparty" THEN LatestThirdparty(online, q.name, "all")
                 ELSE SourceInfo(online, q.name, q.bid, "source")
        readable == \A i \in DOMAIN found : IF q.query = "component"
                                            THEN ComponentReadable(online, found[i])
                                            ELSE i = 1 => FileReadable(online, found[i])
    IN  IF found # <<>> /\ readable THEN <<found[1]>> ELSE <<>>

\* What the answer is after raw_add_file or raw_add_component.
Answered(r, one, q, given, asked) ==
    Result(one.db, one.ok, Append(r.value, [query |-> q, given |-> given, online |-> asked]))

FileAnswered(r, one, q, file) == Answered(r, one, q, one.value.row.file_id, file.file_id)

AddRow(r, q, answer) ==
    IF ~r.ok THEN r
    ELSE IF answer = <<>> THEN Answered(r, r, q, NoId, NoId)
    ELSE IF q.query = "source"
    THEN FileAnswered(r, RawAddFile(r.db, disk, FileDict(online, disk, answer[1])), q, answer[1])
    ELSE Answered(r, RawAddComponent(r.db, disk, ComponentDict(online, disk, answer[1])), q,
                  answer[1].component_id, answer[1].component_id)

AddAnswer(r, q) == AddRow(r, q, OnlineAnswer(q))

\* Variant: of the builds asked for, only the ones that are ready.
AddBuildsReady(db, bids) ==
    FoldLeft(LAMBDA d, b : IF b.build_id \in bids /\ b.isready THEN RawAddBuild(d, b) ELSE d,
             db, online.buildinfos)

AddBuilds(db, bids) ==
    FoldLeft(LAMBDA d, b : IF b.build_id \in bids THEN RawAddBuild(d, b) ELSE d,
             db, online.buildinfos)

\* One chunk.  Of the builds asked for, one the shared store does not know
\* raises, after the rows of the chunk were committed.
AskChunk ==
    LET chunk == SubSeq(bulk.todo, 1, IF Len(bulk.todo) < ChunkSize THEN Len(bulk.todo)
                                      ELSE ChunkSize)
        rest == SubSeq(bulk.todo, Len(chunk) + 1, Len(bulk.todo))
        added == FoldLeft(AddAnswer, Result(local, TRUE, <<>>), chunk)
        missing == bulk.bids \ (BuildIds(online) \cup BuildIds(added.db))
    IN  /\ bulk.pc = "asking" /\ bulk.todo # <<>>
        /\ \E bids \in IF missing = {} THEN {bulk.bids} ELSE SUBSET bulk.bids :
              local' = IF added.ok THEN AddBuilds(added.db, bids) ELSE added.db
        /\ bulk' = IF added.ok /\ missing = {}
                   THEN [bulk EXCEPT !.todo = rest, !.results = @ \o added.value]
                   ELSE Idle
        /\ UNCHANGED <<onlineVars, disk, count>>

EndBulk ==
    /\ bulk.pc = "asking" /\ bulk.todo = <<>>
    /\ bulk' = [bulk EXCEPT !.pc = "done"]
    /\ UNCHANGED <<onlineVars, disk, local, count>>

\* The connection to the shared store breaks between two chunks, or the
\* process is killed.
LoseConnection ==
    /\ bulk.pc = "asking" /\ bulk' = Idle
    /\ Fault
    /\ UNCHANGED <<onlineVars, disk, local>>

LeaveBulk == bulk.pc = "done" /\ bulk' = Idle
             /\ UNCHANGED <<onlineVars, disk, local, count>>

LocalNext ==
    \/ \E bid \in BuildIds(online) : AddBuildInfoFromStore(bid)
    \/ \E bid \in BuildIds(online) :
          \/ \E name \in Sources : AddSourceFromStore(name, bid, "source")
          \/ \E name \in ThirdParties : AddSourceFromStore(name, bid, "thirdparty")
    \/ \E name \in Sources, setup \in Setups : AddLatestSource(name, setup, "source")
    \/ \E setup \in Setups, name \in Components : AddComponentFromStore(setup, name)
    \/ \E queries \in Queries : StartBulk(queries)
    \/ AskChunk
    \/ EndBulk
    \/ LoseConnection
    \/ LeaveBulk

StoreNext == OnlineNext \/ LocalNext
StoreSpec == StoreInit /\ [][StoreNext]_storeVars

-----------------------------------------------------------------------------
(* Properties                                                              *)

\* No row names one that is not there.
Closed(db) ==
    /\ \A i \in DOMAIN db.files : FileReadable(db, db.files[i])
    /\ \A i \in DOMAIN db.components : ComponentReadable(db, db.components[i])
    /\ \A i \in DOMAIN db.component_files :
          /\ Having(db.files, "file_id", db.component_files[i].file_id)
          /\ Having(db.components, "component_id", db.component_files[i].component_id)

\* A submission is not atomic, it leaves the files sent before the one that
\* failed: yet whatever was committed, by it or by a later operation, each
\* component in the store has all its files, they can be read, and so can the
\* component, unless it was submitted to a build that is not in the store (see
\* BuildsAreThere).
ComponentsWhole ==
    /\ \A i \in DOMAIN onlineSaved.components :
          LET component == onlineSaved.components[i]
          IN  /\ FilesReadable(onlineSaved, component)
              /\ component.build_id # Unknown => ComponentReadable(onlineSaved, component)
    /\ \A i \in DOMAIN onlineSaved.component_files :
          /\ Having(onlineSaved.files, "file_id", onlineSaved.component_files[i].file_id)
          /\ Having(onlineSaved.components, "component_id",
                    onlineSaved.component_files[i].component_id)

\* Every component was submitted to a build that is in the store: "The
\* buildinfo should already be created at this point. If not, raise an error."
\* (store/__init__.py:1041).  This is not so: an id of no build is accepted.
BuildsAreThere ==
    \A i \in DOMAIN onlineSaved.components :
        Having(onlineSaved.buildinfos, "build_id", onlineSaved.components[i].build_id)

\* The rows copied to a local store carry with them all the rows they refer
\* to, whatever the order of the additions, so that reading one does not raise.
LocalClosed == Closed(local)

\* When a bulk update ends, the builds asked for are in the local store, and
\* each query for a source or a component that was answered has an answer
\* without the shared store.
OfflineAnswers ==
    bulk.pc = "done" =>
        /\ bulk.bids \subseteq BuildIds(local)
        /\ \A i \in DOMAIN bulk.results :
              LET r == bulk.results[i] IN
              r.given # NoId =>
                \/ r.query.query = "component"
                   /\ LatestComponents(local, r.query.setup, r.query.name) # <<>>
                \/ r.query.query = "source" /\ r.query.kind = "source"
                   /\ SourceInfo(local, r.query.name, r.query.bid, "source") # <<>>
                \/ r.query.kind = "thirdparty"
                   /\ LatestThirdparty(local, r.query.name, "all") # <<>>

\* The answer to a query is the one the shared store gave (the comment of
\* bulk_update_from_store on the build id of a source).
BulkAnswersAreOnline ==
    \A i \in DOMAIN bulk.results : bulk.results[i].given = bulk.results[i].online
=============================================================================
