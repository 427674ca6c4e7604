---------------------------- MODULE StoreClients ----------------------------
(***************************************************************************)
(* The objects a client of a store has in its hands: BuildInfo, File and   *)
(* Component of e3.anod.store.  One method of theirs is several calls of   *)
(* the store, between which other clients work; a call that raises leaves  *)
(* the object changed and the store not.                                   *)
(***************************************************************************)
EXTENDS StoreTables

CONSTANTS ClientSetups, ClientDates,
          Uploaders,        \* processes that upload third parties
          Packages,         \* names of third parties
          Payloads,         \* contents that are sent
          AttachmentKeys,
          Attempts,         \* range(10) in upload_thirdparty_from_dir
          Timeout, RetryDelay,
          MaxClientCalls,     \* bound: the calls, and the answers that are lost
          MaxClock

ASSUME WaitTimesAssumption == Timeout \in Nat /\ RetryDelay \in Nat \ {0}

ThirdPartySetup == "thirdparties"
NoPayload == "none"

VARIABLES remote,           \* the tables of the store
          builder,          \* who creates and copies builds
          waiter,           \* who is in BuildInfo.wait
          uploads,
          held,             \* a Component object
          now,
          forced, raced,    \* history: names uploaded by force, or by two at once
          spent             \* calls and failures so far

clientVars == <<remote, builder, waiter, uploads, held, now, forced, raced, spent>>

NoUpload == [pc |-> "idle", name |-> "none", index |-> 0, payload |-> NoPayload,
             force |-> FALSE, bid |-> NoId]

ClientInit ==
    /\ remote = EmptyTables
    /\ builder = [pc |-> "idle", bid |-> NoId, ready |-> FALSE]
    /\ waiter = [pc |-> "idle", setup |-> "none", date |-> 0, since |-> 0, until |-> 0,
                 bid |-> NoId]
    /\ uploads = [u \in Uploaders |-> NoUpload]
    /\ held = [pc |-> "idle", id |-> NoId, key |-> "none", payload |-> NoPayload,
               file |-> NoId, agreed |-> TRUE,
               attachments |-> [k \in AttachmentKeys |-> NoPayload]]
    /\ now = 0 /\ forced = {} /\ raced = {}
    /\ spent = [calls |-> 0, lost |-> 0]

NextBuild == Len(remote.buildinfos) + 1

Begin == spent.calls + spent.lost < MaxClientCalls /\ spent' = [spent EXCEPT !.calls = @ + 1]
Lost == spent.calls + spent.lost < MaxClientCalls /\ spent' = [spent EXCEPT !.lost = @ + 1]

-----------------------------------------------------------------------------
(* BuildInfo.                                                              *)

\* latest: on the days up to a date, or the last one of any date.
Latest(setup, date, readyOnly, days) ==
    LET dates == IF date = AnyDate THEN {AnyDate} ELSE (date - days + 1)..date
        good == {d \in dates : LatestBuild(remote, setup, d, readyOnly) # <<>>}
    IN  IF good = {} THEN <<>>
        ELSE LatestBuild(remote, setup, CHOOSE d \in good : \A e \in good : e <= d,
                         readyOnly)

\* create
Create(setup, date, mark_ready) ==
    /\ builder.pc = "idle" /\ Begin
    /\ remote' = CreateBuild(remote, NextBuild, setup, date)
    /\ builder' = [builder EXCEPT !.pc = IF mark_ready THEN "mark" ELSE "idle",
                                  !.bid = NextBuild]
    /\ UNCHANGED <<waiter, uploads, held, now, forced, raced>>

\* from_id or latest, and copy: never into the setup of the build.
Copy(setup, dest, mark_ready) ==
    LET found == Latest(setup, AnyDate, TRUE, 1)
    IN  /\ builder.pc = "idle" /\ found # <<>> /\ setup # dest /\ Begin
        /\ remote' = CopyBuild(remote, found[1].build_id, NextBuild, dest).db
        /\ builder' = [builder EXCEPT !.pc = IF mark_ready THEN "mark" ELSE "idle",
                                      !.bid = NextBuild]
        /\ UNCHANGED <<waiter, uploads, held, now, forced, raced>>

\* mark_ready, on its own or as the second call of create and copy
MarkReady ==
    /\ builder.pc = "mark"
    /\ remote' = Update(remote, "buildinfos", "build_id", builder.bid, "isready", TRUE)
    /\ builder' = [builder EXCEPT !.pc = "idle"]
    /\ UNCHANGED <<waiter, uploads, held, now, forced, raced, spent>>

\* The second call fails, or the process dies before it.
MarkLost ==
    /\ builder.pc = "mark" /\ Lost
    /\ builder' = [builder EXCEPT !.pc = "idle"]
    /\ UNCHANGED <<remote, waiter, uploads, held, now, forced, raced>>

StartWait(setup, date) ==
    /\ waiter.pc = "idle" /\ Begin
    /\ waiter' = [waiter EXCEPT !.pc = "ask", !.setup = setup, !.date = date, !.since = now]
    /\ UNCHANGED <<remote, builder, uploads, held, now, forced, raced>>

\* Variant: the time is that since the last sleep.
TooLateNever == now - waiter.until > Timeout

TooLate == now - waiter.since > Timeout

\* One round of the loop of wait, up to the sleep.  Any StoreError, that of a
\* lost connection too, only means another round.
Ask ==
    LET found == Latest(waiter.setup, waiter.date, TRUE, 1)
    IN  /\ waiter.pc = "ask"
        /\ \/ /\ found # <<>>
              /\ waiter' = [waiter EXCEPT !.pc = "returned", !.bid = found[1].build_id]
              /\ UNCHANGED spent
           \/ /\ IF found # <<>> THEN Lost ELSE UNCHANGED spent
              /\ waiter' = IF TooLate THEN [waiter EXCEPT !.pc = "raised"]
                           ELSE [waiter EXCEPT !.pc = "sleep", !.until = now + RetryDelay]
        /\ UNCHANGED <<remote, builder, uploads, held, now, forced, raced>>

\* Calls of the store take no time, sleeps do.
PassTime ==
    /\ waiter.pc = "sleep" /\ now < MaxClock
    /\ now' = now + 1
    /\ waiter' = [waiter EXCEPT !.pc = IF now' >= waiter.until THEN "ask" ELSE "sleep"]
    /\ UNCHANGED <<remote, builder, uploads, held, forced, raced, spent>>

-----------------------------------------------------------------------------
(* File.upload_thirdparty and upload_thirdparty_from_dir.                  *)

\* The archive of a directory has the first name of the day that is free.
PackageName(package, index) == <<package, index>>

Go(u, new) ==
    /\ uploads' = [uploads EXCEPT ![u] = new]
    /\ UNCHANGED <<builder, waiter, held, now>>

StartUpload(u, package, payload, force, fromDir) ==
    /\ uploads[u].pc = "idle" /\ Begin
    /\ fromDir => ~force
    /\ Go(u, [NoUpload EXCEPT !.pc = IF fromDir THEN "probe" ELSE "build", !.name = package,
                              !.payload = payload, !.force = force])
    /\ UNCHANGED <<remote, forced, raced>>

\* One round of the loop over the names.
Probe(u) ==
    LET upload == uploads[u]
        name == PackageName(upload.name, upload.index)
    IN  /\ upload.pc = "probe"
        /\ Go(u, IF LatestThirdparty(remote, name, "all") = <<>>
                 THEN [upload EXCEPT !.pc = "build"]
                 ELSE IF upload.index + 1 < Attempts
                 THEN [upload EXCEPT !.index = @ + 1] ELSE NoUpload)
        /\ UNCHANGED <<remote, forced, raced, spent>>

\* The build of the third parties, which may not be there.
FindBuild(u) ==
    LET found == Latest(ThirdPartySetup, AnyDate, FALSE, 1)
    IN  /\ uploads[u].pc = "build"
        /\ Go(u, IF found = <<>> THEN NoUpload
                 ELSE [uploads[u] EXCEPT !.pc = "check", !.bid = found[1].build_id])
        /\ UNCHANGED <<remote, forced, raced, spent>>

\* Variant: only a third party with this content is looked for.
PreviousSame(u) ==
    LatestThirdparty(remote, PackageName(uploads[u].name, uploads[u].index),
                     uploads[u].payload)

Previous(u) ==
    LET name == PackageName(uploads[u].name, uploads[u].index)
        same == LatestThirdparty(remote, name, uploads[u].payload)
    IN  IF same # <<>> THEN same ELSE LatestThirdparty(remote, name, "all")

Check(u) ==
    /\ uploads[u].pc = "check"
    /\ Go(u, IF Previous(u) # <<>> /\ ~uploads[u].force THEN NoUpload
             ELSE [uploads[u] EXCEPT !.pc = "create"])
    /\ UNCHANGED <<remote, forced, raced, spent>>

\* create_thirdparty
CreateThirdparty(u) ==
    LET upload == uploads[u]
        name == PackageName(upload.name, upload.index)
        Same(v) == uploads[v].pc = "create" /\
                   PackageName(uploads[v].name, uploads[v].index) = name
    IN  /\ upload.pc = "create"
        /\ remote' = SubmitFile(remote, Payloads, NewFile(remote),
              [name |-> name, kind |-> "thirdparty", build_id |-> upload.bid,
               resource_id |-> upload.payload, path |-> upload.payload, metadata |-> 0]).db
        /\ Go(u, NoUpload)
        /\ forced' = IF upload.force THEN forced \cup {name} ELSE forced
        /\ raced' = IF \E v \in Uploaders \ {u} : Same(v) THEN raced \cup {name} ELSE raced
        /\ UNCHANGED spent

-----------------------------------------------------------------------------
(* Component.                                                              *)

Hold(new) ==
    /\ held' = new
    /\ UNCHANGED <<builder, waiter, uploads, now, forced, raced>>

\* Variant: the object keeps the id of the component it was.
UpdatedButId(id) == [held EXCEPT !.agreed = TRUE, !.id = IF held.id = NoId THEN id ELSE held.id]

\* __update: all that the store answers, the id of the new component too.
UpdatedFrom(id) == [held EXCEPT !.agreed = TRUE, !.id = id]

\* push: an answer that is lost leaves the object as it was.
Push ==
    LET attached == {k \in AttachmentKeys : held.attachments[k] # NoPayload}
        keys == SetToSeq(attached)
        id == Len(remote.components) + 1
        sent == SubmitComponent(remote, Payloads, id,
           [name |-> "component", build_id |-> 1, readme |-> <<>>, files |-> <<>>,
            sources |-> <<>>, releases |-> <<>>,
            attachments |-> [i \in DOMAIN keys |->
               [name |-> keys[i],
                file |-> [name |-> keys[i], kind |-> "attachment", build_id |-> 1,
                          resource_id |-> held.attachments[keys[i]],
                          path |-> held.attachments[keys[i]], metadata |-> 0]]]])
    IN  /\ held.pc = "idle" /\ remote.buildinfos # <<>>
        /\ remote' = sent.db
        /\ \/ Begin /\ Hold(UpdatedFrom(id))
           \/ Lost /\ Hold(held)

\* add_attachment
AddAttachment(key, payload, overwrite_existing) ==
    /\ held.pc = "idle" /\ Begin
    /\ Hold(IF held.attachments[key] # NoPayload /\ ~overwrite_existing THEN held
            ELSE [held EXCEPT !.attachments[key] = payload, !.agreed = FALSE])
    /\ UNCHANGED remote

\* remove_attachment: those whose key has a prefix, in the object alone.
RemoveAttachment(keys) ==
    /\ held.pc = "idle" /\ Begin
    /\ Hold([held EXCEPT !.attachments = [k \in AttachmentKeys |->
                             IF k \in keys THEN NoPayload ELSE @[k]],
                         !.agreed = FALSE])
    /\ UNCHANGED remote

\* submit_attachment: the object is changed first, then the store twice.
SubmitAttachment(key, payload) ==
    /\ held.pc = "idle" /\ held.id # NoId /\ Begin
    /\ Hold([held EXCEPT !.pc = "file", !.key = key, !.payload = payload,
                         !.attachments[key] = payload])
    /\ UNCHANGED remote

SubmitAttached ==
    /\ held.pc = "file"
    /\ remote' = SubmitFile(remote, Payloads, NewFile(remote),
          [name |-> held.key, kind |-> "attachment", build_id |-> 1,
           resource_id |-> held.payload, path |-> held.payload, metadata |-> 0]).db
    /\ Hold([held EXCEPT !.pc = "link", !.file = NewFile(remote)])
    /\ UNCHANGED spent

LinkAttached ==
    /\ held.pc = "link"
    /\ remote' = Link(remote, "attachment", held.file, held.id, held.key)
    /\ Hold([held EXCEPT !.pc = "idle"])
    /\ UNCHANGED spent

AttachmentLost ==
    /\ held.pc \in {"file", "link"} /\ Lost
    /\ Hold([held EXCEPT !.pc = "idle", !.agreed = FALSE])
    /\ UNCHANGED remote

-----------------------------------------------------------------------------
ClientNext ==
    \/ \E setup \in ClientSetups, mark \in BOOLEAN :
          \/ \E date \in ClientDates : Create(setup, date, mark) \/ StartWait(setup, date)
          \/ \E dest \in ClientSetups : Copy(setup, dest, mark)
    \/ MarkReady \/ MarkLost \/ Ask \/ PassTime
    \/ \E u \in Uploaders :
          \/ \E package \in Packages, payload \in Payloads, force, fromDir \in BOOLEAN :
                StartUpload(u, package, payload, force, fromDir)
          \/ Probe(u) \/ FindBuild(u) \/ Check(u) \/ CreateThirdparty(u)
    \/ Push
    \/ \E key \in AttachmentKeys, payload \in Payloads :
          \/ \E overwrite \in BOOLEAN : AddAttachment(key, payload, overwrite)
          \/ SubmitAttachment(key, payload)
    \/ \E keys \in (SUBSET AttachmentKeys) \ {{}} : RemoveAttachment(keys)
    \/ SubmitAttached \/ LinkAttached \/ AttachmentLost

ClientSpec == ClientInit /\ [][ClientNext]_clientVars

-----------------------------------------------------------------------------
(* Properties.                                                             *)

\* A wait ends within its timeout and one delay, with a build that is ready; it
\* gives up only after its timeout.
WaitRight ==
    /\ waiter.pc # "idle" => now - waiter.since <= Timeout + RetryDelay
                          \/ waiter.pc \in {"returned", "raised"}
    /\ waiter.pc = "raised" => now - waiter.since > Timeout
    /\ waiter.pc = "returned" =>
          \E i \in DOMAIN remote.buildinfos :
             LET b == remote.buildinfos[i]
             IN  /\ b.build_id = waiter.bid /\ b.isready
                 /\ b.setup = waiter.setup /\ b.date = waiter.date

\* "Third party already exists": two third parties have one name only if one
\* was forced, or if two uploads had both found the name free.
ThirdPartiesUnique ==
    \A i, j \in DOMAIN remote.files :
       LET f == remote.files[i]
           g == remote.files[j]
       IN  i # j /\ f.kind = "thirdparty" /\ g.kind = "thirdparty" /\ f.name = g.name
           => f.name \in forced \cup raced

\* A Component object all of whose methods went well, and that was pushed after
\* any change made to it alone, has the attachments the store has for it.
ObjectAgrees ==
    held.id # NoId /\ held.pc = "idle" /\ held.agreed =>
       LET stored == ComponentDict(remote, Payloads,
                        TheRow(remote.components, "component_id", held.id)).attachments
       IN  \A k \in AttachmentKeys :
             {stored[i].file.row.resource_id : i \in {j \in DOMAIN stored : stored[j].name = k}}
                = {held.attachments[k]} \ {NoPayload}
=============================================================================
