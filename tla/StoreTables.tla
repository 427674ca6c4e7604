---------------------------- MODULE StoreTables ----------------------------
(***************************************************************************)
(* The SQLite tables of e3.anod.store and the statements run on them, as   *)
(* operators on a record of tables.  No statement deletes a row, so a      *)
(* table is the sequence of its rows, oldest first, and the position of a  *)
(* row is its "id" column.  An operation that may raise returns the tables *)
(* it leaves behind, whether it comes to its commit, and its value: the    *)
(* rows written before an exception stay in the open transaction of the    *)
(* connection, those before an exception after the commit are committed.   *)
(*                                                                         *)
(* Kept of each row: what links rows to one another and what queries look  *)
(* at.  A component name stands for a name and platform; "created" is the  *)
(* creation date the database gives to a row, here never twice the same.   *)
(***************************************************************************)
EXTENDS Integers, Sequences, FiniteSets, SequencesExt

NoId == 0        \* no id: the empty one, None
Unknown == -1    \* an id that is in no table of this store
AnyDate == 0

EmptyTables ==
    [buildinfos |-> <<>>, resources |-> <<>>, files |-> <<>>,
     component_files |-> <<>>, component_releases |-> <<>>, components |-> <<>>]

Result(tables, ok, value) == [db |-> tables, ok |-> ok, value |-> value]

Having(table, field, value) == \E i \in DOMAIN table : table[i][field] = value

\* SELECT ... WHERE field=value, for a column that holds each value once.
TheRow(table, field, value) == table[CHOOSE i \in DOMAIN table : table[i][field] = value]

\* The first row of SELECT ... WHERE ... ORDER BY id DESC, as a sequence of
\* one row, or none.
Newest(rows) == IF rows = <<>> THEN <<>> ELSE <<Last(rows)>>

Insert(db, table, row) == [db EXCEPT ![table] = Append(@, row)]

Update(db, table, key, value, field, new) ==
    [db EXCEPT ![table] = [i \in DOMAIN @ |->
        IF @[i][key] = value THEN [@[i] EXCEPT ![field] = new] ELSE @[i]]]

-----------------------------------------------------------------------------
(* What a read gives for a row, and when it raises instead.                *)

FileReadable(db, file) ==
    /\ Having(db.buildinfos, "build_id", file.build_id)
    /\ Having(db.resources, "resource_id", file.resource_id)

FileDict(db, disk, file) ==
    LET path == TheRow(db.resources, "resource_id", file.resource_id).path
    IN  [row |-> file,
         build |-> TheRow(db.buildinfos, "build_id", file.build_id),
         path |-> IF path \in disk THEN path ELSE ""]

\* The files a component is linked to as one kind.  The join with the table
\* of the files leaves out a link to a file that is not there.
LinkedFiles(db, component, kind) ==
    LET links == SelectSeq(db.component_files, LAMBDA link :
                    /\ link.component_id = component /\ link.kind = kind
                    /\ Having(db.files, "file_id", link.file_id))
    IN  [i \in DOMAIN links |->
            [name |-> links[i].name, file |-> TheRow(db.files, "file_id", links[i].file_id)]]

ComponentFiles(db, component) ==
    LinkedFiles(db, component, "file") \o LinkedFiles(db, component, "source")
        \o LinkedFiles(db, component, "attachment")

\* The files of a component can be read.
FilesReadable(db, component) ==
    /\ \A i \in DOMAIN ComponentFiles(db, component.component_id) :
            FileReadable(db, ComponentFiles(db, component.component_id)[i].file)
    /\ component.readme_id # NoId =>
          /\ Having(db.files, "file_id", component.readme_id)
          /\ FileReadable(db, TheRow(db.files, "file_id", component.readme_id))

ComponentReadable(db, component) ==
    /\ Having(db.buildinfos, "build_id", component.build_id)
    /\ FilesReadable(db, component)

ComponentDict(db, disk, component) ==
    LET Dicts(kind) == LET linked == LinkedFiles(db, component.component_id, kind)
                       IN  [i \in DOMAIN linked |->
                               [name |-> linked[i].name,
                                file |-> FileDict(db, disk, linked[i].file)]]
        attached == Dicts("attachment")
        releases == SelectSeq(db.component_releases,
                              LAMBDA r : r.component_id = component.component_id)
    IN  [row |-> component,
         build |-> TheRow(db.buildinfos, "build_id", component.build_id),
         files |-> Dicts("file"), sources |-> Dicts("source"),
         \* A dictionary: of two attachments with one name it has the last.
         attachments |-> SelectSeq(attached, LAMBDA a :
                            a = attached[CHOOSE i \in DOMAIN attached :
                                  /\ attached[i].name = a.name
                                  /\ \A j \in DOMAIN attached :
                                       attached[j].name = a.name => j <= i]),
         releases |-> [i \in DOMAIN releases |-> releases[i].name],
         readme |-> IF component.readme_id = NoId THEN <<>>
                    ELSE <<FileDict(db, disk,
                                    TheRow(db.files, "file_id", component.readme_id))>>]

-----------------------------------------------------------------------------
(* The queries of StoreReadOnly: sequences of rows, the answer first.      *)

\* get_latest_build_info: by date and then by age.
LatestBuild(db, setup, date, readyOnly) ==
    LET found == SelectSeq(db.buildinfos, LAMBDA b :
                    /\ b.setup = setup
                    /\ date # AnyDate => b.date = date
                    /\ readyOnly => b.isready)
        dates == {found[i].date : i \in DOMAIN found}
        last == CHOOSE d \in dates : \A e \in dates : e <= d
    IN  IF found = <<>> THEN <<>>
        ELSE Newest(SelectSeq(found, LAMBDA b : b.date = last))

\* get_source_info: a source of the build, or the one of the build created
\* last before it.  Without a row for the build no creation date compares.
SourceInfo(db, name, bid, kind) ==
    LET Created(b) == TheRow(db.buildinfos, "build_id", b).created
        found == {i \in DOMAIN db.files :
                    /\ db.files[i].name = name /\ db.files[i].kind = kind
                    /\ Having(db.buildinfos, "build_id", db.files[i].build_id)
                    /\ \/ db.files[i].build_id = bid
                       \/ /\ kind \in {"source", "thirdparty"}
                          /\ Having(db.buildinfos, "build_id", bid)
                          /\ Created(db.files[i].build_id) <= Created(bid)}
    IN  IF found = {} THEN <<>>
        ELSE <<db.files[CHOOSE i \in found : \A j \in found :
                 \/ Created(db.files[j].build_id) < Created(db.files[i].build_id)
                 \/ db.files[j].build_id = db.files[i].build_id /\ i <= j]>>

LatestThirdparty(db, name, resource) ==
    Newest(SelectSeq(db.files, LAMBDA f :
                        /\ f.kind = "thirdparty" /\ f.name = name
                        /\ resource # "all" => f.resource_id = resource))

\* latest_components: of every name the last one submitted in the setup.
LatestComponents(db, setup, name) ==
    LET InSetup(c) == /\ Having(db.buildinfos, "build_id", c.build_id)
                      /\ TheRow(db.buildinfos, "build_id", c.build_id).setup = setup
                      /\ name # "all" => c.name = name
        found == SelectSeq(db.components, InSetup)
        superseded == {i \in DOMAIN found : \E j \in DOMAIN found :
                          j > i /\ found[j].name = found[i].name}
        kept == SelectSeq([i \in DOMAIN found |-> i], LAMBDA i : i \notin superseded)
    IN  Reverse([i \in DOMAIN kept |-> found[kept[i]]])

-----------------------------------------------------------------------------
(* The writes of StoreWriteOnly, up to their commit.                       *)

CreateBuild(db, bid, setup, date) ==
    Insert(db, "buildinfos", [build_id |-> bid, setup |-> setup, date |-> date,
                              created |-> Len(db.buildinfos) + 1, isready |-> FALSE])

\* copy_build_id: INSERT ... SELECT of no row inserts none, and the tuple of
\* None raises after the commit.
CopyBuild(db, bid, new, setup) ==
    IF ~Having(db.buildinfos, "build_id", bid) THEN Result(db, TRUE, NoId)
    ELSE Result(CreateBuild(db, new, setup, TheRow(db.buildinfos, "build_id", bid).date),
                TRUE, new)

\* unique_id()
NewFile(db) == Len(db.files) + 1

\* _submit_file: the row is written before the build it names is looked up.
SubmitFile(db, disk, id, info) ==
    LET known == Having(db.resources, "resource_id", info.resource_id)
        stored == IF ~known
                  THEN Insert(db, "resources", [resource_id |-> info.resource_id,
                                                path |-> info.path])
                  ELSE IF TheRow(db.resources, "resource_id", info.resource_id).path \in disk
                  THEN db
                  ELSE Update(db, "resources", "resource_id", info.resource_id,
                              "path", info.path)
    IN  IF info.path \notin disk THEN Result(db, FALSE, NoId)
        ELSE Result(Insert(stored, "files",
                           [file_id |-> id, name |-> info.name, build_id |-> info.build_id,
                            kind |-> info.kind, resource_id |-> info.resource_id,
                            metadata |-> info.metadata]),
                    Having(db.buildinfos, "build_id", info.build_id), id)

\* _submit_file on each of a list of files until one raises.
SubmitFiles(db, disk, infos) ==
    FoldLeft(LAMBDA r, info :
                IF ~r.ok THEN r
                ELSE LET one == SubmitFile(r.db, disk, NewFile(r.db), info)
                     IN  Result(one.db, one.ok, Append(r.value, one.value)),
             Result(db, TRUE, <<>>), infos)

\* Variant: the two ids in the wrong order.
LinkSwapped(db, kind, file, component, name) ==
    Insert(db, "component_files", [kind |-> kind, file_id |-> component,
                                   component_id |-> file, name |-> name])

Link(db, kind, file, component, name) ==
    Insert(db, "component_files", [kind |-> kind, file_id |-> file,
                                   component_id |-> component, name |-> name])

\* _insert_to_component_files
LinkAll(db, kind, files, component) ==
    FoldLeft(LAMBDA d, f : Link(d, kind, f.id, component, f.name), db, files)

Release(db, names, component) ==
    FoldLeft(LAMBDA d, n : Insert(d, "component_releases",
                                  [name |-> n, component_id |-> component]), db, names)

\* submit_component: the files one after the other, then the component, its
\* links and its releases.  Attachments given as a list may repeat a name.  The
\* build must have an id, but it is looked up only after the commit, for the
\* answer, and not even then if the component comes with its build.
SubmitComponent(db, disk, id, info) ==
    LET attached == [i \in DOMAIN info.attachments |-> info.attachments[i].file]
        repeated == {i \in DOMAIN info.attachments : \E j \in 1..(i - 1) :
                        info.attachments[j].name = info.attachments[i].name}
        before == IF repeated = {} THEN attached
                  ELSE SubSeq(attached, 1, (CHOOSE i \in repeated :
                                               \A j \in repeated : i <= j) - 1)
        sent == SubmitFiles(db, disk, info.readme \o info.files \o before)
        ids == SubSeq(sent.value, Len(info.readme) + 1, Len(sent.value))
        n == Len(info.files)
        files == [i \in 1..n |-> [id |-> ids[i], name |-> ""]]
        attachments == [i \in DOMAIN attached |->
                           [id |-> ids[n + i], name |-> info.attachments[i].name]]
        row == [component_id |-> id, name |-> info.name, build_id |-> info.build_id,
                readme_id |-> IF info.readme = <<>> THEN NoId ELSE sent.value[1]]
        linked == LinkAll(LinkAll(LinkAll(Insert(sent.db, "components", row),
                              "file", files, id), "source", info.sources, id),
                          "attachment", attachments, id)
    IN  IF ~sent.ok \/ repeated # {} \/ info.build_id = NoId THEN Result(sent.db, FALSE, NoId)
        ELSE Result(Release(linked, info.releases, id), TRUE, id)

-----------------------------------------------------------------------------
(* The writes of LocalStore: rows copied from another store.               *)

\* Variant: looks for a build of the same setup.
RawAddBuildOfSetup(db, build) ==
    IF Having(db.buildinfos, "setup", build.setup) THEN db
    ELSE Insert(db, "buildinfos", build)

RawAddBuild(db, build) ==
    IF Having(db.buildinfos, "build_id", build.build_id) THEN db
    ELSE Insert(db, "buildinfos", build)

\* _raw_add_file: a file with the name and kind that get_source_info finds
\* for the build stands for the one to add, which becomes that file.
RawAddFile(db, disk, dict) ==
    LET file == dict.row
        found == SourceInfo(db, file.name, file.build_id, file.kind)
        added == RawAddBuild(Insert(db, "files", file), dict.build)
        known == Having(db.resources, "resource_id", file.resource_id)
        \* The empty path is the current directory, which exists.
        valid == TheRow(db.resources, "resource_id", file.resource_id).path
                    \in disk \cup {""}
    IN  IF found # <<>> /\ FileReadable(db, found[1])
        THEN Result(db, TRUE, FileDict(db, disk, found[1]))
        ELSE IF Having(db.files, "file_id", file.file_id) THEN Result(db, FALSE, dict)
        ELSE Result(
               IF ~known THEN Insert(added, "resources", [resource_id |-> file.resource_id,
                                                          path |-> dict.path])
               ELSE IF valid THEN added
               ELSE Update(added, "resources", "resource_id", file.resource_id,
                           "path", dict.path),
               TRUE, dict)

RawAddFiles(db, disk, dicts) ==
    LET With(r, one, name) == Result(one.db, one.ok,
                                Append(r.value, [id |-> one.value.row.file_id, name |-> name]))
    IN  FoldLeft(LAMBDA r, d : IF ~r.ok THEN r
                               ELSE With(r, RawAddFile(r.db, disk, d.file), d.name),
                 Result(db, TRUE, <<>>), dicts)

\* _raw_add_component.  The releases are inserted twice.
RawAddComponent(db, disk, dict) ==
    LET id == dict.row.component_id
        n == Len(dict.files)
        m == n + Len(dict.sources)
        sent == RawAddFiles(db, disk, dict.files \o dict.sources \o dict.attachments)
        built == RawAddBuild(Release(sent.db, dict.releases, id), dict.build)
        read == RawAddFiles(built, disk, [i \in DOMAIN dict.readme |->
                                             [name |-> "", file |-> dict.readme[i]]])
        readme == IF dict.readme = <<>> THEN NoId ELSE read.value[1].id
        inserted == Insert(read.db, "components", [dict.row EXCEPT !.readme_id = readme])
        Linked(kind, first, last, d) == LinkAll(d, kind, SubSeq(sent.value, first, last), id)
        linked == Linked("attachment", m + 1, m + Len(dict.attachments),
                         Linked("source", n + 1, m, Linked("file", 1, n, inserted)))
    IN  IF Having(db.components, "component_id", id)
        THEN Result(db, ComponentReadable(db, TheRow(db.components, "component_id", id)), id)
        ELSE IF ~sent.ok THEN Result(sent.db, FALSE, NoId)
        ELSE IF ~read.ok THEN Result(read.db, FALSE, NoId)
        ELSE Result(Release(linked, dict.releases, id), TRUE, id)
=============================================================================
