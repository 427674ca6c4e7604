------------------------------ MODULE FileMoves ------------------------------
(***************************************************************************)
(* e3.fs.mv, cp and rm, that work entry by entry, and unpack_archive, that *)
(* takes an archive out aside and moves or synchronises it into place.     *)
(* Any step may fail, and the process may be killed at any step; the next  *)
(* call starts from what there is then.                                    *)
(*                                                                         *)
(* A path is the sequence of its names, from one of two directories that   *)
(* may be on two devices.                                                  *)
(***************************************************************************)
EXTENDS Naturals, Sequences, FiniteSets

CONSTANTS FilePaths, InitialFiles, \* paths, and what they may hold at first
          Links,          \* the contents that are symbolic links
          Hidden,         \* the names with a leading dot, that "*" does not match
          Meaning,        \* the name that is matched by one that, taken as a
                          \* pattern, does not match itself
          MoveCalls, UnpackCalls, \* the arguments of the calls
          MaxFileCalls, MaxFaults

Dest == <<"dest">>
Aside == <<"aside">>
ASSUME FilePathsAssumption == {Dest, Aside} \subseteq FilePaths

VARIABLES held,          \* path -> content
          one_device, file_call, file_calls, faults

fileVars == <<held, one_device, file_call, file_calls, faults>>

Missing == "missing"
IsDir == "directory"
Cut == "cut"              \* a file being written
Below(p, q) == Len(p) <= Len(q) /\ SubSeq(q, 1, Len(p)) = p
Base(p) == p[Len(p)]
Up(p) == SubSeq(p, 1, Len(p) - 1)
Special == DOMAIN Meaning
Exists(p) == held[p] # Missing
TreeOf(p) == {q \in FilePaths : Below(p, q) /\ Exists(q)}
AsPattern(p) == [i \in DOMAIN p |-> IF p[i] \in Special THEN Meaning[p[i]] ELSE p[i]]
Entries(p) == {q \in TreeOf(p) : Len(q) = Len(p) + 1}
\* Where q goes when src goes to dst.
Place(q, src, dst) == dst \o SubSeq(q, Len(src) + 1, Len(q))

NoFiles == [p \in FilePaths |-> Missing]
Without(p) == [q \in FilePaths |-> IF Below(p, q) THEN Missing ELSE held[q]]

NoCall == [pc |-> "idle", op |-> "none", mode |-> "keep", delete |-> FALSE,
           archive |-> <<>>, base |-> <<>>, before |-> NoFiles,
           all |-> {}, moves |-> {}, again |-> {}, now |-> <<>>, result |-> "none"]

FileInit ==
    /\ held \in InitialFiles /\ one_device \in BOOLEAN
    /\ file_call = NoCall /\ file_calls = 0 /\ faults = 0

Ended == file_call.pc \in {"idle", "returned", "raised", "killed"}
Goto(pc) == file_call' = [file_call EXCEPT !.pc = pc]
Unchanged == UNCHANGED <<one_device, file_calls, faults>>
\* Variant: what is put aside is left there after an error.
RaisedAtOnce == [file_call EXCEPT !.pc = "raised"]

\* An exception: unpack_archive still removes what it has put aside.
Raised == IF file_call.op = "unpack" /\ file_call.mode # "keep"
          THEN [file_call EXCEPT !.pc = "cleanup", !.result = "raised"]
          ELSE [file_call EXCEPT !.pc = "raised"]
CallRaises == file_call' = Raised

Kill ==
    /\ ~Ended /\ faults < MaxFaults /\ faults' = faults + 1
    /\ Goto("killed")
    /\ UNCHANGED <<held, one_device, file_calls>>

\* Variant: the source is removed all the same.
AfterErrorRemoved ==
    IF file_call.pc = "copy" THEN [file_call EXCEPT !.pc = "remove"] ELSE Raised

AfterError == IF file_call.pc = "cleanup" THEN [file_call EXCEPT !.pc = "raised", !.result = "left"]
              ELSE Raised

\* A step of the call under way fails: no space, no permission, a bad archive.
Fail ==
    /\ file_call.pc \in {"extract", "clear", "copy", "remove", "sync", "cleanup"}
    /\ faults < MaxFaults /\ faults' = faults + 1
    /\ file_call' = AfterError
    /\ UNCHANGED <<held, one_device, file_calls>>

-----------------------------------------------------------------------------
(* mv and cp.                                                              *)

\* ls_paths: a path is a pattern, which may be for all that is not hidden.
Globbed(s) == IF Base(s) = "*" THEN {q \in Entries(Up(s)) : Base(q) \notin Hidden}
              ELSE {q \in FilePaths : q = AsPattern(s) /\ Exists(q)}
Matched(sources) == UNION {Globbed(s) : s \in sources}
Twice(sources) == {q \in FilePaths : \E s, t \in sources : s # t /\ q \in Globbed(s) \cap Globbed(t)}

\* The moves to make, none when mv raises.
MovesTo(sources, target) ==
    IF held[target] = IsDir
    THEN {<<s, Append(target, Base(s))>> : s \in Matched(sources)}
    ELSE IF Cardinality(Matched(sources)) = 1 /\ Twice(sources) = {}
    THEN {<<s, target>> : s \in Matched(sources)} ELSE {}

StartMove(op, sources, target) ==
    LET moves == MovesTo(sources, target)
    IN  /\ Ended /\ file_calls < MaxFileCalls /\ file_calls' = file_calls + 1
        /\ file_call' = [NoCall EXCEPT !.pc = IF moves = {} THEN "raised" ELSE "next",
                                       !.op = op, !.before = held, !.all = moves,
                                       !.moves = moves, !.again = Twice(sources)]
        /\ UNCHANGED <<held, one_device, faults>>

Source == file_call.now[1]
Target == file_call.now[2]

\* A rename as the system does it: not across devices, not of a directory into
\* itself, to a directory that has entries, or between a file and a directory.
Renames(src, dst) ==
    /\ one_device \/ src[1] = dst[1]
    /\ held[Up(dst)] = IsDir
    /\ IF held[src] = IsDir
       THEN ~Below(src, dst) /\ (~Exists(dst) \/ (held[dst] = IsDir /\ Entries(dst) = {}))
       ELSE held[dst] # IsDir

\* A path that is listed twice is not there the next time.
Repeated == file_call.now # <<>> /\ file_call.now[1] \in file_call.again

NextMove ==
    /\ file_call.pc = "next"
    /\ \/ Repeated /\ CallRaises
       \/ /\ ~Repeated /\ file_call.moves = {}
          /\ Goto(IF file_call.op = "unpack" THEN "cleanup" ELSE "returned")
       \/ \E m \in file_call.moves :
             /\ ~Repeated
             /\ file_call' = [file_call EXCEPT !.pc = IF file_call.op = "cp" THEN "copy"
                                                   ELSE "rename",
                                            !.now = m, !.moves = @ \ {m}]
    /\ UNCHANGED held /\ Unchanged

Rename ==
    /\ file_call.pc = "rename"
    /\ IF Exists(Source) /\ Renames(Source, Target)
       THEN /\ held' = [q \in FilePaths |->
                 IF Below(Target, q)
                 THEN IF Place(q, Target, Source) \in FilePaths
                      THEN held[Place(q, Target, Source)] ELSE Missing
                 ELSE IF Below(Source, q) THEN Missing ELSE held[q]]
            /\ Goto("next")
       ELSE Goto("fallback") /\ UNCHANGED held
    /\ Unchanged

\* move_file refuses after a rename that failed.  A link that is in the way of
\* a link makes symlink_to raise, one more reason.
Refused(src, dst) ==
    \/ ~Exists(src) \/ held[Up(dst)] # IsDir
    \/ held[src] \in Links /\ Exists(dst)
    \/ held[src] = IsDir /\ (Below(src, dst) \/ (Exists(dst) /\ held[dst] # IsDir)
                              \/ Entries(dst) # {})
    \/ held[src] # IsDir /\ held[dst] = IsDir

\* rm of a path, which is a pattern here too: recursive or not.
RemoveOne(tree, then) ==
    /\ IF tree = {} THEN then /\ UNCHANGED held
       ELSE \E q \in tree : /\ Entries(q) = {} /\ UNCHANGED file_call
                            /\ held' = [held EXCEPT ![q] = Missing]
    /\ Unchanged

\* A directory that matches when it is not recursive raises.
Remove(p, recursive, then) ==
    IF ~recursive /\ \E q \in Globbed(p) : held[q] = IsDir
    THEN CallRaises /\ UNCHANGED held /\ Unchanged
    ELSE RemoveOne(UNION {TreeOf(q) : q \in Globbed(p)}, then)

Fallback ==
    /\ file_call.pc = "fallback"
    /\ IF Refused(Source, Target) THEN CallRaises
       ELSE Goto(IF Exists(Target) THEN "clear" ELSE "copy")
    /\ UNCHANGED held /\ Unchanged

\* What is in the way goes before the copy.  copytree raises when it is still
\* there.
ClearTarget ==
    /\ file_call.pc = "clear"
    /\ Remove(Target, held[Source] = IsDir,
              IF held[Source] = IsDir /\ Exists(Target) THEN CallRaises ELSE Goto("copy"))

\* Each file is written and is then whole; the directory of an entry comes
\* first.  (cp of a directory to a place that exists raises.)
CopyOne ==
    LET left == {q \in TreeOf(Source) : held[Place(q, Source, Target)] # held[q]}
        there == file_call.op = "cp" /\ held[Source] = IsDir /\ Exists(Target)
                 /\ file_call.before[Target] # Missing
    IN  /\ file_call.pc = "copy"
        /\ IF there THEN CallRaises /\ UNCHANGED held
           ELSE IF left = {}
           THEN Goto(IF file_call.op = "cp" THEN "next" ELSE "remove") /\ UNCHANGED held
           ELSE \E q \in left :
                   LET p == Place(q, Source, Target)
                   IN  /\ held[Up(p)] = IsDir /\ UNCHANGED file_call
                       /\ \A o \in left \ {q} : held[Place(o, Source, Target)] # Cut
                       /\ held' = [held EXCEPT ![p] = IF held[q] = IsDir \/ @ = Cut
                                                        THEN held[q] ELSE Cut]
        /\ Unchanged

\* unlink for a link, or rm.
RemoveSource ==
    /\ file_call.pc = "remove"
    /\ IF held[Source] \in Links THEN held' = Without(Source) /\ Goto("next") /\ Unchanged
       ELSE Remove(Source, held[Source] = IsDir, Goto("next"))

-----------------------------------------------------------------------------
(* unpack_archive.                                                         *)

\* In a temporary directory, a new one, when the root directory is to go.
StartUnpack(archive, mode, delete) ==
    /\ Ended /\ file_calls < MaxFileCalls /\ file_calls' = file_calls + 1
    /\ LET base == IF mode = "keep" THEN Dest ELSE Aside
           refused == held[Dest] # IsDir
       IN  /\ file_call' = [NoCall EXCEPT
                 !.pc = IF refused THEN "raised" ELSE "extract", !.op = "unpack",
                 !.mode = mode, !.delete = delete, !.archive = archive, !.base = base,
                 !.before = held, !.result = IF refused THEN "refused" ELSE "none"]
           /\ held' = IF mode = "keep" \/ refused THEN held
                       ELSE [Without(Aside) EXCEPT ![Aside] = IsDir]
    /\ UNCHANGED <<one_device, faults>>

Members == DOMAIN file_call.archive
At(member) == file_call.base \o member

\* One member; a directory in the way of a file, or a file in the way of a
\* directory, raises.
Extract ==
    LET left == {q \in Members : held[At(q)] # file_call.archive[q]}
    IN  /\ file_call.pc = "extract"
        /\ IF left = {} THEN Goto("inspect") /\ UNCHANGED held
           ELSE \E q \in left :
                   /\ Len(q) > 1 => Up(q) \notin left
                   /\ IF IsDir \in {held[At(q)], file_call.archive[q]} /\ Exists(At(q))
                      THEN CallRaises /\ UNCHANGED held
                      ELSE /\ UNCHANGED file_call
                           /\ held' = [held EXCEPT ![At(q)] = file_call.archive[q]]
        /\ Unchanged

\* What mv is given: the pattern "*", or the entries of the root directory, that
\* mv takes for patterns.
Given(base) == IF base = Aside THEN {Append(base, "*")} ELSE Entries(base)

Inspect ==
    /\ file_call.pc = "inspect"
    /\ LET roots == Entries(Aside)
           base == IF Cardinality(roots) = 1 THEN CHOOSE r \in roots : TRUE ELSE Aside
           moves == {<<q, Append(Dest, Base(q))>> : q \in Matched(Given(base))}
       IN  IF file_call.mode = "keep" THEN Goto("returned")
           ELSE IF roots = {} THEN Goto("cleanup")
           ELSE IF \/ base = Aside /\ file_call.mode = "remove"
                   \/ held[base] # IsDir
                   \/ Entries(Dest) = {} /\ moves = {}
           THEN CallRaises
           ELSE file_call' = [file_call EXCEPT
                    !.pc = IF Entries(Dest) = {} THEN "next" ELSE "sync",
                    !.moves = moves, !.again = Twice(Given(base)), !.base = base]
    /\ UNCHANGED held /\ Unchanged

\* sync_tree, entry by entry (see SyncTree).
SyncOne ==
    LET base == file_call.base
        source(p) == LET q == Place(p, Dest, base)
                     IN  IF q \in FilePaths THEN held[q] ELSE Missing
        left == {p \in FilePaths :
                   /\ Below(Dest, p) /\ p # Dest /\ held[p] # source(p)
                   /\ source(p) = Missing => file_call.delete}
    IN  /\ file_call.pc = "sync"
        /\ IF left = {} THEN Goto("cleanup") /\ UNCHANGED held
           ELSE \E p \in left :
                   /\ held[Up(p)] = IsDir /\ UNCHANGED file_call
                   /\ held' = [Without(p) EXCEPT ![p] =
                        IF source(p) \notin {Missing, IsDir} /\ held[p] # Cut THEN Cut
                        ELSE source(p)]
        /\ Unchanged

Cleanup ==
    /\ file_call.pc = "cleanup"
    /\ RemoveOne(TreeOf(Aside),
                 Goto(IF file_call.result = "raised" THEN "raised" ELSE "returned"))

FileNext ==
    \/ \E c \in MoveCalls : StartMove(c.op, c.sources, c.target)
    \/ \E c \in UnpackCalls : StartUnpack(c.archive, c.mode, c.delete)
    \/ NextMove \/ Rename \/ Fallback \/ ClearTarget \/ CopyOne \/ RemoveSource
    \/ Extract \/ Inspect \/ SyncOne \/ Cleanup
    \/ Kill \/ Fail

FileSpec == FileInit /\ [][FileNext]_fileVars

-----------------------------------------------------------------------------
(* Properties.                                                             *)

\* What the patterns match that the paths of mv are taken for, when rm removes
\* what has been copied and what is in the way of a copy.
Mistaken(p) ==
    /\ file_call.op = "mv"
    /\ \E m \in file_call.all, i \in {1, 2} :
          AsPattern(m[i]) # m[i] /\ Below(AsPattern(m[i]), p)

MovedWhere(Q(_, _)) ==
    \A m \in file_call.all : \A q \in FilePaths :
       LET old == file_call.before[q]
           new == held[Place(q, m[1], m[2])]
       IN  Below(m[1], q) /\ old # Missing /\ Q(q, Place(q, m[1], m[2])) =>
              /\ file_call.op = "mv" /\ old # IsDir => old \in {held[q], new}
              /\ file_call.op = "mv" /\ file_call.pc = "returned" =>
                    new = old /\ (AsPattern(m[1]) = m[1] => ~Exists(q))
              /\ file_call.op = "cp" => held[q] = old
              /\ file_call.op = "cp" /\ file_call.pc = "returned" => new = old

\* mv across devices, killed or failing anywhere: what each file held is still
\* whole, where it was or where it goes; and when mv returns it is there, and
\* there only if its name is its own pattern.  cp leaves the sources and what it
\* copies is whole.  This is not so of what a name that is a pattern matches.
MoveRight == MovedWhere(LAMBDA q, to : ~Mistaken(q) /\ ~Mistaken(to))

\* "The implementation follows shutil.move": whatever their names, the files that
\* are moved are whole where they were or where they go.  They are not: between
\* two devices the file "c" is lost when "[c]" is moved.
MovedWhole == MovedWhere(LAMBDA q, to : TRUE)

\* The members that are to be found in the destination, and how they are named
\* there.
Wanted(archive, mode) ==
    LET roots == {q \in DOMAIN archive : Len(q) = 1}
        strip == mode # "keep" /\ Cardinality(roots) = 1
    IN  {q \in DOMAIN archive : ~strip \/ Len(q) > 1}
Named(archive, mode, q) ==
    IF mode # "keep" /\ Cardinality({r \in DOMAIN archive : Len(r) = 1}) = 1 THEN Tail(q) ELSE q

UnpackedWhere(Q(_)) ==
    LET archive == file_call.archive
    IN  file_call.op = "unpack" /\ file_call.pc = "returned" =>
           \A q \in Wanted(archive, file_call.mode) :
              Q(q) => held[Dest \o Named(archive, file_call.mode, q)] = archive[q]

\* unpack_archive: an archive whose names mean nothing to a shell is in the
\* destination, whole, when the call returns, whatever an earlier call that was
\* killed has left there; so is what was there before and is not of the archive,
\* unless it is to be deleted.  A call that has raised before anything is moved
\* leaves the destination as it was, and nothing is left aside.
UnpackRight ==
    LET named == {Dest \o Named(file_call.archive, file_call.mode, q) :
                    q \in Wanted(file_call.archive, file_call.mode)}
        Plain(q) == \A i \in DOMAIN q : q[i] \notin Hidden \cup Special
    IN  /\ UnpackedWhere(Plain)
        /\ file_call.op = "unpack" =>
              /\ \A p \in FilePaths \ named :
                    /\ Below(Dest, p) /\ ~file_call.delete
                    /\ \A q \in named : Below(q, p) => held[q] = IsDir
                    => held[p] = file_call.before[p]
              /\ file_call.pc \in {"returned", "raised"} /\ file_call.mode # "keep" =>
                    \/ TreeOf(Aside) = {} \/ file_call.result \in {"left", "refused"}
              /\ file_call.mode # "keep" /\ file_call.pc \in {"extract", "inspect"} =>
                    \A p \in TreeOf(Dest) : held[p] = file_call.before[p]

\* Whatever their names, the members of an archive are all in the destination
\* when unpack_archive returns.
UnpackedWhole == UnpackedWhere(LAMBDA q : TRUE)
=============================================================================
