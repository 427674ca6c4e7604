------------------------------ MODULE SyncTree ------------------------------
(***************************************************************************)
(* e3.fs.sync_tree: the caller's thread walks both trees and queues work   *)
(* from what it saw; one worker thread does it, until its first error.     *)
(* Others may write to both trees, and the process may be killed, at any   *)
(* time; what counts is what the next call makes of it.                    *)
(*                                                                         *)
(* A path is the sequence of its names.  Two contents have one size; a     *)
(* copy that was cut is smaller.  An edit and a copy are never made at     *)
(* the same time.                                                          *)
(***************************************************************************)
EXTENDS Integers, Sequences, FiniteSets

CONSTANTS Paths,          \* the paths below the two roots, and <<>>
          Calls,          \* the arguments of the calls
          MaxEvents,      \* edits and failures
          MaxSyncs

ASSUME PathsAssumption ==
    <<>> \in Paths /\ \A p \in Paths : p # <<>> => SubSeq(p, 1, Len(p) - 1) \in Paths

VARIABLES source_tree, target, \* path -> node
          sync,           \* the call under way: its arguments and its two threads
          entries,        \* FilesInfo still to yield
          io_queue,
          worker,         \* the work io_task is doing
          edits, syncs, failures,
          quiet,          \* no one else has written since the call began
          alone           \* what others have written so far, see Alone

syncVars == <<source_tree, target, sync, entries, io_queue, worker, edits, syncs, failures,
              quiet, alone>>

Half == 0
Node(type, content, time) == [type |-> type, content |-> content, time |-> time]
Absent == Node("none", 0, 0)
Directory == Node("dir", 0, 0)
Size(node) == IF node.content = Half THEN 1 ELSE 2

Parent(p) == SubSeq(p, 1, Len(p) - 1)
Under(p) == {q \in Paths : Len(q) > Len(p) /\ SubSeq(q, 1, Len(p)) = p}
Children(p) == {q \in Under(p) : Len(q) = Len(p) + 1}
Prefix(p, q) == Len(p) <= Len(q) /\ SubSeq(q, 1, Len(p)) = p
Suffix(p, q) == Len(p) <= Len(q) /\ SubSeq(q, Len(q) - Len(p) + 1, Len(q)) = p

\* Others have written neither to the target nor during a call; not to the
\* target during a call; or just anything.
Alone == 2
NotMeanwhile == 1
Disturbed == 0

NoWork == [pc |-> "idle", op |-> "none", path |-> <<>>, src |-> Absent, dst |-> Absent]
EmptyTree == [p \in Paths |-> Absent]
EmptyRoot == [EmptyTree EXCEPT ![<<>>] = Directory]

SyncInit ==
    /\ source_tree = EmptyRoot /\ target \in {EmptyTree, EmptyRoot}
    /\ sync = [pc |-> "idle", args |-> CHOOSE c \in Calls : TRUE, fast |-> TRUE,
               before |-> EmptyTree]
    /\ entries = {} /\ io_queue = <<>> /\ worker = NoWork
    /\ edits = 0 /\ syncs = 0 /\ failures = 0
    /\ quiet = TRUE /\ alone = Alone

\* Someone writes a file, makes a link or a directory, or removes a path.
EditOf(tree, p, node) ==
    LET new == [tree EXCEPT ![p] = node]
    IN  IF node.type = "dir" THEN new
        ELSE [q \in Paths |-> IF q \in Under(p) THEN Absent ELSE new[q]]

\* The time of what sync_tree writes: after the last edit.
Now == 2 * edits + 1

EditNode(type, content) ==
    IF type = "none" THEN Absent
    ELSE IF type = "dir" THEN Directory ELSE Node(type, content, 2 * (edits + 1))

Write(p, type, content) ==
    /\ edits + failures < MaxEvents /\ edits' = edits + 1
    /\ p # <<>>
    /\ \/ /\ source_tree[Parent(p)].type = "dir" /\ {source_tree[p].type, type} # {"none"}
          /\ source_tree' = EditOf(source_tree, p, EditNode(type, content))
          /\ alone' = IF sync.pc # "idle" /\ alone = Alone THEN NotMeanwhile ELSE alone
          /\ UNCHANGED target
       \/ /\ target[Parent(p)].type = "dir" /\ {target[p].type, type} # {"none"}
          /\ target' = EditOf(target, p, EditNode(type, content))
          /\ alone' = IF sync.pc # "idle" \/ alone = Disturbed THEN Disturbed ELSE NotMeanwhile
          /\ UNCHANGED source_tree
    /\ quiet' = FALSE
    /\ UNCHANGED <<sync, entries, io_queue, worker, syncs, failures>>

-----------------------------------------------------------------------------
(* The walk.                                                               *)

\* is_in_ignore_list: patterns from the root, of the end of a path (both whole
\* names, see Trie.match) or of a name.
IsIgnored(p) ==
    \E pattern \in sync.args.ignore :
       \/ pattern.kind = "prefix" /\ Prefix(pattern.path, p)
       \/ pattern.kind = "suffix" /\ Suffix(pattern.path, p)
       \/ pattern.kind = "name" /\ p[Len(p)] = pattern.path[1]

\* is_in_file_list: a listed path, what is below it, and what leads to it.  No
\* list at all is the list of the root; an empty list lists nothing.
IsListed(p) == \E f \in sync.args.file_list : Prefix(f, p) \/ Prefix(p, f)

\* need_update
NeedUpdate(src, dst) ==
    /\ ~(src.type = "dir" /\ dst.type = "dir")
    /\ \/ src.type # dst.type
       \/ sync.args.preserve_timestamps /\ src.time # dst.time
       \/ Size(src) # Size(dst)
       \/ ~sync.args.preserve_timestamps /\ src.type = "file" /\ src.time >= dst.time

Entry(p, src, dst) == [path |-> p, src |-> src, dst |-> dst]

\* What a directory has when it is read, by an ignored or unlisted name as if
\* the source had it not.
Scan(entry) ==
    {Entry(p, IF IsIgnored(p) \/ ~IsListed(p) THEN Absent ELSE source_tree[p],
           IF entry.dst.type = "dir" THEN target[p] ELSE Absent) :
        p \in {q \in Children(entry.path) :
                 /\ \/ source_tree[q] # Absent
                    \/ entry.dst.type = "dir" /\ target[q] # Absent
                 /\ IsIgnored(q) => sync.args.delete_ignore}}

StartSync(args) ==
    /\ sync.pc = "idle" /\ syncs < MaxSyncs
    /\ syncs' = syncs + 1
    /\ sync' = [pc |-> "walk", args |-> args, fast |-> TRUE, before |-> target]
    /\ entries' = {Entry(<<>>, source_tree[<<>>], target[<<>>])}
    /\ io_queue' = <<>> /\ worker' = NoWork
    /\ quiet' = TRUE
    /\ UNCHANGED <<source_tree, target, edits, failures, alone>>

\* One entry of the walk: its work is queued, and it is read if it is a
\* directory.
Walk1(entry) ==
    LET gone == entry.src = Absent
        work == IF gone THEN IF entry.dst # Absent /\ sync.args.delete THEN "rm" ELSE "none"
                ELSE IF ~NeedUpdate(entry.src, entry.dst) THEN "none"
                ELSE IF entry.src.type = "dir" THEN "mkdir" ELSE "copy"
    IN  /\ sync.pc = "walk" /\ entry \in entries
        /\ entries' = (entries \ {entry})
                         \cup (IF entry.src.type = "dir" THEN Scan(entry) ELSE {})
        /\ io_queue' = IF work = "none" THEN io_queue
                       ELSE Append(io_queue, [pc |-> "begin", op |-> work,
                                              path |-> entry.path, src |-> entry.src,
                                              dst |-> entry.dst])
        /\ UNCHANGED <<source_tree, target, sync, worker, edits, syncs, failures, quiet, alone>>

-----------------------------------------------------------------------------
(* The worker.                                                             *)

WorkerBecomes(new, tree) ==
    /\ worker' = new /\ target' = tree
    /\ UNCHANGED <<source_tree, entries, edits, syncs, quiet, alone>>

Take ==
    /\ sync.pc = "walk" /\ worker.pc = "idle" /\ io_queue # <<>>
    /\ WorkerBecomes(Head(io_queue), target)
    /\ io_queue' = Tail(io_queue) /\ UNCHANGED <<sync, failures>>

InTarget(p) == target[p] # Absent
Leaves(p) == {q \in {p} \cup Under(p) : InTarget(q) /\ \A c \in Children(q) : ~InTarget(c)}

\* The old node of another type is removed first, leaf after leaf; rm does
\* nothing else.
MustGo ==
    \/ worker.op = "rm"
    \/ worker.op = "mkdir" /\ worker.dst.type \in {"file", "link"}
    \/ worker.op = "copy" /\ worker.src.type = "link" /\ worker.dst # Absent
       /\ (worker.dst.type = "link" => target[worker.path].content # worker.src.content)
    \/ worker.op = "copy" /\ worker.src.type = "file" /\ worker.dst.type \in {"dir", "link"}

RemoveEntry(p) ==
    /\ worker.pc = "begin" /\ MustGo /\ p \in Leaves(worker.path)
    /\ WorkerBecomes(worker, [target EXCEPT ![p] = Absent])
    /\ UNCHANGED <<sync, io_queue, failures>>

Ready == worker.pc = "begin" /\ (MustGo => ~InTarget(worker.path))

RmDone ==
    /\ Ready /\ worker.op = "rm"
    /\ WorkerBecomes(NoWork, target) /\ UNCHANGED <<sync, io_queue, failures>>

\* Whether the parent is there when a node is made: someone may have removed it.
Room == worker.path = <<>> \/ target[Parent(worker.path)].type = "dir"

\* safe_mkdir
MakeDirectory ==
    /\ Ready /\ worker.op = "mkdir" /\ Room /\ target[worker.path].type \in {"none", "dir"}
    /\ WorkerBecomes(NoWork, [target EXCEPT ![worker.path] = Directory])
    /\ UNCHANGED <<sync, io_queue, failures>>

\* safe_copy of a link; its time is not copied.  One with the right target is
\* left there.
CopyLink ==
    /\ Ready /\ worker.op = "copy" /\ worker.src.type = "link" /\ Room
    /\ ~InTarget(worker.path) \/ target[worker.path].type = "link"
    /\ WorkerBecomes(NoWork, IF InTarget(worker.path) THEN target
                     ELSE [target EXCEPT ![worker.path] =
                              Node("link", worker.src.content, Now)])
    /\ UNCHANGED <<sync, io_queue, failures>>

\* Variant: the times are copied before the content.
CopyTimesFirst ==
    LET time == IF sync.args.preserve_timestamps THEN worker.src.time ELSE Now
        Written(content) == [target EXCEPT ![worker.path] = Node("file", content, time)]
    IN  /\ worker.op = "copy" /\ worker.src.type = "file" /\ Room
        /\ target[worker.path].type \in {"none", "file"}
        /\ \/ Ready /\ WorkerBecomes([worker EXCEPT !.pc = "half"],
                             Written(IF InTarget(worker.path) THEN target[worker.path].content
                                     ELSE Half))
           \/ worker.pc = "half" /\ source_tree[worker.path].type = "file"
              /\ WorkerBecomes(NoWork, Written(source_tree[worker.path].content))
        /\ UNCHANGED <<sync, io_queue, failures>>

\* safe_copy of a file, by the fast way or the generic one: truncated, written
\* from the source as it is now, and given the time the walk has seen.
CopyFile ==
    LET cut == [target EXCEPT ![worker.path] = Node("file", Half, Now)]
        full == [target EXCEPT ![worker.path] = Node("file", source_tree[worker.path].content, Now)]
    IN  /\ worker.op = "copy" /\ worker.src.type = "file" /\ Room
        /\ target[worker.path].type \in {"none", "file"}
        /\ \/ Ready /\ WorkerBecomes([worker EXCEPT !.pc = "half"], cut)
           \/ worker.pc = "half" /\ source_tree[worker.path].type = "file"
              /\ WorkerBecomes([worker EXCEPT !.pc = "full"], full)
           \/ /\ worker.pc = "full"
              /\ WorkerBecomes(NoWork, [target EXCEPT ![worker.path].time =
                                   IF sync.args.preserve_timestamps THEN worker.src.time
                                   ELSE Now])
        /\ UNCHANGED <<sync, io_queue, failures>>

\* The fast way fails: from now on the generic one is taken, after the file
\* that was there is removed.
FastFails ==
    /\ worker.pc \in {"half", "full"} /\ sync.fast /\ edits + failures < MaxEvents
    /\ failures' = failures + 1
    /\ sync' = [sync EXCEPT !.fast = FALSE]
    /\ WorkerBecomes([worker EXCEPT !.pc = "begin"],
             IF worker.dst # Absent /\ target[worker.path].type # "dir"
             THEN [target EXCEPT ![worker.path] = Absent] ELSE target)
    /\ UNCHANGED io_queue

\* The work raises, because of the system or of what others have done: the
\* worker stops, and sync_tree raises when the walk has ended.
WorkFails ==
    /\ worker.pc # "idle"
    /\ edits + failures < MaxEvents /\ failures' = failures + 1
    /\ WorkerBecomes([NoWork EXCEPT !.pc = "broken"], target)
    /\ UNCHANGED <<sync, io_queue>>

\* A step that others have made impossible raises too.
Stuck ==
    \/ worker.op # "rm" /\ ~Room
    \/ Ready /\ worker.op = "mkdir" /\ target[worker.path].type \notin {"none", "dir"}
    \/ /\ Ready /\ worker.op = "copy" /\ worker.src.type = "link"
       /\ target[worker.path].type \notin {"none", "link"}
    \/ /\ worker.op = "copy" /\ worker.src.type = "file" /\ (Ready \/ worker.pc # "begin")
       /\ \/ target[worker.path].type \notin {"none", "file"}
          \/ source_tree[worker.path].type # "file"

WorkImpossible ==
    /\ worker.pc \notin {"idle", "broken"} /\ Stuck
    /\ WorkerBecomes([NoWork EXCEPT !.pc = "broken"], target)
    /\ UNCHANGED <<sync, io_queue, failures>>

-----------------------------------------------------------------------------
\* The walk is over and the worker has done all, or has stopped.
EndSync ==
    /\ sync.pc = "walk" /\ entries = {}
    /\ \/ worker.pc = "idle" /\ io_queue = <<>>
       \/ worker.pc = "broken"
    /\ sync' = [sync EXCEPT !.pc = IF worker.pc = "broken" THEN "raised" ELSE "returned"]
    /\ UNCHANGED <<source_tree, target, entries, io_queue, worker, edits, syncs, failures,
                   quiet, alone>>

SyncKilled ==
    /\ sync.pc = "walk" /\ edits + failures < MaxEvents /\ failures' = failures + 1
    /\ sync' = [sync EXCEPT !.pc = "raised"]
    /\ worker' = NoWork
    /\ UNCHANGED <<source_tree, target, entries, io_queue, edits, syncs, quiet, alone>>

\* The caller has the answer.
Answered ==
    /\ sync.pc \in {"returned", "raised"}
    /\ sync' = [sync EXCEPT !.pc = "idle", !.before = EmptyTree]
    /\ entries' = {} /\ io_queue' = <<>> /\ worker' = NoWork
    /\ UNCHANGED <<source_tree, target, edits, syncs, failures, quiet, alone>>

SyncNext ==
    \/ \E p \in Paths, content \in {1, 2}, type \in {"none", "file", "link", "dir"} :
          Write(p, type, content)
    \/ \E args \in Calls : StartSync(args)
    \/ \E entry \in entries : Walk1(entry)
    \/ Take \/ \E p \in Paths : RemoveEntry(p)
    \/ RmDone \/ MakeDirectory \/ CopyLink \/ CopyFile
    \/ FastFails \/ WorkFails \/ WorkImpossible
    \/ EndSync \/ SyncKilled \/ Answered

SyncSpec == SyncInit /\ [][SyncNext]_syncVars

-----------------------------------------------------------------------------
(* Properties.                                                             *)

\* The paths the walk comes to, and those it takes from the source.
Walked(p) == \A n \in 0..(Len(p) - 1) :
    LET q == SubSeq(p, 1, n)
    IN  source_tree[q].type = "dir" /\ (q # <<>> => ~IsIgnored(q) /\ IsListed(q))
IsWanted(p) == p = <<>> \/ (~IsIgnored(p) /\ IsListed(p) /\ source_tree[p] # Absent)

\* After a call that returned, with no one writing meanwhile, every path the
\* walk comes to is as its source, is gone, or is as it was: whatever earlier
\* calls, cut or failed half-way, have left, if no one else wrote to the target
\* during them.  Without the times of the source to compare no one else may have
\* written to the target, or during a call, and links are compared by size alone.
SyncedRight ==
    sync.pc = "returned" /\ quiet =>
       \A p \in Paths : Walked(p) =>
          IF IsWanted(p)
          THEN \/ target[p].type = source_tree[p].type /\ target[p].content = source_tree[p].content
               \/ alone = Disturbed
               \/ /\ ~sync.args.preserve_timestamps
                  /\ alone # Alone \/ source_tree[p].type = "link"
          ELSE IF (IF IsIgnored(p) THEN sync.args.delete_ignore ELSE TRUE) /\ sync.args.delete
          THEN ~InTarget(p)
          ELSE target[p] = sync.before[p] \/ sync.before[Parent(p)].type # "dir"

\* "if empty synchronize all files", as sync_tree says of file_list.  An empty
\* list synchronizes no file, and has those of the target deleted.
EmptyListIsAll ==
    sync.pc = "returned" /\ quiet /\ alone = Alone /\ sync.args.file_list = {} =>
       \A p \in Paths : Walked(p) /\ ~IsIgnored(p) /\ source_tree[p] # Absent => InTarget(p)
=============================================================================
