------------------------------ MODULE Checkouts ------------------------------
(***************************************************************************)
(* e3.anod.checkout: CheckoutManager.update, that brings a working         *)
(* directory to the revision of a repository, over GitRepository and       *)
(* SVNRepository.  Between two calls the repositories get new revisions    *)
(* and the directory is written to; a command may fail, and the process    *)
(* may be killed, at any step.                                             *)
(*                                                                         *)
(* git, svn and sync_tree (see SyncTree) are modelled by what the manager  *)
(* relies on.                                                              *)
(***************************************************************************)
EXTENDS Naturals, FiniteSets

CONSTANTS Urls, Vcs,      \* Vcs[url]: "git", "svn" or "external"
          MaxUpdates,
          MaxChanges      \* by others, and mishaps

ASSUME VcsAssumption == Vcs \in [Urls -> {"git", "svn", "external"}]
ASSUME NoneAssumption == "none" \notin Urls

VARIABLES repository,     \* url -> its last revision
          wd,             \* the working directory
          remotes,        \* the remotes git knows: <<name, url>>
          update,         \* the call under way
          json,           \* the metadata and changelog files
          updates, editions, mishaps

checkoutVars == <<repository, wd, remotes, update, json, updates, editions, mishaps>>

Rev(url, n) == [url |-> url, n |-> n]
NoRev == Rev("none", 0)

\* tree: the revision whose files it holds; half: not all of them; edited: some
\* modified; extra: others besides; git, svn: what HEAD and .svn say; locked: a
\* command was killed.
NoDirectory == [dir |-> FALSE, tree |-> NoRev, half |-> FALSE, edited |-> FALSE,
                extra |-> FALSE, is_git |-> FALSE, git |-> NoRev, svn |-> NoRev,
                locked |-> FALSE]
NoJson == [old |-> NoRev, new |-> NoRev, changelog |-> FALSE]
NoUpdate == [pc |-> "idle", since |-> 0, url |-> CHOOSE u \in Urls : TRUE, changelog |-> FALSE,
             wanted |-> NoRev, was |-> NoDirectory, old |-> NoRev, new |-> NoRev,
             result |-> "none"]

CheckoutInit ==
    /\ repository = [u \in Urls |-> 1]
    /\ wd = NoDirectory /\ remotes = {} /\ update = NoUpdate /\ json = NoJson
    /\ updates = 0 /\ editions = 0 /\ mishaps = 0

Over == update.pc \in {"idle", "returned"}
Then(pc) == update' = [update EXCEPT !.pc = pc]
Counted == UNCHANGED <<repository, updates, editions, mishaps>>

\* Revisions come at any time, other changes between two calls.
Commit(u) ==
    /\ editions + mishaps < MaxChanges /\ editions' = editions + 1
    /\ repository' = [repository EXCEPT ![u] = @ + 1]
    /\ UNCHANGED <<wd, remotes, update, json, updates, mishaps>>

EditFile ==
    /\ Over /\ editions + mishaps < MaxChanges /\ editions' = editions + 1
    /\ \/ wd.dir /\ wd' = [wd EXCEPT !.extra = TRUE]
       \/ wd.tree # NoRev /\ wd' = [wd EXCEPT !.edited = TRUE]
       \/ wd.locked /\ wd' = [wd EXCEPT !.locked = FALSE]
    /\ update' = NoUpdate
    /\ UNCHANGED <<repository, remotes, json, updates, mishaps>>

\* update: the changelog is removed first.
StartUpdate(url, changelog) ==
    /\ Over /\ updates < MaxUpdates /\ updates' = updates + 1
    /\ update' = [NoUpdate EXCEPT !.pc = Vcs[url], !.url = url, !.changelog = changelog,
                                  !.was = wd, !.since = repository[url]]
    /\ json' = [json EXCEPT !.changelog = FALSE]
    /\ UNCHANGED <<repository, wd, remotes, editions, mishaps>>

\* The end of update: the metadata are written whatever the result.
WriteMetadata ==
    /\ update.pc = "metadata"
    /\ json' = [json EXCEPT !.old = update.old, !.new = update.new]
    /\ Then("returned")
    /\ UNCHANGED <<wd, remotes>> /\ Counted

Result(old, new) == IF old = new THEN "unchanged" ELSE "success"

-----------------------------------------------------------------------------
(* git.                                                                    *)

\* Variant: one remote for all urls.
RemoteOrigin(url) == "origin"

\* git_remote_name: a name for each url.
RemoteName(url) == url

\* init, and the remote if its name is not known.  HEAD is read.
GitInit ==
    /\ update.pc = "git"
    /\ wd' = [wd EXCEPT !.dir = TRUE, !.is_git = TRUE,
                        !.extra = @ \/ (wd.tree # NoRev /\ ~wd.is_git)]
    /\ LET known == IF wd.is_git THEN remotes ELSE {}
           name == RemoteName(update.url)
       IN  remotes' = IF \E r \in known : r[1] = name THEN known
                      ELSE known \cup {<<name, update.url>>}
    /\ update' = [update EXCEPT !.pc = "fetch", !.old = wd.git]
    /\ UNCHANGED json /\ Counted

Fetch ==
    /\ update.pc = "fetch"
    /\ \E r \in remotes :
          /\ r[1] = RemoteName(update.url)
          /\ update' = [update EXCEPT !.pc = "checkout",
                                      !.wanted = Rev(r[2], repository[r[2]])]
    /\ UNCHANGED <<wd, remotes, json>> /\ Counted

\* checkout --force: modified files are lost, others stay.
CheckedOut(rev) == [wd EXCEPT !.tree = rev, !.half = FALSE, !.edited = FALSE, !.git = rev]

Checkout ==
    /\ update.pc = "checkout"
    /\ IF wd.locked THEN update' = [update EXCEPT !.pc = "metadata", !.result = "failure"]
                         /\ UNCHANGED wd
       ELSE /\ wd' = CheckedOut(update.wanted)
            /\ update' = [update EXCEPT !.pc = "stash", !.new = update.wanted]
    /\ UNCHANGED <<remotes, json>> /\ Counted

\* stash --include-untracked, if status has anything to say.
Stashed == [wd EXCEPT !.extra = FALSE, !.svn = NoRev]

Stash ==
    /\ update.pc = "stash"
    /\ wd' = Stashed
    /\ update' = [update EXCEPT !.result = Result(update.old, update.new),
                                !.pc = IF update.changelog THEN "log" ELSE "metadata"]
    /\ UNCHANGED <<remotes, json>> /\ Counted

WriteLog ==
    /\ update.pc = "log"
    /\ json' = [json EXCEPT !.changelog = TRUE]
    /\ Then("metadata")
    /\ UNCHANGED <<wd, remotes>> /\ Counted

-----------------------------------------------------------------------------
(* svn.                                                                    *)

IsClean == ~wd.edited /\ ~wd.extra /\ ~wd.locked /\ ~wd.is_git

\* Variant: a clean working copy is updated, whatever it is of.
UpdatesAnyCopy == wd.svn # NoRev /\ IsClean

\* SVNRepository.update in place, or after everything has been removed.
UpdatesInPlace == wd.svn # NoRev /\ IsClean /\ wd.svn.url = update.url

SvnStart ==
    /\ update.pc = "svn"
    /\ update' = [update EXCEPT !.old = wd.svn,
            !.wanted = LET of == IF UpdatesInPlace THEN wd.svn.url ELSE update.url
                       IN  Rev(of, repository[of]),
            !.pc = "svn command"]
    /\ wd' = IF UpdatesInPlace THEN wd ELSE [NoDirectory EXCEPT !.dir = TRUE]
    /\ UNCHANGED <<remotes, json>> /\ Counted

\* current_revision: a number.
SvnCommand ==
    /\ update.pc = "svn command"
    /\ wd' = [wd EXCEPT !.tree = update.wanted, !.svn = update.wanted, !.half = FALSE]
    /\ update' = [update EXCEPT !.pc = "metadata", !.new = update.wanted,
                                !.result = Result(update.old.n, update.wanted.n)]
    /\ UNCHANGED <<remotes, json>> /\ Counted

-----------------------------------------------------------------------------
(* A directory.                                                            *)

\* The state of the tree before and after, of all its files.  A file that was
\* modified may be taken for what was copied.
SyncExternal ==
    /\ update.pc = "external"
    /\ \E kept \in {FALSE, wd.edited} :
          LET now == Rev(update.url, repository[update.url])
              after == [NoDirectory EXCEPT !.dir = TRUE, !.tree = now,
                                           !.edited = kept /\ wd.tree.url = update.url]
          IN  /\ wd' = after
              /\ update' = [update EXCEPT !.pc = "metadata", !.wanted = now,
                                          !.old = wd.tree, !.new = now,
                                          !.result = Result(wd, after)]
    /\ UNCHANGED <<remotes, json>> /\ Counted

-----------------------------------------------------------------------------
\* A command under way may leave half of what it does; when it is killed it
\* leaves a lock too.
Halfway(killed) ==
    \/ UNCHANGED wd
    \/ /\ update.pc \in {"checkout", "svn command", "external"} /\ ~wd.locked
       /\ wd' = [wd EXCEPT !.half = TRUE, !.dir = TRUE,
                    !.svn = IF update.pc = "svn command" /\ @ = NoRev
                            THEN Rev(update.url, 0) ELSE @,
                    !.tree = IF @ = NoRev THEN Rev(update.url, repository[update.url]) ELSE @,
                    !.locked = killed /\ update.pc # "external"]

\* A GitError or a SVNError is a failure, what sync_tree raises is raised.
CommandFails ==
    /\ update.pc \in {"fetch", "checkout", "stash", "log", "svn command", "external"}
    /\ editions + mishaps < MaxChanges /\ mishaps' = mishaps + 1
    /\ Halfway(FALSE)
    /\ update' = IF update.pc = "external" THEN NoUpdate
                 ELSE [update EXCEPT !.pc = "metadata", !.result = "failure"]
    /\ UNCHANGED <<repository, remotes, json, updates, editions>>

UpdateKilled ==
    /\ ~Over /\ editions + mishaps < MaxChanges /\ mishaps' = mishaps + 1
    /\ Halfway(TRUE) /\ update' = NoUpdate
    /\ UNCHANGED <<repository, remotes, json, updates, editions>>

CheckoutNext ==
    \/ \E u \in Urls : Commit(u)
    \/ \E u \in Urls, changelog \in BOOLEAN :
          (changelog => Vcs[u] = "git") /\ StartUpdate(u, changelog)
    \/ EditFile \/ WriteMetadata \/ GitInit \/ Fetch \/ Checkout \/ Stash \/ WriteLog
    \/ SvnStart \/ SvnCommand \/ SyncExternal \/ CommandFails \/ UpdateKilled

CheckoutSpec == CheckoutInit /\ [][CheckoutNext]_checkoutVars

-----------------------------------------------------------------------------
(* Properties.                                                             *)

Done == update.pc = "returned" /\ update.result \in {"success", "unchanged"}

\* Whatever was done to the directory, by others, by calls for other
\* repositories or by calls that were cut: update returns success or unchanged
\* when it has exactly the files of a revision of this url, the last or one that
\* came during the call, and the two files tell of this call: the changelog is
\* there whenever git was asked for one, that is also after the first checkout
\* and when nothing changed (see ChangelogOfChanges).  It says unchanged when it already had them, unless
\* they were of another url and svn was asked (see SwitchIsReported).
CheckoutRight ==
    /\ Done =>
          /\ wd.tree.url = update.url /\ wd.tree.n >= update.since /\ ~wd.half /\ ~wd.extra
          /\ wd.edited => Vcs[update.url] = "external" /\ update.was.edited
          /\ json = [old |-> update.old, new |-> wd.tree,
                     changelog |-> Vcs[update.url] = "git" /\ update.changelog]
          /\ update.result = "unchanged" =>
                \/ update.was.tree = wd.tree
                \/ Vcs[update.url] = "svn" /\ update.was.tree.url # update.url
    /\ update.pc = "returned" /\ update.result = "failure" => ~json.changelog

\* "If this is the inital checkout or there are no changes then the file will not
\* be created", as CheckoutManager says of its changelog.  It is created.
ChangelogOfChanges ==
    update.pc = "returned" /\ json.changelog =>
        update.old # NoRev /\ update.old # update.new

\* checkout_test.py: "Check that we can switch from one svn url to another", with
\* success: a call that changes the files of the directory to those of another
\* url does not say that they are unchanged.
SwitchIsReported ==
    Done /\ update.was.tree.url # wd.tree.url => update.result = "success"
=============================================================================
