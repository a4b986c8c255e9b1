-------------------------------- MODULE Vendor --------------------------------
(***************************************************************************)
(* Runs of the vendoring script (util/vendor.py, main) in a git work tree: *)
(* each run reads the lock file, may refresh the patch directory, clones   *)
(* the upstream repository, replaces the target directory, rewrites the    *)
(* lock file and may commit.  Upstream moves on meanwhile, and a run may   *)
(* be interrupted, or a program it calls may fail, between any two steps.  *)
(*                                                                         *)
(* A patch is known by its number, which is its place in the order of      *)
(* names, and changes one file.  Errors in the description are the subject *)
(* of VendorDesc, the copying of several mapping entries of VendorImport.  *)
(***************************************************************************)
EXTENDS Naturals, FiniteSets

CONSTANTS
  Url, Rev, File,
  Tree,          \* Tree[r]: files of the vendored directory at revision r
  Patch,         \* numbers of the patches there are
  PatchFile,     \* PatchFile[p]: the file patch p changes
  Exported,      \* the patches the patch repository exports
  Args,          \* command lines: update, refresh, commit, upstream url and rev
  Branch,        \* an upstream.rev that names a branch
  NoLock,        \* the lock file does not exist
  Truncated,     \* the lock file is empty
  NoLog,         \* no list of changes
  MaxMoves, MaxFailures   \* bounds on upstream's moves and on failed steps

Lock    == [url : Url, rev : Rev]
Options == [update : BOOLEAN, refresh : BOOLEAN, commit : BOOLEAN,
            url : Url, rev : Rev \cup {Branch}]

ASSUME DataAssumption ==
  /\ Tree \in [Rev -> SUBSET File]
  /\ Patch \subseteq Nat
  /\ PatchFile \in [Patch -> File]
  /\ Exported \subseteq Patch
  /\ Args \subseteq Options
  /\ Branch \notin Rev
  /\ NoLock # Truncated /\ NoLock \notin Lock /\ Truncated \notin Lock
  /\ NoLog \notin Rev \X Rev
  /\ MaxMoves \in Nat /\ MaxFailures \in Nat

VARIABLES
  lock, target, patches,   \* the work tree: lock file, target_dir, patch_dir
  index, head,             \* what git has staged, and the last commit
  log,                     \* the list of changes in the last commit's message
  stray,                   \* a commit has used patches it does not contain
  branch, known, moves,    \* upstream: heads, revisions it has, moves so far
  pc, args, loaded,        \* the run: its place, its options, the lock it read
  upstream, clone,         \* desc.upstream, and the clone made of it
  applied, shortlog,       \* patches applied, changes since the lock it read
  outcome, failures        \* how the last run ended, failed steps so far

work  == <<lock, target, patches>>
git   == <<index, head, log, stray>>
world == <<branch, known, moves>>
local == <<args, loaded, upstream, clone, applied, shortlog>>
vars  == <<work, git, world, local, pc, outcome, failures>>

Content  == [rev : Rev, patches : SUBSET Patch]
Snapshot == [lock : Lock \cup {NoLock}, patches : SUBSET Patch,
             target : UNION {[D -> Content] : D \in SUBSET File}]
NoFiles  == [f \in {} |-> f]

\* What an import of revision r with patches ps leaves in the target directory.
Imported(r, ps) ==
  [f \in Tree[r] |-> [rev |-> r, patches |-> {p \in ps : PatchFile[p] = f}]]

-----------------------------------------------------------------------------
(* The run. *)

Goto(label)  == pc' = label /\ UNCHANGED outcome
Exit(result) == pc' = "idle" /\ outcome' = result

Run(a) ==
  /\ pc = "idle"
  /\ args' = a /\ loaded' = NoLock /\ upstream' = [url |-> a.url, rev |-> a.rev]
  /\ applied' = {} /\ shortlog' = NoLog
  /\ pc' = "load" /\ outcome' = "running"
  /\ UNCHANGED <<work, git, world, clone, failures>>

\* A lock file without an upstream field is a JsonError.
Load ==
  /\ pc = "load"
  /\ IF lock = Truncated THEN Exit("failed") ELSE Goto("prepare")
  /\ loaded' = lock
  /\ UNCHANGED <<work, git, world, args, upstream, clone, applied, shortlog, failures>>

\* git status --untracked-files=no: nothing staged, no tracked file changed.
\* Mutant: the work tree is always taken for clean.
CleanAlways == TRUE
git_is_clean_workdir ==
  /\ index = head
  /\ head.lock # NoLock => lock = head.lock
  /\ head.patches \subseteq patches
  /\ \A f \in DOMAIN head.target : f \in DOMAIN target /\ target[f] = head.target[f]

\* Mutant: without --update the description still names the upstream.
UpstreamUnlocked == [url |-> args.url, rev |-> args.rev]
desc_upstream ==
  IF loaded # NoLock /\ ~args.update THEN loaded ELSE [url |-> args.url, rev |-> args.rev]

Prepare ==
  /\ pc = "prepare"
  /\ args' = [args EXCEPT !.update = @ \/ loaded = NoLock]
  /\ upstream' = desc_upstream
  /\ IF args.commit /\ ~git_is_clean_workdir
       THEN Exit("failed")
       ELSE Goto(IF args.refresh THEN "unlink" ELSE "clone")
  /\ UNCHANGED <<work, git, world, loaded, clone, applied, shortlog, failures>>

\* refresh_patches: the old patches go one by one, then the new ones come.
Unlink ==
  /\ pc = "unlink"
  /\ IF patches = {}
       THEN UNCHANGED patches /\ Goto("export")
       ELSE (\E p \in patches : patches' = patches \ {p}) /\ Goto("unlink")
  /\ UNCHANGED <<lock, target, git, world, local, failures>>

Export ==
  /\ pc = "export"
  /\ patches' = Exported
  /\ Goto("clone")
  /\ UNCHANGED <<lock, target, git, world, local, failures>>

\* clone_git_repo and the tests on the clone: its revision must be the locked
\* one unless it is updated, and the vendored subdirectory must exist.
Revision == IF upstream.rev = Branch THEN branch[upstream.url] ELSE upstream.rev

\* Mutant: the test for a revision mismatch is made in update mode too.
MismatchAlways == loaded # NoLock /\ Revision # loaded.rev
Mismatch == ~args.update /\ Revision # loaded.rev

Clone ==
  /\ pc = "clone"
  /\ clone' = [rev |-> Revision, known |-> known[upstream.url]]
  /\ IF Revision \notin known[upstream.url] \/ Mismatch \/ Tree[Revision] = {}
       THEN Exit("failed") ELSE Goto("remove")
  /\ UNCHANGED <<work, git, world, args, loaded, upstream, applied, shortlog, failures>>

\* Desc.import_from_upstream: the old files go, then each file is copied.
\* Mutant: the target directory is not removed first.
KeepFiles == UNCHANGED target
RemoveFiles == target' = NoFiles

RemoveTarget ==
  /\ pc = "remove"
  /\ RemoveFiles
  /\ Goto("copy")
  /\ UNCHANGED <<lock, patches, git, world, local, failures>>

Copy ==
  /\ pc = "copy"
  /\ \E f \in Tree[clone.rev] \ DOMAIN target :
          target' = [g \in DOMAIN target \cup {f} |->
                       IF g = f THEN [rev |-> clone.rev, patches |-> {}] ELSE target[g]]
  /\ Goto("copy")
  /\ UNCHANGED <<lock, patches, git, world, local, failures>>

Copied ==
  /\ pc = "copy"
  /\ Tree[clone.rev] \subseteq DOMAIN target
  /\ Goto("patch")
  /\ UNCHANGED <<work, git, world, local, failures>>

\* The patches are applied in the order of their names; git apply fails when
\* the file is not there.
ApplyPatch ==
  /\ pc = "patch"
  /\ \E p \in patches \ applied :
       /\ \A q \in patches \ applied : p <= q
       /\ applied' = applied \cup {p}
       /\ IF PatchFile[p] \in DOMAIN target
            THEN /\ target' = [target EXCEPT ![PatchFile[p]] =
                             [rev |-> @.rev, patches |-> @.patches \cup {p}]]
                 /\ Goto("patch")
            ELSE UNCHANGED target /\ Exit("failed")
  /\ UNCHANGED <<lock, patches, git, world, args, loaded, upstream, clone, shortlog, failures>>

\* produce_shortlog: empty when the old revision is no longer in the clone.
Summarize ==
  /\ pc = "patch" /\ patches \subseteq applied
  /\ shortlog' = IF /\ args.update /\ loaded # NoLock
                    /\ args.url = loaded.url /\ loaded.rev \in clone.known
                   THEN <<loaded.rev, clone.rev>> ELSE NoLog
  /\ Goto(IF args.update THEN "open" ELSE IF args.commit THEN "add" ELSE "end")
  /\ UNCHANGED <<work, git, world, args, loaded, upstream, clone, applied, failures>>

\* Opening the lock file empties it; its text reaches it when it is closed.
OpenLock ==
  /\ pc = "open"
  /\ lock' = Truncated
  /\ Goto("dump")
  /\ UNCHANGED <<target, patches, git, world, local, failures>>

lock_data == [url |-> upstream.url, rev |-> clone.rev]

DumpLock ==
  /\ pc = "dump"
  /\ lock' = lock_data
  /\ Goto(IF args.commit THEN "add" ELSE "end")
  /\ UNCHANGED <<target, patches, git, world, local, failures>>

\* git_add_commit: git add of the target, of the patches if they were
\* refreshed, and of the lock; then git commit, whose failure is a warning.
\* Mutants: the lock is not staged, or the patches always are.
StagedAlways == [lock |-> lock, target |-> target, patches |-> patches]
StagedNoLock == [lock |-> index.lock, target |-> target,
                 patches |-> IF args.refresh THEN patches ELSE index.patches]
commit_paths == [lock |-> lock, target |-> target,
                 patches |-> IF args.refresh THEN patches ELSE index.patches]

Add ==
  /\ pc = "add"
  /\ index' = commit_paths
  /\ Goto("commit")
  /\ UNCHANGED <<work, head, log, stray, world, local, failures>>

Commit ==
  /\ pc = "commit"
  /\ IF index = head THEN UNCHANGED <<head, log, stray>>
     ELSE /\ head' = index
          /\ log' = shortlog
          /\ stray' = (patches # index.patches)
  /\ Goto("end")
  /\ UNCHANGED <<work, index, world, local, failures>>

CommitFails ==
  /\ pc = "commit"
  /\ failures < MaxFailures
  /\ failures' = failures + 1
  /\ Goto("end")
  /\ UNCHANGED <<work, git, world, local>>

ImportFinished ==
  /\ pc = "end"
  /\ Exit("finished")
  /\ UNCHANGED <<work, git, world, local, failures>>

\* A program called fails, or the run is interrupted: nothing is undone.  A
\* format-patch may have written some of its patches, an rmtree have removed
\* some of the files.
Fail ==
  /\ pc # "idle"
  /\ failures < MaxFailures
  /\ failures' = failures + 1
  /\ Exit("failed")
  /\ IF pc = "export" THEN patches' \in SUBSET Exported ELSE UNCHANGED patches
  /\ IF pc = "remove"
       THEN \E D \in SUBSET DOMAIN target : target' = [f \in D |-> target[f]]
       ELSE UNCHANGED target
  /\ UNCHANGED <<lock, git, world, local>>

-----------------------------------------------------------------------------
(* Upstream, and the developer between two runs. *)

\* A branch gains a commit, or is rewritten and loses the ones it had.
UpstreamMoves ==
  /\ moves < MaxMoves
  /\ moves' = moves + 1
  /\ \E u \in Url, r \in Rev :
       /\ branch' = [branch EXCEPT ![u] = r]
       /\ known' \in {[known EXCEPT ![u] = @ \cup {r}], [known EXCEPT ![u] = {r}]}
  /\ UNCHANGED <<work, git, local, pc, outcome, failures>>

\* git stash, as the message of the clean-tree check advises.
Stash ==
  /\ pc = "idle" /\ ~git_is_clean_workdir
  /\ index' = head
  /\ lock' = IF head.lock # NoLock THEN head.lock
             ELSE IF index.lock # NoLock THEN NoLock ELSE lock
  /\ patches' = (patches \ index.patches) \cup head.patches
  /\ target' = [f \in (DOMAIN target \ DOMAIN index.target) \cup DOMAIN head.target |->
                  IF f \in DOMAIN head.target THEN head.target[f] ELSE target[f]]
  /\ outcome' = "edited"
  /\ UNCHANGED <<head, log, stray, world, local, pc, failures>>

\* The developer removes a lock file that cannot be read.
RemoveLock ==
  /\ pc = "idle" /\ lock = Truncated
  /\ lock' = NoLock
  /\ outcome' = "edited"
  /\ UNCHANGED <<target, patches, git, world, local, pc, failures>>

\* The developer writes a patch and does not give it to git.
AddPatch ==
  /\ pc = "idle"
  /\ \E p \in Patch \ patches : patches' = patches \cup {p}
  /\ outcome' = "edited"
  /\ UNCHANGED <<lock, target, git, world, local, pc, failures>>

Init ==
  /\ lock = NoLock /\ target = NoFiles
  /\ patches \in SUBSET Patch
  /\ head = [lock |-> NoLock, patches |-> patches, target |-> NoFiles]
  /\ index = head
  /\ log = NoLog /\ shortlog = NoLog /\ stray = FALSE
  /\ branch \in [Url -> Rev] /\ known = [u \in Url |-> {branch[u]}]
  /\ args \in Args /\ loaded = NoLock
  /\ upstream = [url |-> args.url, rev |-> args.rev]
  /\ clone \in {[rev |-> branch[u], known |-> known[u]] : u \in {args.url}}
  /\ applied = {}
  /\ pc = "idle" /\ outcome = "edited"
  /\ moves = 0 /\ failures = 0

Step == \/ Load \/ Prepare \/ Unlink \/ Export \/ Clone
        \/ RemoveTarget \/ Copy \/ Copied \/ ApplyPatch \/ Summarize
        \/ OpenLock \/ DumpLock \/ Add \/ Commit \/ ImportFinished

Next == \/ \E a \in Args : Run(a)
        \/ Step \/ CommitFails \/ Fail
        \/ UpstreamMoves \/ Stash \/ RemoveLock \/ AddPatch

Spec == Init /\ [][Next]_vars

\* Runs go on, the developer clears an unreadable lock and tries to update.
LiveSpec ==
  /\ Spec
  /\ WF_vars(Step)
  /\ SF_vars(\E a \in Args : a.update /\ ~a.commit /\ ~a.refresh /\ Run(a))
  /\ SF_vars(RemoveLock)

-----------------------------------------------------------------------------
TypeOK ==
  /\ lock \in Lock \cup {NoLock, Truncated}
  /\ target \in UNION {[D -> Content] : D \in SUBSET File}
  /\ patches \subseteq Patch /\ applied \subseteq Patch
  /\ index \in Snapshot /\ head \in Snapshot
  /\ log \in (Rev \X Rev) \cup {NoLog} /\ shortlog \in (Rev \X Rev) \cup {NoLog}
  /\ stray \in BOOLEAN
  /\ branch \in [Url -> Rev] /\ known \in [Url -> SUBSET Rev]
  /\ pc \in {"idle", "load", "prepare", "unlink", "export", "clone", "remove",
             "copy", "patch", "open", "dump", "add", "commit", "end"}
  /\ args \in Options
  /\ loaded \in Lock \cup {NoLock, Truncated}
  /\ upstream \in [url : Url, rev : Rev \cup {Branch}]
  /\ clone \in [rev : Rev, known : SUBSET Rev]
  /\ outcome \in {"running", "finished", "failed", "edited"}
  /\ moves \in 0..MaxMoves /\ failures \in 0..MaxFailures

\* "Import finished" means what it says: the target directory is exactly the
\* locked revision with every patch of the patch directory, whatever state
\* earlier failed or interrupted runs left and wherever the branch is by now.
FinishedAgrees ==
  outcome = "finished" => lock \in Lock /\ target = Imported(lock.rev, patches)

\* A commit can be reproduced from itself: its target is the revision of its
\* lock file with its patches, unless patches git did not know were used, and
\* without a lock file there is nothing to reproduce.
HeadReproducible ==
  IF head.lock = NoLock THEN head.target = NoFiles
  ELSE \E ps \in SUBSET Patch : /\ head.target = Imported(head.lock.rev, ps)
                                /\ stray \/ ps = head.patches

\* A commit replaces the patches by all those of the patch repository or not
\* at all: a refresh that failed half-way is never committed.
PatchesCommittedWhole ==
  [][head'.patches # head.patches => head'.patches = Exported]_vars

\* The list of changes in a commit begins at the revision of the commit before,
\* although it is computed from the lock file of the work tree.
CommitLogComplete ==
  [][head' # head /\ head.lock # NoLock /\ log' # NoLog
       => log' = <<head.lock.rev, head'.lock.rev>>]_vars

\* Without --update the locked revision can be fetched as long as upstream has
\* it, wherever the branch, or the description, points by now.
LockedRevisionFetched ==
  [][pc = "clone" /\ ~args.update /\ loaded.rev \in known[loaded.url]
       /\ failures' = failures /\ pc' # pc => pc' = "remove"]_vars

\* Whatever failed, updating again ends well once failures stop, provided a
\* lock file left empty is removed by hand.
Recovers == []<>(outcome = "finished")
=============================================================================
