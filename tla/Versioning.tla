----------------------------- MODULE Versioning -----------------------------
(***************************************************************************)
(* The local Git history of one project (src/backend/src/versioning): the  *)
(* flush worker, manual revisions, the outbound checkpoint's flush, and    *)
(* fetch and push over smart HTTP, against the transactions of the browser *)
(* editors.  Every Git operation holds the process-local project lock, so  *)
(* there is at most one (`op'); an editor's transaction does not take that *)
(* lock and commits between any two of its steps.                          *)
(*                                                                         *)
(* A file is the set of changes (atoms) applied to it, or Absent; an edit  *)
(* or a pushed commit adds one atom to one file or removes the file.       *)
(***************************************************************************)
EXTENDS Integers, Sequences, FiniteSets

CONSTANTS
    Edits,        \* changes made in the browser
    Pushes,       \* commits made in the owner's clone and pushed
    Paths,        \* the project's paths
    TextPaths,    \* those that hold text; the others are binary assets
    Main,         \* the entry file
    Starters,     \* the sets of paths a project may have in the beginning
    Absent,       \* no file at a path
    Conflict,     \* a path the merge cannot settle
    MaxCommits,   \* a revision or a checkpoint is asked for below this many commits
    MaxLate,      \* rows that are written with an old time at once
    MaxFaults     \* failures of the database, the disk, storage or Git, and
                  \* stops of the process or of the request's task

ASSUME PathsAssumption ==
    /\ TextPaths \subseteq Paths /\ Main \in TextPaths
    /\ \A paths \in Starters : Main \in paths /\ paths \subseteq Paths
ASSUME AtomsAssumption == Edits \cap Pushes = {}

VARIABLES
    content,   \* the Workspace: documents and assets
    version,   \* projects.workspace_version
    pending,   \* git_repositories.pending_sync
    queued,    \* a row of project_sync_queue
    due,       \* the flush worker has listed the project
    authors,   \* git_pending_authors and git_pending_guest_authors
    synced,    \* git_repositories.last_server_sync_at is set
    touched,   \* paths changed since the sync it is the time of
    unseen,    \* those of them whose row has an older time
    commits,   \* the commits of the repository, in the order they were made
    head,      \* the default branch: the number of its commit, 0 when unborn
    worktree,  \* the files beside .git
    op,        \* the operation that holds the project lock
    clone,     \* the commit the owner's clone is at
    answer,    \* what the last push was answered
    made,      \* the edits made and the commits pushed so far
    astray,    \* what Git and the database disagree on, see the properties
    faults     \* the failures and the stops so far

project == <<content, version, pending, queued, authors, touched, unseen, synced>>
repository == <<commits, head, worktree, due>>
vars == <<project, repository, op, clone, answer, made, astray, faults>>

Atoms == Edits \cup Pushes
File == {Absent} \cup SUBSET Atoms
Tree == [Paths -> File]
NoFiles == [p \in Paths |-> Absent]

Commit == [parent : Nat, tree : Tree, authors : SUBSET Edits]

(* The files of a revision. *)
TreeAt(n) == IF n = 0 THEN NoFiles ELSE commits[n].tree

(* The commits reachable from n: those in every set of commits that holds  *)
(* n and the parents of its members.                                       *)
Closed(S) == \A m \in S : commits[m].parent \in S \cup {0}
Ancestors(n) ==
    {k \in DOMAIN commits :
        /\ n /= 0
        /\ \A S \in SUBSET DOMAIN commits : n \in S /\ Closed(S) => k \in S}

Idle == [kind |-> "idle", at |-> "none", cfg |-> FALSE, before |-> 0,
         files |-> NoFiles, version |-> 0, staged |-> NoFiles, mat |-> 0,
         may |-> FALSE, next |-> "none"]
Kinds == {"flush", "revision", "checkpoint", "fetch", "push"}
NoAnswer == [what |-> "none", commit |-> 0, kept |-> FALSE]

Locked == op.kind /= "idle"
Working(at) == Locked /\ op.at = at
Goto(at) == [op EXCEPT !.at = at]

(* git status: nothing differs between the worktree and the head. *)
WorktreeIsClean == worktree = TreeAt(head)

Init ==
    /\ \E paths \in Starters : content = [p \in Paths |-> IF p \in paths THEN {} ELSE Absent]
    /\ version = 0 /\ pending = TRUE /\ queued = TRUE /\ authors = {}
    /\ synced = FALSE /\ touched = Paths /\ unseen = {}
    /\ commits = <<>> /\ head = 0 /\ worktree = NoFiles /\ due = FALSE
    /\ op = Idle /\ clone = 0 /\ answer = NoAnswer
    /\ made = {} /\ astray = {} /\ faults = 0

-----------------------------------------------------------------------------
(* The Workspace's side: an editor's transaction.                          *)

(* record_workspace_change, in the transaction that changes the content at *)
(* `paths'; the rows at `hidden' do not show that they are new.            *)
Dirty(e, paths, hidden) ==
    /\ version' = version + 1
    /\ pending' = TRUE /\ queued' = TRUE
    /\ authors' = authors \cup {e}
    /\ touched' = touched \cup paths
    /\ unseen' = (unseen \ paths) \cup hidden
    /\ UNCHANGED synced

(* The row a transaction writes has the time it began at, which is before  *)
(* the last sync if it waited for that to commit.                          *)
Stamps(p) == {{}} \cup IF synced /\ Cardinality(unseen) < MaxLate THEN {{p}} ELSE {}

(* What one change makes of a file: a line added to a text, a new asset. *)
Written(file, a, p) ==
    IF file = Absent \/ p \notin TextPaths THEN {a} ELSE file \cup {a}

Edit(e, p) ==
    /\ e \notin made
    /\ \/ /\ content' = [content EXCEPT ![p] = Written(@, e, p)]
          /\ \E hidden \in Stamps(p) : Dirty(e, {p}, hidden)
       \/ /\ p /= Main /\ content[p] /= Absent
          /\ content' = [content EXCEPT ![p] = Absent]
          /\ Dirty(e, {p}, {})
    /\ made' = made \cup {e}
    /\ UNCHANGED <<repository, op, clone, answer, astray, faults>>

(* move_subtree, of one file to a free path of its kind: to Git one file   *)
(* is removed and another added, by whoever moved it.  A document gets a   *)
(* new time, an asset keeps its own.                                       *)
Move(e, p, q) ==
    /\ e \notin made
    /\ p /= Main /\ content[p] /= Absent /\ content[q] = Absent
    /\ p \in TextPaths <=> q \in TextPaths
    /\ content' = [content EXCEPT ![p] = Absent, ![q] = {e}]
    /\ \/ p \in TextPaths /\ \E hidden \in Stamps(q) : Dirty(e, {p, q}, hidden)
       \/ p \notin TextPaths /\ Dirty(e, {p, q}, IF p \in touched \ unseen THEN {} ELSE {q})
    /\ made' = made \cup {e}
    /\ UNCHANGED <<repository, op, clone, answer, astray, faults>>

-----------------------------------------------------------------------------
(* The project lock, and what every operation begins with.                 *)

(* The flush worker lists the projects whose queue entry is due and marks  *)
(* its attempt; then it waits for the project's lock.                      *)
ListDueProjects ==
    /\ queued /\ ~due
    /\ due' = TRUE
    /\ UNCHANGED <<project, commits, head, worktree, op, clone, answer, made, astray, faults>>

FlushWorker ==
    /\ ~Locked /\ due
    /\ due' = FALSE
    /\ op' = [Idle EXCEPT !.kind = "flush", !.at = "config"]
    /\ UNCHANGED <<project, commits, head, worktree, clone, answer, made, astray, faults>>

CreateRevision ==
    /\ ~Locked /\ made /= {} /\ Len(commits) < MaxCommits
    /\ op' = [Idle EXCEPT !.kind = "revision", !.at = "snapshot", !.next = "commit"]
    /\ UNCHANGED <<project, repository, clone, answer, made, astray, faults>>

(* The checkpoint's worker marks the repository pending, then flushes it. *)
FlushForCheckpoint ==
    /\ ~Locked /\ made /= {} /\ ~pending /\ Len(commits) < MaxCommits
    /\ op' = [Idle EXCEPT !.kind = "checkpoint", !.at = "config"]
    /\ pending' = TRUE
    /\ UNCHANGED <<content, version, queued, authors, touched, unseen, synced, repository, clone,
                   answer, made, astray, faults>>

(* The request of an authenticated reader (fetch) or of the owner (push): *)
(* its configuration is loaded once, before anything else.                *)
GitHttpBackend(kind) ==
    /\ ~Locked
    /\ IF kind = "fetch" THEN clone /= head \/ pending
                         ELSE Pushes \ made /= {} /\ clone /= 0
    /\ op' = [Idle EXCEPT !.kind = kind, !.cfg = pending,
                          !.at = IF kind = "push" THEN "capture"
                                 ELSE IF pending THEN "config" ELSE "backend"]
    /\ answer' = IF kind = "push" THEN NoAnswer ELSE answer
    /\ UNCHANGED <<project, repository, clone, made, astray, faults>>

-----------------------------------------------------------------------------
(* flush_pending_server_commit.                                            *)

AfterFlush == IF op.kind = "fetch" THEN "backend" ELSE "done"

LoadRepository ==
    /\ Working("config")
    /\ op' = [op EXCEPT !.at = IF pending THEN "snapshot" ELSE "queue", !.next = "commit"]
    /\ UNCHANGED <<project, repository, clone, answer, made, astray, faults>>

(* Fault: the queue entry is cleared without looking at the repository again. *)
ClearQueueAlways ==
    /\ Working("queue")
    /\ queued' = FALSE
    /\ op' = Goto(AfterFlush)
    /\ UNCHANGED <<content, version, pending, authors, touched, unseen, synced, repository, clone,
                   answer, made, astray, faults>>

(* The queue entry goes only when the repository is still clean. *)
ClearQueueIfClean ==
    /\ Working("queue")
    /\ queued' = (queued /\ pending)
    /\ op' = Goto(AfterFlush)
    /\ UNCHANGED <<content, version, pending, authors, touched, unseen, synced, repository, clone,
                   answer, made, astray, faults>>

(* sync_project_documents_to_repo: a snapshot staged beside the worktree ... *)
Snapshot ==
    /\ Working("snapshot")
    /\ op' = [op EXCEPT !.at = "replace", !.mat = version, !.staged = content]
    /\ UNCHANGED <<project, repository, clone, answer, made, astray, faults>>

(* ... that replaces it. *)
ReplaceWorktree ==
    /\ Working("replace")
    /\ worktree' = op.staged
    /\ op' = Goto(op.next)
    /\ UNCHANGED <<project, commits, head, due, clone, answer, made, astray, faults>>

NewCommit(parent, tree, who) ==
    /\ commits' = Append(commits, [parent |-> parent, tree |-> tree, authors |-> who])
    /\ head' = Len(commits) + 1

(* The authors credited: those pending when the commit is made. *)
CommitAuthors == authors

(* A flush commits a worktree that differs from the head, a revision always. *)
CommitStaged ==
    /\ Working("commit")
    /\ IF WorktreeIsClean /\ op.kind /= "revision"
         THEN UNCHANGED <<commits, head>>
         ELSE NewCommit(head, worktree, CommitAuthors)
    /\ op' = Goto("complete")
    /\ UNCHANGED <<project, worktree, due, clone, answer, made, astray, faults>>

Synced ==
    /\ pending' = FALSE /\ authors' = {} /\ queued' = FALSE
    /\ synced' = TRUE /\ touched' = {} /\ unseen' = {}

(* Fault: completion without the comparison of the versions. *)
CompleteUnchecked ==
    /\ Working("complete")
    /\ Synced /\ astray' = {}
    /\ op' = Goto(AfterFlush)
    /\ UNCHANGED <<content, version, repository, clone, answer, made, faults>>

(* complete_materialized_workspace_sync: nothing newer than the snapshot. *)
Complete ==
    /\ Working("complete")
    /\ IF op.mat = version
         THEN Synced /\ astray' = {}
         ELSE UNCHANGED <<pending, authors, queued, touched, unseen, synced, astray>>
    /\ op' = Goto(AfterFlush)
    /\ UNCHANGED <<content, version, repository, clone, answer, made, faults>>

-----------------------------------------------------------------------------
(* git http-backend.                                                       *)

(* git upload-pack. *)
UploadPack ==
    /\ Working("backend") /\ op.kind = "fetch"
    /\ clone' = head
    /\ op' = Goto("done")
    /\ UNCHANGED <<project, repository, answer, made, astray, faults>>

(* ReceivePackSession::capture. *)
CaptureSession ==
    /\ Working("capture")
    /\ op' = [op EXCEPT !.at = "backend", !.before = head,
                        !.files = content, !.version = version]
    /\ UNCHANGED <<project, repository, clone, answer, made, astray, faults>>

(* The trees the owner may push: one change of the clone's tree. *)
PushedTrees(c, p) ==
    LET t == TreeAt(clone)
    IN  {[t EXCEPT ![p] = Written(@, c, p)]}
          \cup IF t[p] = Absent THEN {} ELSE {[t EXCEPT ![p] = Absent]}

Moved == head /= op.before

(* git receive-pack under denyNonFastForwards and updateInstead, which     *)
(* wants a clean worktree; the backend may be cut off by its timeout or by *)
(* the drain before or after the branch moved.                             *)
ReceivePack(c, p) ==
    /\ Working("backend") /\ op.kind = "push" /\ c \notin made
    /\ made' = made \cup {c}
    /\ answer' = [NoAnswer EXCEPT !.commit = Len(commits) + 1]
    /\ \/ /\ clone = head /\ WorktreeIsClean
          /\ \E tree \in PushedTrees(c, p) :
                /\ NewCommit(clone, tree, {})
                /\ worktree' = tree
          /\ \/ op' = Goto("reconcile") /\ UNCHANGED faults
             \/ /\ faults < MaxFaults /\ faults' = faults + 1
                /\ op' = [op EXCEPT !.at = "restore", !.may = FALSE]
          /\ UNCHANGED due
       \/ /\ op' = Goto("reconcile")
          /\ clone /= head \/ ~WorktreeIsClean
          /\ UNCHANGED <<repository, faults>>
    /\ UNCHANGED <<project, clone, astray>>

Reject(may) == op' = [op EXCEPT !.at = "restore", !.may = may]

(* validate_default_ref_update. *)
ValidDefaultRefUpdate == op.before = 0 \/ op.before \in Ancestors(head)

(* reconcile: a branch that did not move is Git's own refusal; one that    *)
(* moved is merged with the online changes the configuration spoke of, or  *)
(* imported.                                                               *)
Reconcile ==
    /\ Working("reconcile")
    /\ op' = CASE ~Moved -> Goto("done")
               [] Moved /\ ~ValidDefaultRefUpdate -> [op EXCEPT !.at = "restore", !.may = FALSE]
               [] Moved /\ ValidDefaultRefUpdate ->
                    Goto(IF op.cfg THEN "merge" ELSE "import")
    /\ answer' = IF Moved THEN answer ELSE [answer EXCEPT !.what = "refused"]
    /\ UNCHANGED <<project, repository, clone, made, astray, faults>>

-----------------------------------------------------------------------------
(* merge_online_over_pushed.                                               *)

MergedText(base, pushed, online) ==
    (pushed \cap online) \cup (pushed \ base) \cup (online \ base)

(* The outcomes of merging one path; Conflict rejects the push.  Git     *)
(* decides by the lines: a text both sides changed may merge or conflict.  *)
MergeOutcomes(p, base, pushed, online) ==
    IF online = base THEN {pushed}
    ELSE IF pushed = base THEN {online}
    ELSE IF p \in TextPaths /\ Absent \notin {base, pushed, online}
         THEN {MergedText(base, pushed, online), Conflict}
    ELSE IF pushed = online THEN {pushed}
    ELSE {Conflict}

MergeOnlineOverPushed(base, pushed, online) ==
    {m \in [Paths -> UNION {MergeOutcomes(p, base[p], pushed[p], online[p]) : p \in Paths}] :
        \A p \in Paths : m[p] \in MergeOutcomes(p, base[p], pushed[p], online[p])}

(* replace_project_content behind the compare-and-swap on the version. *)
ReplaceContent(tree) ==
    /\ content' = tree
    /\ version' = version + 1
    /\ touched' = Paths /\ unseen' = {}
    /\ UNCHANGED <<pending, queued, authors, synced>>

(* sync_repo_documents_to_project: the outcome of an import of `tree'. *)
ApplyImport(tree, expected, then) ==
    \/ /\ expected /= version
       /\ Reject(FALSE) /\ UNCHANGED project
    \/ /\ expected = version /\ tree[Main] = Absent
       /\ Reject(FALSE) /\ UNCHANGED project
    \/ /\ expected = version /\ tree[Main] /= Absent
       /\ ReplaceContent(tree)
       /\ op' = [op EXCEPT !.at = then, !.mat = version + 1, !.next = "record"]

(* An import that fails: before it changed anything (a bad path or         *)
(* encoding, storage, the database) or with a commit whose answer is lost. *)
ImportFails(tree, expected) ==
    /\ faults < MaxFaults /\ faults' = faults + 1
    /\ \/ UNCHANGED project
       \/ expected = version /\ tree[Main] /= Absent /\ ReplaceContent(tree)

ImportPushedWorkspace ==
    /\ Working("import")
    /\ \/ ApplyImport(TreeAt(head), op.version, "record") /\ UNCHANGED faults
       \/ ImportFails(TreeAt(head), op.version) /\ Reject(TRUE)
    /\ UNCHANGED <<repository, clone, answer, made, astray>>

(* The merge of the online delta; the merged Workspace is then written to *)
(* the worktree.                                                          *)
MergeOnlineDelta ==
    /\ Working("merge")
    /\ \E merged \in MergeOnlineOverPushed(TreeAt(op.before), TreeAt(head), op.files) :
         IF \E p \in Paths : merged[p] = Conflict
         THEN Reject(FALSE) /\ UNCHANGED <<project, faults>>
         ELSE \/ ApplyImport(merged, op.version, "snapshot") /\ UNCHANGED faults
              \/ ImportFails(merged, op.version) /\ Reject(TRUE)
    /\ UNCHANGED <<repository, clone, answer, made, astray>>

(* Fault: last_server_sync_at moves although the Workspace changed. *)
RecordSyncTimeAlways ==
    /\ Working("record")
    /\ synced' = TRUE /\ touched' = {} /\ unseen' = {}
    /\ LET left == op.cfg /\ ~WorktreeIsClean
       IN  IF op.mat = version
           THEN /\ pending' = left
                /\ authors' = IF left THEN authors ELSE {}
                /\ queued' = (queued /\ left)
                /\ astray' = IF left THEN astray \cup {"merged"} ELSE {}
           ELSE UNCHANGED <<pending, authors, queued, astray>>
    /\ answer' = [answer EXCEPT !.what = "accepted"]
    /\ op' = Goto("done")
    /\ clone' = answer.commit
    /\ UNCHANGED <<content, version, repository, made, faults>>

(* record_receive_pack_sync: an import leaves nothing pending; a merge     *)
(* leaves the online changes to the next flush, unless there are none.     *)
RecordSync ==
    /\ Working("record")
    /\ LET left == op.cfg /\ ~WorktreeIsClean
       IN  IF op.mat = version
           THEN /\ pending' = left
                /\ authors' = IF left THEN authors ELSE {}
                /\ queued' = (queued /\ left)
                /\ synced' = TRUE /\ touched' = {} /\ unseen' = {}
                /\ astray' = IF left THEN astray \cup {"merged"} ELSE {}
           ELSE UNCHANGED <<pending, authors, queued, touched, unseen, synced, astray>>
    /\ answer' = [answer EXCEPT !.what = "accepted"]
    /\ op' = Goto("done")
    /\ clone' = answer.commit
    /\ UNCHANGED <<content, version, repository, made, faults>>

(* Fault: only the worktree is restored, the branch keeps the push. *)
RestoreWorktreeOnly ==
    /\ Working("restore")
    /\ worktree' = TreeAt(op.before)
    /\ op' = Goto(IF op.may THEN "undo" ELSE "reload")
    /\ UNCHANGED <<project, commits, head, due, clone, answer, made, astray, faults>>

-----------------------------------------------------------------------------
(* restore_rejected_push.                                                  *)

RestoreHead ==
    /\ Working("restore")
    /\ head' = op.before
    /\ worktree' = TreeAt(op.before)
    /\ op' = Goto(IF op.may THEN "undo" ELSE "reload")
    /\ UNCHANGED <<project, commits, due, clone, answer, made, astray, faults>>

(* A version one past the captured one is taken for this push's import. *)
RestoreWorkspace ==
    /\ Working("undo")
    /\ IF version = op.version + 1 THEN ReplaceContent(op.files) ELSE UNCHANGED project
    /\ answer' = [answer EXCEPT !.kept = version > op.version + 1]
    /\ op' = Goto("reload")
    /\ UNCHANGED <<repository, clone, made, astray, faults>>

(* What is pending is flushed; otherwise the worktree is written again. *)
ReloadRepository ==
    /\ Working("reload")
    /\ answer' = [answer EXCEPT !.what = "rejected"]
    /\ op' = IF pending THEN [op EXCEPT !.at = "snapshot", !.next = "commit"]
                        ELSE [op EXCEPT !.at = "snapshot", !.next = "resync"]
    /\ UNCHANGED <<project, repository, clone, made, astray, faults>>

(* The worktree just written is recorded as synced, committed or not. *)
RecordRestored ==
    /\ Working("resync")
    /\ IF op.mat = version
         THEN Synced /\ astray' = IF WorktreeIsClean THEN {} ELSE {"restored"}
         ELSE UNCHANGED <<pending, authors, queued, touched, unseen, synced, astray>>
    /\ op' = Goto("done")
    /\ UNCHANGED <<content, version, repository, clone, answer, made, faults>>

-----------------------------------------------------------------------------
(* The lock is released when the request or the worker's turn ends. *)
Release ==
    /\ Working("done")
    /\ op' = Idle
    /\ UNCHANGED <<project, repository, clone, answer, made, astray, faults>>

Restoring == op.kind = "push"
               /\ \/ op.at \in {"restore", "undo", "reload", "resync"}
                  \/ op.next \in {"commit", "resync"}

(* The branch has moved and the Workspace has not followed. *)
Unimported == op.kind = "push" /\ op.at \in {"reconcile", "import", "merge"} /\ Moved

(* A step of the database, the disk or Git fails: a push that has moved    *)
(* the branch is undone, anything else ends with its error.                *)
StepFails ==
    /\ faults < MaxFaults /\ faults' = faults + 1
    /\ op.at \in {"config", "snapshot", "replace", "commit", "complete", "capture",
                  "backend", "record", "restore", "undo", "reload", "resync"}
    /\ LET undo == op.kind = "push" /\ ~Restoring /\ op.at \in {"snapshot", "replace", "record"}
       IN  /\ op' = IF undo THEN [op EXCEPT !.at = "restore", !.may = TRUE] ELSE Goto("done")
           /\ answer' = IF op.kind = "push" /\ ~undo
                        THEN [answer EXCEPT !.what = "failed"] ELSE answer
           /\ astray' = IF Restoring THEN astray \cup {"restored"} ELSE astray
    /\ UNCHANGED <<project, repository, clone, made>>

(* The process stops, or the request's task is dropped: the lock is gone,  *)
(* a worktree being replaced is left half written.                         *)
Stop ==
    /\ Locked /\ op.at /= "done"
    /\ faults < MaxFaults /\ faults' = faults + 1
    /\ op' = Idle /\ due' \in {due, FALSE}
    /\ worktree' \in IF op.at = "replace"
                     THEN {worktree, op.staged, NoFiles} ELSE {worktree}
    /\ astray' = IF Restoring \/ Unimported
                 THEN astray \cup {"restored"} ELSE astray
    /\ UNCHANGED <<project, commits, head, clone, answer, made>>

OpStep ==
    \/ LoadRepository \/ ClearQueueIfClean \/ Snapshot \/ ReplaceWorktree
    \/ CommitStaged \/ Complete \/ UploadPack \/ CaptureSession
    \/ \E c \in Pushes, p \in Paths : ReceivePack(c, p)
    \/ Reconcile \/ ImportPushedWorkspace \/ MergeOnlineDelta \/ RecordSync
    \/ RestoreHead \/ RestoreWorkspace \/ ReloadRepository \/ RecordRestored
    \/ Release

Next ==
    \/ \E e \in Edits, p \in Paths : Edit(e, p) \/ \E q \in Paths : Move(e, p, q)
    \/ ListDueProjects \/ FlushWorker \/ CreateRevision \/ FlushForCheckpoint
    \/ \E kind \in {"fetch", "push"} : GitHttpBackend(kind)
    \/ OpStep
    \/ StepFails \/ Stop

Spec == Init /\ [][Next]_vars

(* The operation that holds the lock goes on, and the flush worker, which  *)
(* looks every few seconds, takes the lock again and again: the mutex is   *)
(* fair.                                                                   *)
FairSpec == Spec /\ WF_vars(OpStep) /\ WF_vars(ListDueProjects) /\ SF_vars(FlushWorker)

-----------------------------------------------------------------------------
(* Properties.                                                             *)

TypeOK ==
    /\ content \in Tree /\ worktree \in Tree
    /\ version \in Nat /\ pending \in BOOLEAN /\ queued \in BOOLEAN /\ due \in BOOLEAN
    /\ authors \subseteq Edits /\ touched \subseteq Paths /\ unseen \subseteq touched
    /\ \A n \in DOMAIN commits : commits[n] \in Commit /\ commits[n].parent < n
    /\ head \in 0..Len(commits) /\ clone \in 0..Len(commits)
    /\ op.kind \in Kinds \cup {"idle"}
    /\ made \subseteq Atoms
    /\ astray \subseteq {"merged", "restored"}

Holds(file, a) == file /= Absent /\ a \in file

(* With the lock free, an edit of the Workspace that the head does not     *)
(* hold is still pending: the repository is marked, queued for the worker  *)
(* and the edit's author waits to be credited; and a repository that is    *)
(* not marked is the Workspace.  (Completion of an older snapshot cannot   *)
(* clear newer dirty or contributor state.)  A push that was cut off or    *)
(* whose recovery failed is excepted until the next flush completes.       *)
UncommittedIsPending ==
    ~Locked /\ "restored" \notin astray =>
        /\ \A e \in Edits, p \in Paths :
             Holds(content[p], e) /\ ~Holds(TreeAt(head)[p], e)
               => pending /\ queued /\ e \in authors
        /\ ~pending => content = TreeAt(head)

(* What a push added to the commit it was made on. *)
PushedIn(n) ==
    {c \in Pushes : /\ \E p \in Paths : Holds(TreeAt(n)[p], c)
                    /\ \A p \in Paths : ~Holds(TreeAt(commits[n].parent)[p], c)}

(* A push the owner was told is accepted stays in the branch's history; of *)
(* one that was rejected neither the branch nor, unless newer edits were   *)
(* preserved on top of it, the Workspace keeps anything.                   *)
PushAnswerIsTrue ==
    ~Locked =>
        /\ answer.what = "accepted" => answer.commit \in Ancestors(head)
        /\ answer.what = "rejected" =>
             /\ answer.commit \notin Ancestors(head)
             /\ \/ answer.kept
                \/ \A c \in PushedIn(answer.commit), p \in Paths : ~Holds(content[p], c)

(* revision_documents anchored on what the browser shows: the paths that   *)
(* differ between the head and the revision, and those the browser may     *)
(* have changed since the last sync.                                       *)
DiffChangedPaths(m, n) == {p \in Paths : TreeAt(m)[p] /= TreeAt(n)[p]}
LiveRevisionPaths ==
    IF pending
    THEN {p \in touched \ unseen : content[p] /= Absent}
           \cup {p \in Paths : (content[p] = Absent) /= (TreeAt(head)[p] = Absent)}
    ELSE {}
LiveAnchorPaths(n) == DiffChangedPaths(head, n) \cup LiveRevisionPaths
RevisionShown(n) ==
    [p \in Paths |-> IF p \in LiveAnchorPaths(n) THEN TreeAt(n)[p] ELSE content[p]]

(* A revision opened from the live Workspace shows the revision's tree at  *)
(* every path whose row does not hide its last change (a moved asset keeps *)
(* its time, a transaction that waited has an old one), except after a     *)
(* push was merged with online changes (it moves last_server_sync_at past  *)
(* changes that are not committed) or cut off.                             *)
LiveTransferIsRevision ==
    ~Locked /\ astray = {} /\ head /= 0 =>
        \A n \in DOMAIN commits, p \in Paths \ unseen : RevisionShown(n)[p] = TreeAt(n)[p]

(* What revision_documents is for, which does not hold (see the README): a *)
(* revision opened from the live Workspace shows the revision's tree.      *)
LiveTransferIsWhole ==
    ~Locked /\ astray = {} /\ head /= 0 =>
        \A n \in DOMAIN commits : RevisionShown(n) = TreeAt(n)

(* An online edit becomes part of a revision, unless the Workspace drops   *)
(* it again: a flush that races with it leaves it to the next one.         *)
EditsReachHistory ==
    \A e \in Edits :
        (\E p \in Paths : Holds(content[p], e))
          ~> \/ \E n \in DOMAIN commits, p \in Paths : Holds(commits[n].tree[p], e)
             \/ ~\E p \in Paths : Holds(content[p], e)
             \/ "restored" \in astray

(* What versioning.md says, which does not hold (see the README):          *)
(* "concurrent browser edits therefore cannot be overwritten by an         *)
(* in-flight push": a step of a push takes out of the Workspace only what  *)
(* the branch held before the push, which its author could see.            *)
PushKeepsEdits ==
    [][op.kind = "push" /\ op' /= op =>
        \A e \in Edits, p \in Paths :
            Holds(content[p], e) /\ ~Holds(content'[p], e)
              => Holds(TreeAt(op.before)[p], e)]_vars
=============================================================================
