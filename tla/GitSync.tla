------------------------------ MODULE GitSync ------------------------------
(***************************************************************************)
(* One project linked to a repository at a Git provider                    *)
(* (src/backend/src/external_repositories): the owner's requests, the      *)
(* checkpoint worker that pushes the Workspace to the managed branch, the  *)
(* inbound worker that replaces the Workspace by a source branch, and the  *)
(* grant both use.  There is one worker of each kind for a provider, so a  *)
(* row in state processing whose worker is idle was left by a restart, by  *)
(* a result that could not be recorded or by an ambiguous commit, and is   *)
(* claimed again once its lock is stale.                                   *)
(*                                                                         *)
(* A tree of files is a member of Contents.                                *)
(***************************************************************************)
EXTENDS Integers, Sequences, FiniteSetsExt

CONSTANTS
    Contents,        \* trees of files
    Rejected,        \* those prepare_external_git_import refuses
    None,            \* no tree, no version
    MaxVersion,      \* an edit or a sync is asked for below this version
    MaxCheckpoints,  \* a checkpoint is asked for below this many commits
    MaxMoves,        \* commits others make on the managed branch
    MaxFaults        \* failures of the database, disk or provider, and stops

ASSUME ContentsAssumption == Rejected \subseteq Contents /\ None \notin Contents \cup Nat
ASSUME BoundsAssumption == {MaxVersion, MaxCheckpoints, MaxMoves, MaxFaults} \subseteq Nat

VARIABLES
    content, version,  \* the Workspace and projects.workspace_version
    draft,             \* what accepted collaborative updates make of it
    head,              \* the tree of the local repository's default branch
    commits, ref,      \* checkpoint commits, and the local checkpoint branch
    remote, moves,     \* the managed branch: 0 missing, -1 another's commit
    source,            \* the tree of the source branch
    link,              \* external_git_project_links
    row,               \* external_git_checkpoint_queue
    job,               \* the project's latest external_git_inbound_jobs
    grant,             \* external_git_oauth_grants, and whether it is honoured
    cw, iw,            \* the checkpoint worker and the inbound worker
    lock,              \* the process-local project lock
    applies,           \* how often the job has replaced the Workspace
    astray,            \* what the database does not know, see the properties
    faults

workspace == <<content, version, draft, head>>
repository == <<commits, ref, remote, moves, source>>
ghosts == <<applies, astray, faults>>
syncVars == <<workspace, repository, link, row, job, grant, cw, iw, lock, ghosts>>

NotLinked == [status |-> "none", synced |-> 0, sha |-> 0]
NewLink == [NotLinked EXCEPT !.status = "linking"]
NoRow == [state |-> "none", captured |-> None, sha |-> 0, err |-> "none"]
NoJob == [state |-> "none", op |-> "sync", phase |-> "none", applied |-> None, err |-> "none"]
NewJob(op) == [NoJob EXCEPT !.state = "pending", !.op = op, !.phase = "queued"]

CIdle == [at |-> "idle", version |-> 0, base |-> 0, sha |-> 0, err |-> "none", gen |-> 0]
IIdle == [at |-> "idle", tree |-> None, err |-> "none", phase |-> "none", gen |-> 0]

Errors == {"none", "retry", "reauth", "conflict", "forbidden", "terminal"}
Phases == {"none", "queued", "fetch", "validate", "apply", "revision", "complete"}
CSteps == {"idle", "lock", "project", "load", "flush", "commit", "capture", "list",
           "mark_list", "mark_push", "mark_verify",
           "push", "verify", "complete", "fail"}
ISteps == {"idle", "load", "fetch", "mark", "stage", "lock", "resume", "flush", "apply",
           "finalize", "complete", "fail"}

Linked == link.status /= "none"
Queued == row.state /= "none"
ActiveStates == {"pending", "processing", "retry_wait", "paused"}
JobActive == job.state \in ActiveStates

(* The files of a checkpoint commit. *)
TreeOf(sha) == commits[sha].tree

(* A project the owner made here, or one an import is creating. *)
SyncInit ==
    /\ content \in Contents \ Rejected
    /\ version = 1 /\ draft = None /\ head = None
    /\ commits = <<>> /\ ref = 0 /\ remote = 0 /\ moves = 0
    /\ source \in Contents
    /\ \/ link = NotLinked /\ job = NoJob
       \/ link = NewLink /\ job = NewJob("import")
    /\ row = NoRow
    /\ grant = [status |-> "active", honoured |-> TRUE, gen |-> 0]
    /\ cw = CIdle /\ iw = IIdle /\ lock = "free"
    /\ applies = 0 /\ astray = {} /\ faults = 0

-----------------------------------------------------------------------------
(* The Workspace's side.                                                   *)

Saved(c) == content' = c /\ version' = version + 1

Edit(c) ==
    /\ version < MaxVersion /\ c /= content
    /\ Saved(c) /\ UNCHANGED <<draft, head>>
    /\ UNCHANGED <<repository, link, row, job, grant, cw, iw, lock, ghosts>>

(* A collaborative update is accepted; its projection is pending. *)
AcceptUpdate(c) ==
    /\ version < MaxVersion /\ c /= content /\ draft = None
    /\ draft' = c /\ UNCHANGED <<content, version, head>>
    /\ UNCHANGED <<repository, link, row, job, grant, cw, iw, lock, ghosts>>

Projected == IF draft = None THEN UNCHANGED <<content, version, draft>>
             ELSE Saved(draft) /\ draft' = None

ProjectUpdate ==
    /\ draft /= None /\ Projected
    /\ UNCHANGED <<head, repository, link, row, job, grant, cw, iw, lock, ghosts>>

-----------------------------------------------------------------------------
(* The owner's requests, each one transaction under the project's row lock.*)

(* A repository the project was never linked to has no managed branch; an  *)
(* earlier one still has it.  The local branch of the same name stays.     *)
LinkRepository ==
    /\ ~Linked
    /\ link' = NewLink
    /\ \E tip \in {0, remote} : remote' = tip
    /\ astray' = IF ref /= 0 THEN astray \cup {"ref"} ELSE astray
    /\ UNCHANGED <<workspace, commits, ref, moves, source, row, job, grant, cw, iw, lock,
                   applies, faults>>

(* upsert_repository_link, when the same repository is linked again. *)
LinkAgain ==
    /\ Linked /\ link.status /= "linking"
    /\ link' = [link EXCEPT !.status = "linking"]
    /\ UNCHANGED <<workspace, repository, row, job, grant, cw, iw, lock, ghosts>>

UnlinkRepository ==
    /\ Linked /\ ~Queued /\ ~JobActive
    /\ link' = NotLinked /\ job' = NoJob /\ applies' = 0
    /\ UNCHANGED <<workspace, repository, row, grant, cw, iw, lock, astray, faults>>

(* The checkpoint row's claim, error and lock are reset; what it captured   *)
(* is kept.                                                                *)
ResumeQueue == row' = [row EXCEPT !.state = "pending", !.err = "none"]

UpToDate == link.sha /= 0 /\ link.synced >= version

EnqueueCheckpoint ==
    /\ Linked /\ ~JobActive
    /\ \/ Queued /\ row.state /= "pending" /\ ResumeQueue
       \/ /\ ~Queued /\ ~UpToDate /\ Len(commits) < MaxCheckpoints
          /\ row' = [NoRow EXCEPT !.state = "pending"]
    /\ UNCHANGED <<workspace, repository, link, job, grant, cw, iw, lock, ghosts>>

EnqueueSync ==
    /\ Linked /\ ~Queued /\ ~JobActive /\ version < MaxVersion
    /\ job' = NewJob("sync") /\ applies' = 0
    /\ UNCHANGED <<workspace, repository, link, row, grant, cw, iw, lock, astray, faults>>

(* persist_external_git_grant and resume_work, one transaction. *)
ResumeReauthorized ==
    /\ link' = IF link.status /= "reauth_required" THEN link
               ELSE [link EXCEPT !.status = IF link.synced > 0 THEN "active" ELSE "linking"]
    /\ row' = IF row.state = "paused" /\ row.err = "reauth"
              THEN [row EXCEPT !.state = "pending", !.err = "none"] ELSE row
    /\ job' = IF job.state = "paused" /\ job.err = "reauth"
              THEN [job EXCEPT !.state = "pending", !.phase = "queued", !.err = "none"] ELSE job

Reauthorize ==
    /\ ~(grant.status = "active" /\ grant.honoured)
    /\ grant' = [status |-> "active", honoured |-> TRUE, gen |-> grant.gen + 1]
    /\ ResumeReauthorized
    /\ UNCHANGED <<workspace, repository, cw, iw, lock, ghosts>>

-----------------------------------------------------------------------------
(* The provider's side.                                                    *)

(* Someone commits to the managed branch, or to the source branch. *)
BranchMoves ==
    /\ Linked /\ moves < MaxMoves
    /\ remote' = -1 /\ moves' = moves + 1
    /\ UNCHANGED <<workspace, commits, ref, source, link, row, job, grant, cw, iw, lock, ghosts>>

SourceMoves(c) ==
    /\ c /= source /\ ~JobActive
    /\ source' = c
    /\ UNCHANGED <<workspace, commits, ref, remote, moves, link, row, job, grant, cw, iw, lock,
                   ghosts>>

GrantRevoked ==
    /\ grant.honoured /\ faults < MaxFaults
    /\ grant' = [grant EXCEPT !.honoured = FALSE]
    /\ faults' = faults + 1
    /\ UNCHANGED <<workspace, repository, link, row, job, cw, iw, lock, applies, astray>>

Usable == grant.status = "active" /\ grant.honoured

-----------------------------------------------------------------------------
(* The checkpoint worker.                                                  *)

Rest == UNCHANGED <<job, iw, applies, faults>>
CGoto(at) == cw' = [cw EXCEPT !.at = at]
CFails(err) == cw' = [cw EXCEPT !.at = "fail", !.err = err]

(* Fault: a claim is never taken again. *)
DueUnclaimed(state) == state \in {"pending", "retry_wait"}

Due(state) == state \in {"pending", "retry_wait", "processing"}

ClaimDue ==
    /\ cw.at = "idle" /\ Due(row.state)
    /\ row' = [row EXCEPT !.state = "processing"]
    /\ CGoto("lock")
    /\ UNCHANGED <<workspace, repository, link, grant, lock, astray>> /\ Rest

LockForCheckpoint ==
    /\ cw.at = "lock" /\ lock = "free"
    /\ lock' = "checkpoint" /\ CGoto("project")
    /\ UNCHANGED <<workspace, repository, link, row, grant, astray>> /\ Rest

(* flush_project_collaboration. *)
FlushProjectCollaboration ==
    /\ cw.at = "project"
    /\ Projected /\ CGoto("load")
    /\ UNCHANGED <<head, repository, link, row, grant, lock, astray>> /\ Rest

(* A captured checkpoint is pushed as it is; otherwise the version read     *)
(* here is the one the checkpoint will be recorded for.                    *)
LoadCheckpointContext ==
    /\ cw.at = "load"
    /\ cw' = [cw EXCEPT !.base = link.sha, !.gen = grant.gen,
                        !.at = IF row.captured = None THEN "flush" ELSE "list",
                        !.version = IF row.captured = None THEN version ELSE row.captured,
                        !.sha = row.sha]
    /\ UNCHANGED <<workspace, repository, link, row, grant, lock, astray>> /\ Rest

(* mark_repository_pending and flush_pending_server_commit: see Versioning. *)
FlushWorkspace ==
    /\ cw.at = "flush"
    /\ head' = content /\ CGoto("commit")
    /\ UNCHANGED <<content, version, draft, repository, link, row, grant, lock, astray>> /\ Rest

SameTree == cw.base /= 0 /\ TreeOf(cw.base) = head

(* create_checkpoint_commit.  Git updates the local branch only when it is *)
(* at the new commit's first parent, and creates it only for a root commit.*)
CreateCheckpointCommit ==
    /\ cw.at = "commit"
    /\ \/ /\ SameTree
          /\ cw' = [cw EXCEPT !.at = "capture", !.sha = cw.base]
          /\ UNCHANGED <<commits, ref>>
       \/ /\ ~SameTree /\ ref = cw.base
          /\ commits' = Append(commits, [tree |-> head, parent |-> cw.base])
          /\ ref' = Len(commits')
          /\ cw' = [cw EXCEPT !.at = "capture", !.sha = ref']
       \/ /\ ~SameTree /\ ref /= cw.base
          /\ CFails("retry") /\ UNCHANGED <<commits, ref>>
    /\ UNCHANGED <<workspace, remote, moves, source, link, row, grant, lock, astray>> /\ Rest

(* Fault: the Workspace version is read again once the commit exists. *)
CaptureCheckpointLate ==
    /\ cw.at = "capture"
    /\ row' = [row EXCEPT !.captured = version, !.sha = cw.sha]
    /\ cw' = [cw EXCEPT !.at = "list", !.version = version]
    /\ UNCHANGED <<workspace, repository, link, grant, lock, astray>> /\ Rest

CaptureCheckpoint ==
    /\ cw.at = "capture"
    /\ row' = [row EXCEPT !.captured = cw.version, !.sha = cw.sha]
    /\ CGoto("list")
    /\ UNCHANGED <<workspace, repository, link, grant, lock, astray>> /\ Rest

(* run_command: an unusable grant is reported; a credential the provider    *)
(* rejects is refreshed, and the rejection is recorded.                    *)
Marking == [list |-> "mark_list", push |-> "mark_push", verify |-> "mark_verify"]

CommandRejected ==
    /\ \E command \in {"list", "push", "verify"} :
         /\ cw.at = command /\ ~Usable
         /\ cw' = [cw EXCEPT !.at = IF grant.status = "active" THEN Marking[command] ELSE "fail",
                             !.err = "reauth", !.gen = grant.gen]
    /\ UNCHANGED <<workspace, repository, link, row, grant, lock, astray>> /\ Rest

(* mark_grant_reauthorization_required, and its form for the credential the *)
(* worker read; when that one has been replaced the command is run again.  *)
MarkReauthorizationRequired ==
    /\ \E command \in {"list", "push", "verify"} :
         /\ cw.at = Marking[command]
         /\ \/ /\ grant' = [grant EXCEPT !.status = "reauth_required"]
               /\ CGoto("fail")
            \/ /\ grant.gen /= cw.gen /\ UNCHANGED grant
               /\ cw' = [cw EXCEPT !.at = command, !.err = "none"]
    /\ UNCHANGED <<workspace, repository, link, row, lock, astray>> /\ Rest

(* push_checkpoint_ref: ls-remote, push without force, ls-remote. *)
ListRemote ==
    /\ cw.at = "list" /\ Usable
    /\ \/ remote = cw.sha /\ CGoto("complete")
       \/ remote /= cw.sha /\ remote = cw.base /\ CGoto("push")
       \/ remote /= cw.sha /\ remote /= cw.base /\ CFails("conflict")
    /\ UNCHANGED <<workspace, repository, link, row, grant, lock, astray>> /\ Rest

(* Fault: the push is forced. *)
PushCheckpointForced ==
    /\ cw.at = "push" /\ Usable
    /\ remote' = cw.sha /\ CGoto("verify")
    /\ UNCHANGED <<workspace, commits, ref, moves, source, link, row, grant, lock, astray>>
    /\ Rest

PushCheckpoint ==
    /\ cw.at = "push" /\ Usable
    /\ \/ /\ remote = commits[cw.sha].parent
          /\ remote' = cw.sha /\ CGoto("verify")
       \/ /\ remote /= commits[cw.sha].parent
          /\ UNCHANGED remote
          /\ CFails("conflict")
    /\ UNCHANGED <<workspace, commits, ref, moves, source, link, row, grant, lock, astray>>
    /\ Rest

VerifyPush ==
    /\ cw.at = "verify" /\ Usable
    /\ \/ remote = cw.sha /\ CGoto("complete")
       \/ remote /= cw.sha /\ CFails("retry")
    /\ UNCHANGED <<workspace, repository, link, row, grant, lock, astray>> /\ Rest

CompleteCheckpoint ==
    /\ cw.at = "complete"
    /\ link' = [status |-> "active", synced |-> Max({link.synced, cw.version}), sha |-> cw.sha]
    /\ row' = NoRow
    /\ cw' = CIdle /\ lock' = "free"
    /\ UNCHANGED <<workspace, repository, grant, astray>> /\ Rest

FailCheckpoint ==
    /\ cw.at = "fail"
    /\ row' = [row EXCEPT !.state = IF cw.err = "retry" THEN "retry_wait" ELSE "paused",
                          !.err = cw.err]
    /\ link' = [link EXCEPT !.status = CASE cw.err = "reauth"   -> "reauth_required"
                                         [] cw.err = "conflict" -> "conflict"
                                         [] OTHER               -> "error"]
    /\ cw' = CIdle /\ lock' = "free"
    /\ UNCHANGED <<workspace, repository, grant, astray>> /\ Rest

(* What a worker leaves between the commit it made and its capture. *)
Uncaptured == IF cw.at = "capture" /\ cw.sha /= cw.base THEN astray \cup {"ref"} ELSE astray

(* A step fails and the failure is to be recorded; a provider that forbids *)
(* a command pauses the checkpoint.                                        *)
CheckpointStepFails ==
    /\ cw.at \in {"project", "load", "flush", "commit", "capture", "list", "push", "verify"}
    /\ faults < MaxFaults /\ faults' = faults + 1
    /\ \/ CFails("retry")
       \/ cw.at \in {"list", "push", "verify"} /\ CFails("forbidden")
    /\ astray' = Uncaptured
    /\ UNCHANGED <<workspace, repository, link, row, job, grant, iw, lock, applies>>

(* The completion or the failure cannot be recorded: the row stays as it is. *)
CheckpointResultLost ==
    /\ cw.at \in {"complete", "fail"}
    /\ faults < MaxFaults /\ faults' = faults + 1
    /\ cw' = CIdle /\ lock' = "free"
    /\ UNCHANGED <<workspace, repository, link, row, job, grant, iw, applies, astray>>

-----------------------------------------------------------------------------
(* The inbound worker.                                                     *)

Others == UNCHANGED <<commits, ref, remote, moves, source, row, cw, faults>>
IGoto(at) == iw' = [iw EXCEPT !.at = at]
IFails(err, phase) == iw' = [iw EXCEPT !.at = "fail", !.err = err, !.phase = phase]

(* applied_state: the claim finds a job whose content is in the Workspace. *)
Resumable == job.phase = "revision" /\ job.applied /= None

ClaimDueJob ==
    /\ iw.at = "idle" /\ Due(job.state)
    /\ job' = [job EXCEPT !.state = "processing",
                          !.phase = IF Resumable THEN "revision" ELSE "fetch",
                          !.applied = IF Resumable THEN @ ELSE None]
    /\ IGoto("load")
    /\ UNCHANGED <<workspace, link, grant, lock, applies, astray>> /\ Others

InboundJobLink ==
    /\ iw.at = "load"
    /\ iw' = [iw EXCEPT !.at = IF Resumable THEN "resume" ELSE "fetch", !.gen = grant.gen]
    /\ UNCHANGED <<workspace, link, job, grant, lock, applies, astray>> /\ Others

(* prepare_external_git_import takes a tree of regular files within the    *)
(* limits, with valid paths, an entry file and readable text.              *)
Importable(tree) == tree \notin Rejected

(* Clone, LFS and validation in a temporary checkout. *)
PrepareInboundState ==
    /\ iw.at = "fetch" /\ Usable
    /\ \/ /\ Importable(source)
          /\ iw' = [iw EXCEPT !.at = "stage", !.tree = source]
       \/ ~Importable(source) /\ IFails("terminal", "queued")
    /\ job' = [job EXCEPT !.phase = "validate"]
    /\ UNCHANGED <<workspace, link, grant, lock, applies, astray>> /\ Others

FetchRejected ==
    /\ iw.at = "fetch" /\ ~Usable
    /\ iw' = [iw EXCEPT !.at = IF grant.status = "active" THEN "mark" ELSE "fail",
                        !.err = "reauth", !.phase = "queued", !.gen = grant.gen]
    /\ UNCHANGED <<workspace, link, job, grant, lock, applies, astray>> /\ Others

MarkFetchRejected ==
    /\ iw.at = "mark"
    /\ \/ grant' = [grant EXCEPT !.status = "reauth_required"] /\ IGoto("fail")
       \/ /\ grant.gen /= iw.gen /\ UNCHANGED grant
          /\ iw' = [iw EXCEPT !.at = "fetch", !.err = "none", !.phase = "none"]
    /\ UNCHANGED <<workspace, link, job, lock, applies, astray>> /\ Others

StageAssets ==
    /\ iw.at = "stage"
    /\ job' = [job EXCEPT !.phase = "apply"] /\ IGoto("lock")
    /\ UNCHANGED <<workspace, link, grant, lock, applies, astray>> /\ Others

LockForInbound ==
    /\ iw.at \in {"lock", "resume"} /\ lock = "free"
    /\ lock' = "inbound"
    /\ IGoto(IF iw.at = "resume" THEN "finalize" ELSE "flush")
    /\ UNCHANGED <<workspace, link, job, grant, applies, astray>> /\ Others

(* A sync commits the Workspace it is about to replace; an import has none. *)
FlushBeforeReplacement ==
    /\ iw.at = "flush"
    /\ head' = IF job.op = "sync" THEN content ELSE head
    /\ IGoto("apply")
    /\ UNCHANGED <<content, version, draft, link, job, grant, lock, applies, astray>> /\ Others

(* replace_project_content with no expected version, the cleared            *)
(* collaborative state and mark_job_applied, one transaction.              *)
Applied ==
    /\ Saved(iw.tree) /\ draft' = None
    /\ job' = [job EXCEPT !.phase = "revision", !.applied = version + 1]
    /\ applies' = applies + 1

ApplyInboundContent ==
    /\ iw.at = "apply"
    /\ Applied /\ IGoto("finalize")
    /\ UNCHANGED <<head, link, grant, lock, astray>> /\ Others

(* CommitAmbiguous: the transaction committed or not, and nothing is recorded. *)
ApplyIsAmbiguous ==
    /\ iw.at = "apply" /\ faults < MaxFaults
    /\ faults' = faults + 1
    /\ Applied \/ UNCHANGED <<content, version, draft, job, applies>>
    /\ iw' = IIdle /\ lock' = "free"
    /\ UNCHANGED <<head, repository, link, row, grant, cw, astray>>

(* finalize_inbound_job: the imported revision, then the job's completion. *)
FlushImportedRevision ==
    /\ iw.at = "finalize"
    /\ head' = content /\ IGoto("complete")
    /\ UNCHANGED <<content, version, draft, link, job, grant, lock, applies, astray>> /\ Others

CompleteJob ==
    /\ iw.at = "complete"
    /\ job' = [job EXCEPT !.state = "succeeded", !.phase = "complete", !.err = "none"]
    /\ iw' = IIdle /\ lock' = "free"
    /\ UNCHANGED <<workspace, link, grant, applies, astray>> /\ Others

(* record_failure: the applied state survives only a retry of the revision. *)
RecordFailure ==
    /\ iw.at = "fail"
    /\ job' = [job EXCEPT !.state = CASE iw.err = "reauth" -> "paused"
                                      [] iw.err = "retry"  -> "retry_wait"
                                      [] OTHER             -> "failed",
                          !.phase = iw.phase,
                          !.applied = IF iw.phase = "revision" THEN @ ELSE None,
                          !.err = iw.err]
    /\ iw' = IIdle /\ lock' = IF lock = "inbound" THEN "free" ELSE lock
    /\ UNCHANGED <<workspace, link, grant, applies, astray>> /\ Others

(* Fault: every failure is retried from the beginning. *)
RetryPhaseQueued(at) == "queued"

(* InboundJobError::failure: the phase from which a failed step is retried. *)
RetryPhase(at) == IF at \in {"finalize", "complete"} THEN "revision" ELSE "queued"

InboundStepFails ==
    /\ iw.at \in {"load", "fetch", "stage", "flush", "apply", "finalize", "complete"}
    /\ faults < MaxFaults /\ faults' = faults + 1
    /\ \/ IFails("retry", RetryPhase(iw.at))
       \/ iw.at = "fetch" /\ IFails("terminal", "queued")
    /\ astray' = IF iw.at = "load" /\ Resumable THEN astray \cup {"applied"} ELSE astray
    /\ UNCHANGED <<workspace, repository, link, row, job, grant, cw, lock, applies>>

InboundResultLost ==
    /\ iw.at = "fail" /\ faults < MaxFaults
    /\ faults' = faults + 1
    /\ iw' = IIdle /\ lock' = IF lock = "inbound" THEN "free" ELSE lock
    /\ UNCHANGED <<workspace, repository, link, row, job, grant, cw, applies, astray>>

-----------------------------------------------------------------------------
(* The process stops and starts again. *)
Stop ==
    /\ faults < MaxFaults /\ faults' = faults + 1
    /\ cw.at /= "idle" \/ iw.at /= "idle"
    /\ cw' = CIdle /\ iw' = IIdle /\ lock' = "free"
    /\ astray' = Uncaptured
    /\ UNCHANGED <<workspace, repository, link, row, job, grant, applies>>

CheckpointWorker ==
    \/ ClaimDue \/ LockForCheckpoint \/ FlushProjectCollaboration \/ LoadCheckpointContext
    \/ FlushWorkspace \/ CreateCheckpointCommit \/ CaptureCheckpoint \/ CommandRejected
    \/ MarkReauthorizationRequired \/ ListRemote \/ PushCheckpoint \/ VerifyPush
    \/ CompleteCheckpoint \/ FailCheckpoint

InboundWorker ==
    \/ ClaimDueJob \/ InboundJobLink \/ PrepareInboundState \/ FetchRejected
    \/ MarkFetchRejected \/ StageAssets \/ LockForInbound \/ FlushBeforeReplacement
    \/ ApplyInboundContent \/ FlushImportedRevision \/ CompleteJob \/ RecordFailure

LinkingRequest == LinkRepository \/ LinkAgain \/ UnlinkRepository

SyncNext ==
    \/ \E c \in Contents \ Rejected : Edit(c) \/ AcceptUpdate(c)
    \/ ProjectUpdate
    \/ LinkingRequest
    \/ EnqueueCheckpoint \/ EnqueueSync \/ Reauthorize
    \/ BranchMoves \/ (\E c \in Contents : SourceMoves(c)) \/ GrantRevoked
    \/ CheckpointWorker \/ CheckpointStepFails \/ CheckpointResultLost
    \/ InboundWorker \/ ApplyIsAmbiguous \/ InboundStepFails \/ InboundResultLost
    \/ Stop

SyncSpec == SyncInit /\ [][SyncNext]_syncVars

(* The workers poll, a stale claim is taken again, a retry's delay passes   *)
(* and a step in progress ends; no request and no fault need happen.       *)
SyncFairSpec == SyncSpec /\ WF_syncVars(CheckpointWorker) /\ WF_syncVars(InboundWorker)

-----------------------------------------------------------------------------
LinkRow == [status: {"none", "linking", "active", "reauth_required", "conflict", "error"},
            synced: Nat, sha: Nat]
QueueRow == [state: {"none"} \cup ActiveStates, captured: Nat \cup {None}, sha: Nat, err: Errors]
JobRow == [state: {"none", "succeeded", "failed"} \cup ActiveStates, op: {"import", "sync"},
           phase: Phases, applied: Nat \cup {None}, err: Errors]
GrantRow == [status: {"active", "reauth_required"}, honoured: BOOLEAN, gen: Nat]
CWorker == [at: CSteps, version: Nat, base: Nat, sha: Nat, err: Errors, gen: Nat]
IWorker == [at: ISteps, tree: Contents \cup {None}, err: Errors, phase: Phases, gen: Nat]

SyncTypeOK ==
    /\ content \in Contents /\ version \in Nat \ {0}
    /\ draft \in Contents \cup {None} /\ head \in Contents \cup {None}
    /\ commits \in Seq([tree: Contents, parent: Nat]) /\ source \in Contents
    /\ remote \in -1..Len(commits) /\ moves \in Nat
    /\ {ref, link.sha, row.sha, cw.base, cw.sha} \subseteq 0..Len(commits)
    /\ link \in LinkRow /\ row \in QueueRow /\ job \in JobRow /\ grant \in GrantRow
    /\ cw \in CWorker /\ iw \in IWorker
    /\ lock \in {"free", "checkpoint", "inbound"}
    /\ applies \in Nat /\ astray \subseteq {"ref", "applied"} /\ faults \in Nat

(* A project that is reported up to date is: the commit the link records    *)
(* holds the current Workspace, whatever was edited, projected, imported,   *)
(* retried or restarted while the checkpoint was captured and pushed.       *)
(* enqueue_checkpoint and derive_project_state rely on it.                  *)
UpToDateIsTrue == Linked /\ UpToDate => TreeOf(link.sha) = content

(* A sync replaces the Workspace at most once, though the worker may stop,  *)
(* lose the commit's answer, or fail anywhere and be retried.  The exception *)
(* ("applied" in astray) is a resumed job whose link cannot be loaded: that  *)
(* failure is retried from the beginning.                                   *)
AppliedOnce == "applied" \notin astray => applies =< 1

(* No checkpoint takes a commit of somebody else off the managed branch,    *)
(* even one that arrives between ls-remote and the push.                    *)
BranchKeepsCommits ==
    [][remote = -1 /\ Linked' => remote' = -1 \/ (~Linked /\ remote' = 0)]_syncVars

(* Every request comes to an end: a checkpoint is completed or waits for    *)
(* the owner (reauthorization, a conflict, a refusal), a job succeeds,      *)
(* fails or waits for reauthorization.  Not so when the local checkpoint    *)
(* branch is at a commit the database does not know ("ref" in astray): Git  *)
(* refuses every further checkpoint commit and the retries never end.       *)
OperationsSettle ==
    /\ Queued ~> (~Queued \/ row.state = "paused" \/ "ref" \in astray)
    /\ JobActive ~> (~JobActive \/ job.state = "paused")

(* What external-repositories.md says of step 7; it does not hold, see the  *)
(* README.                                                                  *)
NeverAppliedTwice == applies =< 1
=============================================================================
