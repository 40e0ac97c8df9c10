# A TLA+ model of TOSS

TOSS is a collaborative editor for Typst and LaTeX projects: a Rust server
(`backend/`, called Core), a browser client (`web/`), and worker processes
(`workers/`) that run document operations for Core.  This directory models the
parts in which independent processes have to agree: durable document processing
with its leases and retries, realtime collaboration, the workspace and its
objects, the Git history, synchronisation with repositories at a provider, and
the rights and accounts that all of them rely on.

* [Inventory](#inventory) -- the parts of the system
* [Modules](#modules) -- what each module models and how it maps to the code
* [Runs](#runs) -- what TLC checks, bounds, fairness
* [Statements that do not hold](#statements-that-do-not-hold)
* [Proofs](#proofs) -- what TLAPS proves and how
* [Limits](#limits) -- what is left out
* [Plan](#plan) -- what comes next

`tlc -config <run>.cfg <MC module>` runs a configuration, `tlapm <M>.tla`
checks the proofs of a module, and `PROJECT.json` lists runs, the source lines
of every definition, hazards and theorems.

## Inventory

### Document processing, `backend/src/document_processing`

| Part | State | Operations |
|---|---|---|
| jobs (`persistence.rs`, `model.rs`) | `processing_jobs`: state, attempt counter, current claim and its expiry, cancellation flag, queue and retention deadlines, finalization lease token | reserve, store the prepared input, fail the preparation, cancel, query |
| worker claims (`worker_persistence.rs`) | `processing_attempts`, `processing_transfers` | `try_claim`, `heartbeat_claim`, artifact ticket, upload, `complete_claim`, `fail_claim`, `release_claim`, reuse of an earlier result |
| finalization and maintenance (`finalization.rs`) | `processing_artifacts`, `processing_blobs`, one loop per Core process | sweep of lapsed claims, queue entries, transfers, sessions and replay records; retention; lease, load, validate, publish or reject a delivery |
| worker sessions (`worker_persistence.rs`, `worker_http.rs`) | `processing_worker_sessions`, `processing_worker_processors` | register, heartbeat, drain, expire; long poll for claims |
| request replay (`worker_idempotency.rs`) | `processing_worker_requests` | begin (reserve, replay, refuse), finish, abort, purge |
| public API, input bundles (`public_http.rs`, `project_input.rs`, `workspace_bundle.rs`) | idempotency keys, asset pins | submit, prepare, list, download |
| configuration, contracts, formats (`config.rs`, `operation_contract.rs`, `pptx.rs`, `worker_protocol.rs`) | none | parsing and validation |

### Worker side, `workers`

| Part | State | Operations |
|---|---|---|
| SDK agent (`processing-sdk/src/agent.rs`) | semaphore, claim tasks, session heartbeat counter, a lease guard per claim | acquire loop, execute a claim, heartbeat, stop, drain |
| SDK client (`processing-sdk/src/client.rs`) | none | one HTTP call each, repeated with the same request identifier except claim heartbeats |
| LaTeX worker (`latex/`) | a sandbox | a `Processor` behind the SDK |

Jobs, claims, sessions and replay records meet in PostgreSQL; workers and Core
meet over HTTP, where a call may be lost, repeated or answered late; a Core
process may stop between any two transactions, and an old and a new one overlap
during a restart.  What makes it hard: two owners of one claim, a cancellation
that races a delivery, a lease that is measured on two hosts, a finalizer that
wakes up after its lease was taken over, a request repeated while it still runs.
What makes it correct: one fence per claim, cancellation that is never
overtaken, a bounded number of attempts, a result that is published once and
whole, work that stops before its lease ends, and jobs that settle.

### Content, `backend/src/collaboration`, `workspace`, `object_cleanup.rs`

| Part | State | Operations |
|---|---|---|
| collaboration | Yjs updates and snapshots per document, content epoch and collaboration revision; rooms with bounded channels in memory | authorize, join, revalidate, bootstrap, persist and broadcast an update; compact, prune, project; capture; drain |
| workspace | documents, directories, entry file, workspace version, content epoch, change sequence | create, write, move, delete, settings, replace; copy and archive; announce on the control room |
| assets and objects | asset rows, objects in the store, deletion queue, pins of jobs | upload, delete, replace, queue, delete now, claim and delete due objects |
| job admission | jobs with idempotency keys, limits, pins | reserve, capture, store the input, expire the queue |

What makes it hard: requests that share a row lock among themselves, a stream
that joins a room while others write and lose their access, an update log that is
pruned while it grows, objects outside the database, commits whose outcome is
unknown.  What makes it correct: no accepted edit is lost, a reader misses
nothing or is told, a copy is whole, a row's object exists while anyone may read
it, a browser's tree becomes the project's.

### History and repositories, `backend/src/versioning`, `external_repositories`

| Part | State | Operations |
|---|---|---|
| versioning | the Git repository of a project, `pending_sync`, queue, contributors, last sync time, a lock per project in memory | flush worker, manual revision, flush for a checkpoint, fetch, push with merge and recovery, live revision view |
| checkpoints | link, queue row, local checkpoint branch, remote branch | enqueue, claim, flush, capture, commit, push, verify, complete, fail, pause |
| inbound jobs | job row with phase, staged content | enqueue, claim, fetch, validate, stage, apply, revise, complete, fail, pause |
| linking, grants | link status, grant | link, unlink, reauthorize |

What makes it hard: the repository and the database commit separately and the
process may stop in between, editors do not take the project lock, others push to
the same branch, a stale claim is taken again without a fence.  What makes it
correct: what is not in the history is marked, answers to pushes are true, a link
that is up to date says so rightly, a sync is applied once.

### Rights and accounts, `backend/src/access`, `external_repositories/connection`

| Part | State | Operations |
|---|---|---|
| rights | roles, organization access and members, group roles, share links, guests, template status, access epoch | change any of them, join a link, admit a guest, synchronise groups at login; a realtime writer checks and locks the epoch |
| accounts | users, local credentials, identities, sessions, OAuth attempts, grants with tokens | login and callbacks, provision, connect, disconnect, refresh, refuse |

What makes it hard: rights read before the write they admit, epochs that must
move with every loss of a right, lock orders of a dozen transactions, providers
that rotate refresh tokens.  What makes it correct: an admitted writer may write
when the update commits, an account keeps a login method, a grant tells the truth
about its tokens.

### The rest of the system

| Part | State | Hard behaviour |
|---|---|---|
| runtimes (`latex_runtime`, `typst_runtime`) | file caches, keyed locks | single flight |
| process lifecycle, server, distribution, experience, audit, protocol | configuration, drain signal, catalogues, types | shutdown order |
| web client (`web/src`) | compilation actor, realtime session, AI session, browser backend | stale results of an earlier request, reconnect |
| scripts, distributions, deployment | none | none |

## Modules

| Module | Models |
|---|---|
| `ProcessingJobs` | jobs, attempts, transfers, artifacts, the maintenance loops of several Core processes |
| `JobLifecycle` | what the API promises of a job; `ProcessingJobs` implements it |
| `WorkerCommon` | Core's clock and the bounds on it, which the next three share |
| `WorkerAgent` | one claim in the SDK: task, lease guard, heartbeats, and its row in Core |
| `WorkerSessions` | sessions, capacity, the agent's acquisition loop and its shutdown |
| `WorkerRequests` | replay records around worker mutations |
| `Collaboration` | the streams of a document, its update log, snapshots and projection |
| `Workspace` | documents, directories and entry file, copies, the control stream and a browser |
| `AssetStore` | assets, objects, deletion queue, admission of jobs and their pins |
| `Versioning` | the local Git history against the editors |
| `GitSync` | checkpoints to and syncs from a repository at a provider |
| `Access` | rights of one project, share links, templates, the access epoch |
| `Accounts` | logins, identities, sessions, grants and their tokens |
| `ProcessingJobsProofs`, `AssetStoreProofs`, `CollaborationProofs`, `WorkspaceProofs`, `VersioningProofs`, `AccountsProofs` | theorems about the module they are named after |
| `WorkerProofs` | theorems about `WorkerAgent`, `WorkerRequests` and `WorkerSessions` |
| `AccessSyncProofs` | theorems about `Access` and `GitSync` |
| `MC...` | symmetry sets, constant values and the scope of a run for TLC |

The modules meet at rows that each models as far as it needs them: a job's
admission and pins are in `AssetStore` and its life afterwards in
`ProcessingJobs`; the capture of a project's text in `Collaboration` and of its
assets in `AssetStore`; a content replacement is an action of `Workspace`,
`Collaboration`, `Versioning` (push) and `GitSync` (sync), each with the epochs
and versions it moves; the access epoch moves in `Access` and is checked by a
stream in `Collaboration`.

A specification is called `Spec`, or `FairSpec` with its fairness; where one proof
module has several, they carry a prefix (`AgentSpec`, `RequestsSpec`,
`SessionsSpec`, `SyncSpec`).

An operator whose comment starts with "Fault:" is the definition below it with a
plausible bug; no specification uses it.  It shows that a property notices the
bug.

### ProcessingJobs

An action is one database transaction, or one step between two of them.  The
variables `jobs`, `attempts`, `transfers` and `artifacts` are the tables;
`uploads` holds the upload requests that passed the claim check and have not
stored their bytes yet (`upload_transfer` reads the body in between, so it is
`BeginUpload` and `StoreUpload`); `projects` counts committed publications;
`core` is the program counter and the memory of each maintenance loop.

* A claim identifier is a random UUID kept in one attempt row, so claim *n* of a
  job is its *n*-th attempt and 0 is null.  Worker calls carry a claim and may
  come at any time after it was handed out, also late, twice or never.
* Handlers compute `now` before they wait for the row lock.  `Nows` gives them
  any time up to `Lag` old.
* `Sweep` is the transaction of `maintain_lifecycle`; `DeleteRetained` is the
  retention statement that follows, with the rows its snapshot selected, which
  is why it is a step of its own.  `MaintenanceFails` and `Abandon` are an error
  of the pass and a stop of the process.
* A finalizer takes the lease with a fresh token (`AcquireFinalizationLease`),
  loads, validates and then publishes or rejects; the last step locks the row and
  compares the token (`HoldsToken`).  Validation succeeds or fails by choice, if
  the required roles are there.
* A blob is identified by what it is: the attempt that made it and the input it
  was made of.  Inputs stand for the whole cache identity.
* The two publications of the code (artifacts only, or artifacts and a
  provisioned project) have the same control and are one action.

### WorkerAgent

One claim, from its grant to its end.  `guard` is the task of
`claim_heartbeat_loop` with its timer, `cancelled` the watch channel to the
task, `task` the position in `execute_claim`, `wire` the one heartbeat on its
way, `claim` the attempt row with the cancellation of its job.  Core's steps are
those of `ProcessingJobs` for one claim.  Time does not pass while a timer is
due or a cancelled sandbox has not ended: this is the assumption that both take
less than a unit.  An answer is on its way for any time up to `Timeout`, that of
the HTTP client (`client.rs:45`), which is longer than the margin; `Skews` are the
differences of the two clocks, which the code uses for the first deadline only and
does not bound.  `guard.late` records by how much the answer that set the timer
was late or the clock it was compared with behind, `guard.confirmed` the lease it
reported.  The properties are stated in these terms because the code has no other
bound: an answer within the margin leaves the sandbox no time after its lease, a
later one exactly as much as it was late beyond it.

### WorkerSessions

`sessions` and `claims` are rows, `agents` the loop of
`run_agent_with_processors` with its permits (`tasks`), `polls` the long poll.
An acquisition that fails for good may leave a claim in Core that no agent
knows; a shutdown during an acquisition drains first and awaits the answer.  The
sweep of sessions and the sweep of claims are two commits of one pass.  A poll
that the agent gave up may stay open in Core and still be granted a claim
(`orphan`).  Handlers use a `now` that is up to `Lag` old; `late` marks a claim
that a heartbeat with an old `now` renewed after its lease had lapsed.
`clean` records that no call of the agent failed for good.  The expiry of an
expired session is read by nothing and is 0.

### WorkerRequests

`rows` are the replay records, `calls` the handlers that hold a reservation.
`runs` numbers the answers, `effects` counts what was committed (up to
`MaxEffects`) and whether the last commit was known to have happened, `first` and
`heard` are what the worker got; they record the history that the properties are
about.  `ActionFails` is every 5xx of `with_worker_request`: it gives the
reservation back, whether the mutation was rolled back or committed with an
outcome the handler did not learn.  `Vanish` is a handler that stops or whose connection closes, at any
point.  A handler ends within `MaxRun`: the long poll is at most
`MAX_LONG_POLL_SECONDS`, everything else is a few statements, and
`REQUEST_PENDING_TTL` is ten minutes.

### Collaboration

One project with one document.  `project` holds the content and access epochs
and each tab's role, `document` the row with its collaboration revision, `log`
and `snapshots` the two tables.  A Yjs state is the set of edits merged into it
over the text it was seeded with, so that merging is union and a state vector
adds nothing.  `clients` holds each tab with its stream: the step of
`handle_socket` it is at, its queue of room events (bounded by `Buffer`; a full
queue makes it `lagged`, as a broadcast receiver is), and its own document.
`accepted` records what was acknowledged.  `due` counts announcements of a
committed change of access or content that are still to be made.

* `Authorize`, join, revalidate, bootstrap and stream are separate steps, because
  each is an await at which others run.
* An update is persisted in one transaction that locks content epoch, access
  epoch and document; its broadcast is a later step.
* The projection worker takes a pending document and reconciles it in another
  transaction, or fails and waits for its next turn (`ProjectionFails`);
  `Capture` flushes under the exclusive project lock.
* Deleting a document deletes its log and its snapshot (`Cascaded`).
* Bootstrap and capture take their locks one by one, because their orders differ;
  `BreakCycle` is the database ending one of the two.

### Workspace

`documents` maps a path to the change sequence number of its row, `directories`
and `entry` are rows.  A request begins (lock, checks, statements) and commits in
two steps and announces its change in a third.  Incremental changes share the
project row FOR KEY SHARE, so two of them run between each other's steps; moves,
deletions, settings and replacements hold it FOR UPDATE.  An incremental change can
remove a document too: a new empty asset takes the path of one
(`CreateAssetFile`).  Only a path that is not a text path can become one, and an
entry file is a text path (`project_model.rs:52`, `file_policy.rs:45`), which
`TextPaths` models.  `Unannounced` is a handler that is dropped at an await between
its commit and its announcement, or that was told of a failed commit which took
effect; `client.missed` records that the browser lacks such a change.  `snapshot` is a copy or
an archive, `client` a browser with its bounded channel of the control room,
which loads the tree, follows events and reloads after it lagged or lost its
connection.  `Parties` says whether a run has the reader of snapshots, the browser
or both.

### AssetStore

`objects` is the store, `assets` the rows, `queue` the deletions.  A handler
stores its object, runs its transaction and cleans up; a commit may succeed, fail
or be unknown.  An upload locks the row at its path if there is one (`RowFree`) and
otherwise nothing, so that two first uploads overlap and only their upserts wait
for each other (`RowWritable`).  A submitter reserves a job under the admission lock (idempotency
key, limits), captures the project and pins its objects, reads them and stores
the input.  `delete_queued_objects_now` and the cleanup worker look for pins and
delete in two steps.

### Versioning

A file is the set of changes applied to it, or absent; a commit is a parent, a
tree and its contributors.  `op` is the one operation that holds the project
lock; an edit commits between any two of its steps.  An edit writes or deletes a
file, or moves it to a free path of its kind (to Git the one is removed and the
other added, by whoever moved it).  `touched` are the paths whose rows changed after
the last sync, as their times show it, and `unseen` those whose times do not: a moved
asset keeps its `created_at`, and a row written by a transaction that waited for
the project's row carries a time from before (`Stamps`, at most `MaxLate` of
them).  The move of the entry file itself, which also changes the settings, is in
`Workspace` only.  A push is captured,
received by Git (`receive.denyNonFastForwards`, `updateInstead`), validated, and
then imported or merged with the online changes; each step may fail, after which
`RestoreHead`, `RestoreWorkspace` and `RecordRestored` undo it.  A merge of two
texts is left open where Git's result depends on their bytes.  `astray` remembers
that a push was cut off before its import or while it was undone ("restored"), or
was merged ("merged"), until a sync is recorded that makes the branch the
Workspace; the properties except it.

### GitSync

`content`, `version` and `draft` are the Workspace and its projected edits;
`commits`, `ref` and `remote` the checkpoint branch here and at the provider,
where -1 is a commit of somebody else; `row` and `job` the two queues; `cw` and
`iw` the two workers.  A Git command that the provider refuses is run again once
with a refreshed credential, from the same command (`Marking`).  A worker's steps are the statements, commands and calls
between which the process may stop.  `astray` remembers the two situations that
the properties except: the local branch is ahead of the database ("ref"), and a
resumed job was sent back to its beginning ("applied").

### Access

A request checks its caller, takes the row and advisory locks of its statements
in their order (`Plan`), and commits or is refused.  `epoch` moves in the
transactions of `advance_project_access_epoch`.  `stream` is a realtime writer:
it reads the epoch, checks the right, locks the epoch for its update and commits.

### Accounts

A request is at one of its awaits: a read, a transaction, a call of a provider.
`issued` and `refreshable` are the provider's side, which may rotate, refuse,
revoke or not answer; `refused` records which secrets it refused to refresh.  It may
refuse a live one: `refresh_access_token` takes every 400 or 401, every `error` field
and a missing access token for a refusal.  Accounts are named by their email.

## Runs

| Run | Question, all answered yes |
|---|---|
| `jobs` | Are late calls of an old claim fenced (`ClaimFence`), attempts bounded (`RetryBudget`), is a result published once (`PublishedOnce`) and as one delivery (`ResultIsOneDelivery`), does every step follow `JobLifecycle` (`FollowsLifecycle`), does Core settle every job that silent workers and users leave (`JobsSettle`)? |
| `agent_lease` | Does the sandbox outlive its confirmed lease by no more than its last answer was late (`StopsBeforeConfirmedLease`), does it overlap with another worker only then (`ExclusiveWork`), and does a cancellation end it (`CancellationStopsWork`)? |
| `requests_replay` | Is the replayed answer the first one (`AnswerIsStable`), and an effect repeated within the fence only after a commit that was reported as failed (`EffectIsFenced`)? |
| `worker_sessions` | Are slots respected (`SlotCeiling`), does a graceful exit strand nothing (`NothingStranded`), do abandoned sessions close (`SessionsClose`)? |
| `collab_streams` | Has a current stream every accepted edit, or is it on its way (`ReaderMissesNothing`), and is a stream told that lost its access or its document (`StaleStreamIsTold`)? |
| `collab_projection` | Do pruning and compaction keep every accepted edit (`NoEditLost`), does a capture see them (`CaptureSeesAccepted`), is everything projected (`UpdatesProjected`)? |
| `workspace_content` | Does the entry file exist (`EntryFileExists`), is a copy whole (`CopyIsWhole`), does the browser's tree converge, but for a change that nobody announced (`TreeConverges`)? |
| `asset_store` | Has every asset its object (`AssetsStored`), does a job read what it pinned (`CaptureReadsPinned`), is admission bounded (`AdmissionIsBounded`), do queued deletions happen (`DeletionsHappen`)? |
| `versioning_history` | Is what the history lacks marked (`UncommittedIsPending`), are answers to pushes true in the branch and in the Workspace (`PushAnswerIsTrue`), do edits reach the history (`EditsReachHistory`), is a revision shown from the live tables that revision, wherever the rows do not hide a change (`LiveTransferIsRevision`)? |
| `git_sync` | Is "up to date" true (`UpToDateIsTrue`), a sync applied once (`AppliedOnce`), the branch kept (`BranchKeepsCommits`), does every operation settle (`OperationsSettle`)? |
| `access` | May an admitted writer write when the update commits (`AdmittedWriterMayWrite`), has a template no guests (`ClassificationHolds`), are locks ordered (`LocksAreOrdered`)? |
| `accounts` | Does an account keep a login method (`LoginMethodRemains`), does a grant tell the truth about its tokens (`GrantMatchesProvider`), has a subject one account (`SubjectHasOneAccount`)? |

**Bounds.**  Each run has the smallest sets in which every pair of actors that
can disturb each other exists: two attempts of one job, two finalizers, a job and
the source of its result; two streams, one of which writes; two requests against
a snapshot; two asset handlers, the cleanup worker and a submitter; two
submitters; an operation and the editors;
two workers of one link; two requests and a realtime writer.  Leases are one to
five units, so that each can lapse before, while and after the others.
`Horizon` is the time after which users, workers and faults rest; `MaxTime` is
later by what the deadlines need.  The other `Max...` constants bound counters
and faults in the guards of the actions that move them.

* `jobs` explores one job with every attempt and both Core processes; a second
  job is submitted after the first succeeded, and then each has one attempt and
  one Core process is busy at a time (`Scope` in `MCProcessingJobs`).  The second
  job is there to reuse the result of the first and to meet retention.
  Handlers use a current `now` (`Lag = 0`); the theorems hold for any `Lag`.
* `worker_sessions` has one session, two jobs and one slot, and handlers whose
  `now` is up to one unit old: sessions share nothing but the jobs.
* `agent_lease` has a timeout of three units and clocks that are off by up to the
  margin and more, with a margin of two: late answers and overlapping workers are
  reached, and the properties say when.
* `workspace_content` lets the version go from one to three and has four changes,
  so that an exclusive request commits after another and after an incremental one.
  The reader of snapshots and the browser do not meet, since neither touches what
  the other sees (`Scope` in `MCWorkspace`).  Beside the browser there are three
  changes and one open transaction at a time, as it sees only what is committed
  and announced, and both handlers may have something to announce.
* `asset_store` has two object keys and two handlers, which meet at a path with and without a row and
  with a submitter, and two submitters with a limit of two jobs and three
  idempotency keys.  The two submitters are explored before anything is stored,
  since admission does not look at assets (`Scope` in `MCAssetStore`).
* `collab_streams` has one edit and two tabs, `collab_projection` one tab and two
  edits with authoritative writes and restarts.
* `versioning_history` has two kinds of projects (`Scope` in `MCVersioning`): one
  with a text, an asset, one push and a fault anywhere, and one with a text and two
  assets that exist from the start, so that one is deleted and the other moved onto
  its path, and one late row (`MaxLate`), without faults and without the owner's
  clone.  The move of a text is only proved about: it needs two texts beside the
  entry file.
* `git_sync` has one fault of any kind at any step; two faults in a row reach the
  excepted cases below.
* `access` and `accounts` run two requests at a time, two and three in all.

Tabs, calls, payloads, requests, groups and the like are interchangeable where a
cfg declares a symmetry, which only runs without liveness do.
A `Scope` is a CONSTRAINT: TLC explores no step out of a state beyond it, and the
invariants hold in the states reached.  A liveness property is checked of the
behaviours that stay within it; each `Scope` leaves whole scenes as they are and
only keeps apart what has no part in each other.

`TypeOK` of a module, where it has one, also holds with the constants of its run;
it is not listed there.

**Deadlock** is not checked: at the bounds, with every job settled, every request
answered and every edit made, nothing is left to do.

**Fairness.**  Users, workers, editors, providers and the network owe nothing.

* `jobs`, `worker_sessions`: time passes and each Core process goes on with its
  loop (`spawn_processing_maintenance` runs until the drain signal and logs
  errors).
* `agent_lease`: time passes, the guard's timer fires, a processor told to stop
  ends.
* `collab_projection`: a stream's server task goes on (strongly, since locks are
  taken and released by others), the projection worker takes pending documents
  and reconciles them (strongly: a pass may fail, `ProjectionFails`, but not every
  one for the same document, which would also keep the worker from the others, as
  `next_pending_document` takes the oldest), a capture that waits for a lock gets it, the database ends
  a cycle of waits, a draining process is restarted.
* `jobs` in particular: its liveness is about silence.  `heartbeat_claim` renews a
  lease without end, so a worker may keep a job running for ever; `JobsSettle`
  speaks of the jobs that are active when workers, users and faults have stopped
  (`~Open`), whatever state they were left in.  A finalization that always takes
  longer than its lease would be taken over for ever; at `MaxTime` the clock stands
  and it does not.
* `workspace_content`: a request that began ends, by an announcement or without one,
  the browser reconnects and handles what it received.
* `asset_store`: handlers and submitters go on, the cleanup worker claims and
  deletes (strongly, since the queue row may be locked in between), a lock of the
  queue becomes stale, the maintenance loop expires queued jobs.
* `versioning_history`: an operation goes on, the worker lists due projects and
  gets the project lock again and again (strongly, since others hold it in
  between).
* `git_sync`: the two workers go on; retries are due in the end.
* `collab_streams`, `requests_replay`, `access`, `accounts` check safety only.

## Statements that do not hold

The model also contains statements of the documents, of comments or of the design
that the code does not satisfy.  To reproduce one, put it in place of the
properties of the run's cfg, with the constants and the specification given here.

| Definition | Run | What happens |
|---|---|---|
| `DeliveryRecoverable` | `jobs` | The sweep (`finalization.rs:285`) expires the uploads of a delivery that Core accepted and has not published, when their deadline passes while the finalizer is down; the job fails instead of being resumed (`worker-protocol.md:344`, `document-processing.md:200`). |
| `CacheSourceKept` | `jobs`, `Lag = 1`, `Spec` | A claim adopts a result while the retention statement (`finalization.rs:300`) waits for the row; the statement does not look again and deletes the source, contrary to the comment above it. |
| `NoLockCycle` | `collab_projection` | A bootstrap locks the document before the project (`bootstrap.rs:21`), a capture the project before the documents (`projection.rs:298`), although `content_generation.rs:27` asks for one order.  The database ends one of the two. |
| `DeltaIsComplete` | `workspace_content` | `change_sequence` is drawn before the commit (`documents_persistence.rs:201`); a delta listing by the largest number seen (`documents_persistence.rs:60`) misses a transaction that drew a smaller one and commits later. |
| `PushKeepsEdits` | `versioning_history` | An edit that commits between the load of `pending_sync` (`versioning/http.rs:160`) and the capture of the version is in the captured version but not in the branch: the compare-and-swap passes and the pushed tree overwrites it (`versioning.md`: "concurrent browser edits therefore cannot be overwritten"). |
| `LiveTransferIsWhole` | `versioning_history` | `changed_asset_paths` finds assets by `created_at` (`revision_paths_persistence.rs:31`) and `move_asset_subtree` keeps it (`assets_persistence.rs:249`): an asset moved onto the path of a deleted one is neither in the difference of paths (`revision_transfer.rs:473`) nor newer than the sync, and a revision shows its bytes.  A row written by a transaction that waited for the project's row has a time from before the sync (`project_file_creation.rs:106`), with the same effect. |
| `NeverAppliedTwice` | `git_sync`, `MaxFaults = 2` | A resumed job whose link cannot be loaded is retried from its first phase and replaces the Workspace again (`external-repositories.md`: "never applies the destructive snapshot twice"). |

Properties of the runs except further corners, each named in the property:

* A heartbeat answer that arrives late by the margin or more, or a host clock that
  is behind by as much, lets the sandbox outlive its lease and run beside the next
  worker (`agent.rs:722`, `agent.rs:763`; the client waits 60 s, `client.rs:45`, and
  the margin is 3 s), while `worker-protocol.md:286` asks the worker to stop
  before; `guard.late` is the measure.
* A commit that took effect and was answered with a 5xx gives the fence back
  (`worker_http.rs:655`), and the repeated request takes effect again;
  `worker-protocol.md:378` says that a 5xx is no proof to the contrary.
* A change that is committed and not announced stays unknown to a browser until it
  loads the tree for another reason (`project_file_deletion.rs:106`,
  `project_file_creation.rs:283`); `client.missed`.
* Of two first uploads to a path the object of the earlier one is referred to by
  nothing and queued nowhere (`assets_persistence.rs:99`, `133`); theorem
  `OnlyRacingUploadsForget`.
* A grant may be disabled while a live token exists: request A has refreshed and not
  stored the result, request B is refused with the old token and marks the grant,
  whose secret still is the old one, and A's update, which wants an active row, then
  changes nothing and its tokens are lost.  So is one disabled by a refusal that had
  nothing to do with the token.  `GrantMatchesProvider` says only what
  `mark_grant_reauthorization_required_if_current` ensures: the refused secret is
  the stored one.
* An attempt that lapses when its queue deadline has passed ends the job as
  `expired` (`finalization.rs:224`), though it was running; the document reserves
  `expired` for preparation and queue entries (`document-processing.md:191`).
  `JobLifecycle` follows the code.

The others are the cycle of locks between a guest's admission and a change of the
share link, and an organization's project that is granted while a membership
changes (`Access`); a heartbeat that read the clock before its claim lapsed
(`worker_persistence.rs:594`) and renews it after `try_claim` counted the slots
without it (`worker_persistence.rs:365`), which lets a session hold more claims
than slots until one of them closes (`WorkerSessions`); a push that was cut off, and the sync time after a merge
(`Versioning`); a local checkpoint branch ahead of the database, where every
retry is refused by Git (`GitSync`).  Two more are visible in the model and have
no property: `mark_provider_reauth_required` (`access_token.rs:200`) may mark a
grant that was authorized anew in between, and of two first logins of one subject
the second may be told that its email belongs to another account (`Accounts`).

## Proofs

The runs check small instances; the theorems hold for all sets of jobs, Core
processes, tabs, requests, users, edits and paths, and for all leases, limits and
numbers of failures that the named assumptions allow.  The assumptions
(`ConstantsAssumption`, `TimeAssumption`, `AgentAssumption`, `RequestsAssumption`,
`SessionsAssumption`, `Bounds`, `NoneAssumption`, `CollaborationAssumption`,
`PathAssumption`, `BoundAssumption`, `PathsAssumption`, `AtomsAssumption`,
`ContentsAssumption`, `BoundsAssumption`, `UsersAssumption`, `WriterAssumption`,
`ExternalsAssumption`, `ProvidersAssumption`) say that limits are numbers, that a value standing for
"none" is not one of the others, and that the named members of a set are in it;
TLC evaluates them in the runs.  Each proof module proves `Invariance`, that its
inductive invariant holds, by a lemma per action or group of actions, and derives
the listed theorems from it.  TLC checked each inductive invariant with the
constants of the run before it was proved.

**`ProcessingJobsProofs`.**  `TypeCorrectness`, `ClaimsAreFenced`,
`CancellationIsKept`, `BudgetIsKept` and `ResultIsPublishedOnce` follow from the
inductive invariant `IInv == TypeOK /\ CoreHasJob /\ JobInv`.  None of the
properties is inductive alone.  The fence needs that attempts beyond the counter
do not exist and that only the attempt named by the current claim runs, because
a late call is stopped by comparing exactly these.  Publishing once needs that a
job which is not finalizing holds no token and that the token of a finalizer is
one it was given, so that of two finalizers one fails the comparison.  The budget
needs the counter's bound together with the states in which it may still grow.

`ResultIsWhole` rests on `ResultInv`, which speaks of what a Core process has in
memory between its transactions: the files it staged are those of one accepted
delivery and hold the required roles, and the jobs it is about to expire or
delete are settled.  With it the artifacts of a job are one delivery at each
moment and not only when they are published.  `ImplementsLifecycle` is the
refinement of `JobLifecycle`: each action is matched with the step of the
lifecycle it takes for the job it changes (`Lives`, `Moves`, `Publishes`,
`Cancels`, `Deletes`) and leaves the others where they are.  `ResultsStay` adds
that nothing happens to a settled job but its deletion: its artifacts change only
when a finalizer that still holds the job's token publishes them, which no settled
job has.

**`WorkerProofs`, the lease.**  `SandboxStopsInTime` and `WorkIsExclusive` hold for
every timeout, margin, lease and clock difference, without a condition on how late
an answer is.  The invariant says that an armed timer is due before the lease it
stands for but for the lateness it recorded (`GuardInv`), that a reported lease is
one Core still grants unless the job is cancelled, and that a job is granted again
only after its attempt closed or its lease passed (`LeaseInv`).

**`WorkerProofs`, replay.**  `AnswersAreStable` and `EffectsAreFenced` hold under
`RequestsTimely`: an execution ends before its reservation lapses
(`MaxRun < PendingTTL`), and a reservation is kept no longer than an answer
(`PendingTTL <= ReplayTTL`), as the constants of `worker_idempotency.rs` and the
request timeout have it.  The invariant says that a running handler owns the
record of its identifier (`CallInv`, `OneCall`), that the record of the first
answer is there as long as its window lasts (`FirstInv`), and that the record of a
mutation which took effect, and was not reported as failed, keeps other executions
away (`EffectInv`).

**`WorkerProofs`, sessions.**  `SlotsAreKept`, `TasksFitPermits` and
`ShutdownStrandsNothing` hold for every number of sessions, jobs and slots and
every `Lag`.  The first argues over sets: a grant adds one claim to a set that
`try_claim` counted, and what it did not count had lapsed by the clock it read,
so it has lapsed now, or was renewed late and is excepted.  The last needs that
an agent none of whose calls failed knows of each claim Core runs for it, because
it works on it or waits for the answer that grants it (`HeldInv`).  The proof
corrected the model: with handlers that read the clock before their commit, a
late renewal breaks the ceiling as it was stated before, and a long poll that the
agent gave up may still be granted a claim.

**`AssetStoreProofs`.**  `AssetsStayStored` needs `StoreInv`: what an open
transaction has read is still what it replaces, because of the locks it holds
(`LockInv`, `TodoInv`), and nobody who may still delete an object, neither the
queue, nor the worker after its claim, nor a handler after its commit, has in
mind the object of an asset or of an upload in flight (`AssetInv`, `StagedInv`).
`CapturesReadPinned` adds that a deletion which has looked for pins already does
not have an object a job reads (`ReadInv`).  `AdmissionBounded` needs that what a
submission counted under the account's lock is still true when it inserts
(`AdmissionInv`).  `OnlyRacingUploadsForget` needs
`TodoInv`: the rows that a commit replaces are exactly the ones it queues, unless it
found none and another upload has made one since (`Overwritten`).

**`AccountsProofs`.**  `LoginMethodsRemain` needs that until a removal commits the
user's lock keeps the other method it counted (`LockInv`, `RemovalInv`);
`SubjectsHaveOneAccount` that a login of a subject goes on with the account its
identity names, which is never removed (`RequestInv`, `SubjectInv`);
`GrantsMatchProvider` that the tokens a refresh read and the ones it stores were
issued to the same account, and that a request about to mark a grant was refused
the very secret it compares with (`RequestInv`, `GrantInv`).

**`CollaborationProofs`.**  `NoEditIsLost` and `CapturesSeeAccepted` follow from
`StoreInv`: one snapshot per document, with a watermark the sequence has reached,
the rows beyond it still in the log.  `ReadersMissNothing` and
`StaleStreamsAreTold` add what each stream's queue, payload and step owe
(`StreamInv`), so that an edit or an epoch which has not arrived has a sender.

**`VersioningProofs`.**  `UncommittedStaysPending`, `LiveTransfersAreRevisions`
and `PushAnswersAreTrue`.  The argument compares trees.  The Workspace *follows*
an older tree when only edits lie between them, all marked, and *agrees* with a
commit when it has nothing unmarked that the commit lacks.  It agrees with the
head at every step (`HeadInv`) but those of a push between Git's move of the
branch and the import or the reset; there the captured files agree with the old
head, and the Workspace follows the files or is the import (`PushInv`).  A
snapshot is followed from the moment it is taken, and the commit made of it is
the snapshot (`StagedInv`), which is why comparing versions is enough to clear
the marks.  The answer needs that ancestors only grow by a commit on top of the
head, and that a reset goes back to before the pushed commit (`AnswerInv`).  That the
Workspace has nothing of a rejected push is a second layer on top of it
(`MadeInv`, `RejectInv`): what is in a tree was made, so a push that was not
imported is in no file; and one that was is undone by the recorded files as long
as nothing but the import lies on top of them, which is what the version
compared by the recovery says.  `LiveTransfersAreRevisions` needs that a path
which is neither touched nor unseen is the same in the Workspace and at the head
when the sync was recorded.  The proof corrected the model: the exception for a push that was cut off ended with
the next push, while the branch still held the unimported commit; it now lasts
until a sync is recorded, and the theorem states the stronger property.

**`AccessSyncProofs`, access.**  `LockInv` lists, for each kind of request, the locks it may
hold and those it still has to take; `ExclusionInv` says that no two hold locks
that block each other.  `WritersMayWrite` follows from `RightInv`: a right that
was checked and is lost moves the epoch away from the stream's.
`ClassificationAlwaysHolds` needs that what a request read of the template status
under the project's lock still holds (`StatusInv`).  `LocksAlwaysOrdered` gives
each lock a level and shows that a request waits only for a higher one than it
holds, except in the cycle the property names.

**`AccessSyncProofs`, synchronisation.**  `UpToDateHolds`, `SyncAppliesOnce`,
`OthersCommitsStay` and `CheckpointsNeverGoBack`.  `WorkersInv` says that a worker
works on a claimed row of a linked project and that the project's lock keeps the
two apart.  `CheckpointInv` says of the link, of the queue row and of the worker's
memory alike that what they recorded is a commit for the version they recorded it
for, not older than the link's, and, as long as that version is current, with the
files of the Workspace: that is why deriving the state from versions is enough.
It needs that the version is read before the flush, so that it is never newer
than the files.  `OnceInv` says that a job which was applied is only ever resumed:
every failure after the commit leads to a retry in the phase `revision`, with the
one exception of the property.

**`WorkspaceProofs`.**  `EntryFileStays`, `CopiesAreWhole`, `SnapshotsAreCurrent`
and `WritersAreApart`.  `LockInv` says that a request holds the project's row from
its checks to its end, and one that holds it FOR UPDATE holds it alone, without
other writers and without a reader of a snapshot.  `WriteInv` then keeps what the
checks saw: the write of an exclusive request leaves an entry file that exists if
it commits now, and a shared one removes no text and does not move the entry
(`KeepsTexts`), although it may put an asset in the place of another document.  A
commit of a shared request waits for a reader (`VersionLock`), so that what the
reader has read stays what is committed.  `NumbersStayDistinct` and
`RowsOnlyAdvance` are about `change_sequence`: a number that was drawn is at most
the sequence, and what an open transaction is about to write has a larger number
than the row it replaces (`NumbersInv`), which its row lock or the project's keeps
true until it commits, in whichever order the numbers were drawn.  The proof is about the server's part of
the state; the browser's part changes none of it.

**Only model-checked.**  Every invariant, and every action property, of a run is
also proved; the theorems that state no property of a run (`ResultsStay`,
`OnlyRacingUploadsForget`, `RowsOnlyAdvance` and others) were checked with TLC on the
constants of a run first.  The liveness properties (`JobsSettle`, `CancellationStopsWork`,
`SessionsClose`, `UpdatesProjected`, `TreeConverges`, `DeletionsHappen`,
`EditsReachHistory`, `OperationsSettle`) stay with TLC, because the prover handles
neither fairness nor ENABLED; so does the type of the browser's part of
`Workspace`.

## Limits

* Bytes: digests, sizes, media types, the content of inputs, artifacts and
  bundles, Yjs encodings, Git objects; the validation of a delivery beyond the
  presence of the required roles, and of an import beyond accepted or not.
* `try_claim` takes the oldest claimable job and skips locked rows; the model
  takes any claimable job.  The sweep handles a batch; the model's batch holds
  every row.  The delay before a job is tried again is modelled (`RetryDelay`,
  `nextAt`); those of the Git queues are not: a retry there is due at any later
  step.
* `maintain_lifecycle` is one transaction; the retention statement is a step of its
  own after the sweep, since what it waits for may change in between, so that others
  may see the sweep before it.
* `Authorize` is one step for the reads of the content epoch, the document and the
  access epoch.  A document belongs to one content epoch, so that a read in between
  either finds the same document or closes the stream, and the access epoch is read
  again after the join (`RevalidateAccess`).
* A sync of groups takes the lock of the user's groups (`SyncLocks`) also when there
  is no row to lock; it can only wait longer than the code.
* One processor per session, always reported healthy, as the SDK does.
* One project, document stream, link or organization at a time; interference
  between projects exists only through limits and locks of the account, which
  `AssetStore` and `Accounts` have.
* The database is one sequence of transactions, except where a transaction that
  waits for locks is split into its steps (`Access`, `Accounts`, `Workspace`,
  bootstrap and capture), for the snapshot of the retention statement, and for
  the age of `now`.
* Presence and cursor messages, listings, downloads, thumbnails, PDF artifacts,
  the project catalogue, personal access tokens, password hashing: they read, or
  change one row that nothing modelled here depends on.
* Not modelled: configuration and formats, the LaTeX worker behind the SDK, the
  runtime caches, start-up and shutdown order of the server beyond a stop at any
  step, the compilation actor and AI session of the browser, deployment.

## Plan

1. Further results from the invariants at hand: the epoch announced to the streams
   never runs ahead of the project's (`Collaboration`), a version of the Workspace
   is never marked as synced before a commit holds it (`Versioning`), an answered
   request is never executed under another payload (`WorkerRequests`).
2. A small module for the single flight of the runtime caches.
