--------------------------- MODULE ProcessingJobs ---------------------------
(***************************************************************************)
(* The durable document-processing job of TOSS Core: admission of the      *)
(* prepared input, claims of worker sessions, artifact staging, delivery,  *)
(* cancellation, lease recovery, Core-owned finalization, result reuse and *)
(* retention.  Every action is one database transaction of                 *)
(* backend/src/document_processing; between two of them any other handler, *)
(* the maintenance loop of any Core process, or a crash may come.          *)
(*                                                                         *)
(* A claim identifier is a fresh random UUID stored in one attempt row, so *)
(* claim n of a job is its n-th attempt, and 0 is SQL null.  A worker call *)
(* may arrive at any time after the claim was handed out: late, twice, or  *)
(* never.                                                                  *)
(***************************************************************************)
EXTENDS Integers, FiniteSets

CONSTANTS
  Jobs,              \* job identifiers (never reused)
  Cores,             \* Core processes, each with one maintenance loop
  Roles,             \* artifact roles of the operation contract
  Required,          \* the roles the contract requires
  Inputs,            \* cache identities: input, options, contract and scope
  None,              \* SQL null for a job reference or an input
  MaxAttempts,       \* processing_jobs.max_attempts
  MaxActive,         \* admission limit on unfinished jobs
  ClaimLease, CancelGrace, TransferTTL, FinalizationLease, QueueWait, Retention,
  Lag,               \* how old the `now` of a handler may be at its commit
  Horizon,           \* bound: users, workers and faults act before this time
  MaxTime            \* bound: the clock stops here

ASSUME ConstantsAssumption ==
  /\ None \notin Jobs /\ None \notin Inputs
  /\ Required \subseteq Roles /\ Required # {}
  /\ MaxAttempts \in Nat \ {0}
  /\ MaxActive \in Nat
  /\ ClaimLease \in Nat \ {0} /\ CancelGrace \in Nat
  /\ TransferTTL \in Nat \ {0} /\ FinalizationLease \in Nat \ {0}
  /\ QueueWait \in Nat \ {0} /\ Retention \in Nat \ {0}
  /\ Lag \in Nat /\ Horizon \in Nat /\ MaxTime \in Nat

VARIABLES
  clock,      \* server time
  jobs,       \* processing_jobs
  attempts,   \* processing_attempts, by job and attempt number
  transfers,  \* upload rows of processing_transfers, by attempt and role
  uploads,    \* upload requests that passed the claim check, not yet stored
  artifacts,  \* processing_artifacts of each job
  projects,   \* committed publications of each job (an import provisions a
              \* Workspace project in the same transaction)
  core        \* the maintenance loop of each Core process

vars == <<clock, jobs, attempts, transfers, uploads, artifacts,
          projects, core>>

-----------------------------------------------------------------------------
(***************************************************************************)
(* Rows.                                                                   *)
(***************************************************************************)
AttemptNumbers == 1..MaxAttempts

Active   == {"preparing", "queued", "running", "finalizing"}
Terminal == {"succeeded", "failed", "cancelled", "expired"}

\* "none" is a job not yet submitted, "deleted" one removed by retention.
JobStates == Active \cup Terminal \cup {"none", "deleted"}

JobRow ==
  [state: JobStates, cancel: BOOLEAN, count: 0..MaxAttempts,
   claim: 0..MaxAttempts, claimExp: Nat, nextAt: Nat, queueExp: Nat,
   retain: Nat, input: Inputs \cup {None}, source: Jobs \cup {None},
   token: Nat, fence: Nat, finExp: Nat]

AbsentJob(st) ==
  [state |-> st, cancel |-> FALSE, count |-> 0, claim |-> 0, claimExp |-> 0,
   nextAt |-> 0, queueExp |-> 0, retain |-> 0, input |-> None,
   source |-> None, token |-> 0, fence |-> 0, finExp |-> 0]

AttemptStates == {"none", "running", "delivered", "failed", "released", "lost"}
AttemptRow == [state: AttemptStates, lease: Nat]
NoAttempt == [state |-> "none", lease |-> 0]

TransferStates == {"none", "issued", "uploaded", "consumed", "expired"}
TransferRow == [state: TransferStates, expires: Nat]
NoTransfer == [state |-> "none", expires |-> 0]

\* The deadline of a closed row is read by nothing, and is 0 here.
ClosedAttempt(st) == [state |-> st, lease |-> 0]
ClosedTransfer(st) == [state |-> st, expires |-> 0]

\* A blob is identified by its content: what one attempt made of one input.
Blob == [job: Jobs, attempt: AttemptNumbers, input: Inputs \cup {None}]
Artifact == [role: Roles, blob: Blob]

\* The loop of spawn_processing_maintenance: where it stands and what it holds
\* in memory (the finalization lease, the staged artifacts, the rows that the
\* snapshot of the retention statement selected).
CoreSteps == {"idle", "retaining", "maintained", "leased", "loaded",
              "publishing", "rejecting"}
CoreState == [pc: CoreSteps, job: Jobs \cup {None}, token: Nat,
              source: Jobs \cup {None}, staged: SUBSET Artifact,
              doomed: SUBSET Jobs]
IdleCore == [pc |-> "idle", job |-> None, token |-> 0, source |-> None,
             staged |-> {}, doomed |-> {}]

TypeOK ==
  /\ clock \in Nat
  /\ jobs \in [Jobs -> JobRow]
  /\ attempts \in [Jobs -> [AttemptNumbers -> AttemptRow]]
  /\ transfers \in [Jobs -> [AttemptNumbers -> [Roles -> TransferRow]]]
  /\ uploads \subseteq Jobs \X AttemptNumbers \X Roles
  /\ artifacts \in [Jobs -> SUBSET Artifact]
  /\ projects \in [Jobs -> Nat]
  /\ core \in [Cores -> CoreState]

Init ==
  /\ clock = 0
  /\ jobs = [j \in Jobs |-> AbsentJob("none")]
  /\ attempts = [j \in Jobs |-> [n \in AttemptNumbers |-> NoAttempt]]
  /\ transfers = [j \in Jobs |-> [n \in AttemptNumbers |->
                                    [r \in Roles |-> NoTransfer]]]
  /\ uploads = {}
  /\ artifacts = [j \in Jobs |-> {}]
  /\ projects = [j \in Jobs |-> 0]
  /\ core = [c \in Cores |-> IdleCore]

-----------------------------------------------------------------------------
(***************************************************************************)
(* Time.  Every handler reads Utc::now() before it begins its transaction  *)
(* and waits for its row lock, so the time it compares with the deadlines  *)
(* may be up to Lag old when it commits.                                   *)
(***************************************************************************)
Nows == {t \in 0..clock : clock - t <= Lag}

\* Users, workers and faults act only before the horizon of the model.
Open == clock < Horizon

\* processing_retry_delay: 2^(n-1) seconds, at least 1 and at most 30.
RetryDelay(n) ==
  IF n <= 1 THEN 1 ELSE IF n >= 6 THEN 30 ELSE <<1, 2, 4, 8, 16>>[n]

Smaller(a, b) == IF a < b THEN a ELSE b

Tick ==
  /\ clock < MaxTime
  /\ clock' = clock + 1
  /\ UNCHANGED <<jobs, attempts, transfers, uploads, artifacts,
                 projects, core>>

-----------------------------------------------------------------------------
(***************************************************************************)
(* The requester.                                                          *)
(***************************************************************************)
\* reserve_job: a new job under the admission lock.
SubmitJob(j, t) ==
  /\ Open
  /\ jobs[j].state = "none"
  /\ Cardinality({k \in Jobs : jobs[k].state \in Active}) < MaxActive
  /\ jobs' = [jobs EXCEPT ![j] =
                [AbsentJob("preparing") EXCEPT !.nextAt = t,
                                               !.queueExp = t + QueueWait,
                                               !.retain = t + Retention]]
  /\ UNCHANGED <<clock, attempts, transfers, uploads, artifacts,
                 projects, core>>

\* store_prepared_input: the immutable input is complete, unless a
\* cancellation or the queue deadline won.
StorePreparedInput(j, i) ==
  /\ Open
  /\ jobs[j].state = "preparing" /\ ~jobs[j].cancel
  /\ jobs' = [jobs EXCEPT ![j] = [@ EXCEPT !.state = "queued", !.input = i]]
  /\ UNCHANGED <<clock, attempts, transfers, uploads, artifacts,
                 projects, core>>

\* mark_preparation_failed.
FailPreparation(j) ==
  /\ Open
  /\ jobs[j].state = "preparing"
  /\ jobs' = [jobs EXCEPT ![j] = [@ EXCEPT !.state = "failed"]]
  /\ UNCHANGED <<clock, attempts, transfers, uploads, artifacts,
                 projects, core>>

\* cancel_job: immediate while nobody works on the job, a request while a
\* worker does, and nothing once Core has accepted a delivery.
CancelJob(j) ==
  /\ Open
  /\ \/ /\ jobs[j].state \in {"preparing", "queued"}
        /\ jobs' = [jobs EXCEPT ![j] =
                      [@ EXCEPT !.state = "cancelled", !.cancel = TRUE]]
     \/ /\ jobs[j].state = "running"
        /\ jobs' = [jobs EXCEPT ![j] = [@ EXCEPT !.cancel = TRUE]]
  /\ UNCHANGED <<clock, attempts, transfers, uploads, artifacts,
                 projects, core>>

-----------------------------------------------------------------------------
(***************************************************************************)
(* Claims.  `for update skip locked` may pass over any row that another    *)
(* transaction holds, so any eligible job may be the candidate.  That the  *)
(* session may claim at all is the subject of WorkerSessions; here a       *)
(* worker with a free slot may come at any time.                           *)
(***************************************************************************)
Claimable(j, t) ==
  /\ jobs[j].state = "queued" /\ ~jobs[j].cancel
  /\ jobs[j].queueExp > t
  /\ jobs[j].nextAt <= t

\* The prior jobs whose result may be reused for j.
CacheSources(j, t) ==
  {k \in Jobs \ {j} : /\ jobs[k].state = "succeeded"
                      /\ jobs[k].input = jobs[j].input
                      /\ jobs[k].retain > t
                      /\ artifacts[k] # {}}

\* try_claim without a reusable result: a new attempt with its lease.
ClaimJob(j, t) ==
  /\ Open
  /\ Claimable(j, t)
  /\ CacheSources(j, t) = {}
  /\ LET n == jobs[j].count + 1 IN
     /\ attempts' = [attempts EXCEPT ![j][n] =
                       [state |-> "running", lease |-> t + ClaimLease]]
     /\ jobs' = [jobs EXCEPT ![j] =
                   [@ EXCEPT !.state = "running", !.count = n, !.claim = n,
                             !.claimExp = t + ClaimLease]]
  /\ UNCHANGED <<clock, transfers, uploads, artifacts, projects, core>>

\* try_claim with one: the job goes straight to finalization, no attempt.
ReuseResult(j, k, t) ==
  /\ Open
  /\ Claimable(j, t)
  /\ k \in CacheSources(j, t)
  /\ jobs' = [jobs EXCEPT ![j] =
                [@ EXCEPT !.state = "finalizing", !.source = k]]
  /\ UNCHANGED <<clock, attempts, transfers, uploads, artifacts,
                 projects, core>>

\* The attempt holds the job's current, unexpired claim.
HoldsClaim(j, n, t) ==
  /\ attempts[j][n].state = "running"
  /\ jobs[j].state = "running"
  /\ jobs[j].claim = n
  /\ attempts[j][n].lease > t

\* Fault: only the attempt's copy of the lease is renewed.
HeartbeatClaimAttemptOnly(j, n, t) ==
  /\ Open
  /\ HoldsClaim(j, n, t)
  /\ LET lease == IF jobs[j].cancel
                    THEN Smaller(attempts[j][n].lease, t + CancelGrace)
                    ELSE t + ClaimLease
     IN attempts' = [attempts EXCEPT ![j][n] =
                       [state |-> "running", lease |-> lease]]
  /\ UNCHANGED <<clock, jobs, transfers, uploads, artifacts, projects, core>>

\* heartbeat_claim: a requested cancellation may only shorten the lease.
HeartbeatClaim(j, n, t) ==
  /\ Open
  /\ HoldsClaim(j, n, t)
  /\ LET lease == IF jobs[j].cancel
                    THEN Smaller(attempts[j][n].lease, t + CancelGrace)
                    ELSE t + ClaimLease
     IN /\ attempts' = [attempts EXCEPT ![j][n] =
                          [state |-> "running", lease |-> lease]]
        /\ jobs' = [jobs EXCEPT ![j] = [@ EXCEPT !.claimExp = lease]]
  /\ UNCHANGED <<clock, transfers, uploads, artifacts, projects, core>>

\* create_artifact_transfer: one live ticket per role, a lapsed one is replaced.
CreateArtifactTransfer(j, n, r, t) ==
  /\ Open
  /\ HoldsClaim(j, n, t) /\ ~jobs[j].cancel
  /\ \/ transfers[j][n][r].state \in {"none", "expired"}
     \/ transfers[j][n][r].state = "issued" /\ transfers[j][n][r].expires <= t
  /\ transfers' = [transfers EXCEPT ![j][n][r] =
                     [state |-> "issued", expires |-> t + TransferTTL]]
  /\ UNCHANGED <<clock, jobs, attempts, uploads, artifacts, projects,
                 core>>

\* upload_transfer locks the transfer row only: the claim is checked on the
\* statement's snapshot, and the job may move on before the upload is stored.
BeginUpload(j, n, r, t) ==
  /\ Open
  /\ HoldsClaim(j, n, t)
  /\ transfers[j][n][r].state = "issued" /\ transfers[j][n][r].expires > t
  /\ uploads' = uploads \cup {<<j, n, r>>}
  /\ UNCHANGED <<clock, jobs, attempts, transfers, artifacts, projects,
                 core>>

StoreUpload(j, n, r) ==
  /\ Open
  /\ <<j, n, r>> \in uploads
  /\ uploads' = uploads \ {<<j, n, r>>}
  /\ transfers' = IF transfers[j][n][r].state = "issued"
                    THEN [transfers EXCEPT ![j][n][r] =
                            [state |-> "uploaded", expires |-> @.expires]]
                    ELSE transfers
  /\ UNCHANGED <<clock, jobs, attempts, artifacts, projects, core>>

\* complete_claim: delivery is accepted from the current claim only, and never
\* once cancellation was requested; the claim closes.
CompleteClaim(j, n, t) ==
  /\ Open
  /\ HoldsClaim(j, n, t) /\ ~jobs[j].cancel
  /\ \A r \in Required : transfers[j][n][r].state \in {"uploaded", "consumed"}
  /\ attempts' = [attempts EXCEPT ![j][n] = ClosedAttempt("delivered")]
  /\ jobs' = [jobs EXCEPT ![j] =
                [@ EXCEPT !.state = "finalizing", !.claim = 0, !.claimExp = 0,
                          !.token = 0, !.finExp = 0]]
  /\ UNCHANGED <<clock, transfers, uploads, artifacts, projects, core>>

\* mutate_failed_claim: the outcome `st` of an attempt that closes without a
\* delivery.  A retry is queued with a delay while the budget lasts.
CloseAttempt(j, n, st, retryable, t) ==
  /\ HoldsClaim(j, n, t)
  /\ attempts' = [attempts EXCEPT ![j][n] = ClosedAttempt(st)]
  /\ LET retry == ~jobs[j].cancel /\ retryable /\ jobs[j].count < MaxAttempts
     IN jobs' = [jobs EXCEPT ![j] = [@ EXCEPT
          !.state = IF jobs[j].cancel THEN "cancelled"
                    ELSE IF retry THEN "queued" ELSE "failed",
          !.claim = 0, !.claimExp = 0,
          !.nextAt = IF retry THEN t + RetryDelay(jobs[j].count)
                     ELSE jobs[j].nextAt]]

FailClaim(j, n, retryable, t) ==
  /\ Open
  /\ CloseAttempt(j, n, "failed", retryable, t)
  /\ UNCHANGED <<clock, transfers, uploads, artifacts, projects, core>>

ReleaseClaim(j, n, t) ==
  /\ Open
  /\ CloseAttempt(j, n, "released", TRUE, t)
  /\ UNCHANGED <<clock, transfers, uploads, artifacts, projects, core>>

-----------------------------------------------------------------------------
(***************************************************************************)
(* maintain_lifecycle.  Its single transaction is two steps here, because  *)
(* the retention statement deletes the rows its snapshot selected: a claim *)
(* that commits in between is not seen by its `not exists`.                *)
(***************************************************************************)
ClaimLapsed(j, t) == jobs[j].state = "running" /\ jobs[j].claimExp <= t

\* Fault: the retry budget is off by one when a lease is lost.
RecoveredOnceMore(job, t) ==
  IF job.cancel THEN "cancelled"
  ELSE IF job.count <= MaxAttempts /\ job.queueExp > t THEN "queued"
  ELSE IF job.queueExp <= t THEN "expired" ELSE "failed"

\* Where a job goes whose worker lost its lease.
Recovered(job, t) ==
  IF job.cancel THEN "cancelled"
  ELSE IF job.count < MaxAttempts /\ job.queueExp > t THEN "queued"
  ELSE IF job.queueExp <= t THEN "expired" ELSE "failed"

SweptJob(j, t) ==
  IF ClaimLapsed(j, t)
    THEN LET st == Recovered(jobs[j], t) IN
         [jobs[j] EXCEPT !.state = st, !.claim = 0, !.claimExp = 0,
            !.nextAt = IF st = "queued" THEN t + RetryDelay(jobs[j].count)
                       ELSE jobs[j].nextAt]
  ELSE IF jobs[j].state \in {"preparing", "queued"} /\ jobs[j].queueExp <= t
    THEN [jobs[j] EXCEPT !.state = "expired"]
  ELSE jobs[j]

SweptAttempt(j, n, t) ==
  IF ClaimLapsed(j, t) /\ jobs[j].claim = n /\ attempts[j][n].state = "running"
    THEN ClosedAttempt("lost")
    ELSE attempts[j][n]

SweptTransfer(j, n, r, t) ==
  IF /\ transfers[j][n][r].state \in {"issued", "uploaded"}
     /\ \/ ClaimLapsed(j, t) /\ jobs[j].claim = n
        \/ transfers[j][n][r].expires <= t
    THEN ClosedTransfer("expired")
    ELSE transfers[j][n][r]

\* The rows that the retention statement selects in job table `rows`.
RetentionLapsed(rows, t) ==
  {j \in Jobs : /\ rows[j].state \in Terminal
                /\ rows[j].retain <= t
                /\ \A k \in Jobs : rows[k].source # j}

Sweep(c, t) ==
  /\ core[c].pc = "idle"
  /\ jobs' = [j \in Jobs |-> SweptJob(j, t)]
  /\ attempts' = [j \in Jobs |-> [n \in AttemptNumbers |-> SweptAttempt(j, n, t)]]
  /\ transfers' = [j \in Jobs |-> [n \in AttemptNumbers |->
                     [r \in Roles |-> SweptTransfer(j, n, r, t)]]]
  /\ core' = [core EXCEPT ![c] =
                [@ EXCEPT !.pc = "retaining",
                          !.doomed = RetentionLapsed(jobs', t)]]
  /\ UNCHANGED <<clock, uploads, artifacts, projects>>

\* The rows go with their attempts, transfers and artifacts (on delete cascade)
\* and leave a null in the jobs that reuse them (on delete set null).
DeleteRetained(c) ==
  /\ core[c].pc = "retaining"
  /\ LET gone == core[c].doomed IN
     /\ jobs' = [j \in Jobs |->
          IF j \in gone THEN AbsentJob("deleted")
          ELSE IF jobs[j].source \in gone THEN [jobs[j] EXCEPT !.source = None]
          ELSE jobs[j]]
     /\ attempts' = [j \in Jobs |->
          IF j \in gone THEN [n \in AttemptNumbers |-> NoAttempt]
          ELSE attempts[j]]
     /\ transfers' = [j \in Jobs |->
          IF j \in gone
            THEN [n \in AttemptNumbers |-> [r \in Roles |-> NoTransfer]]
            ELSE transfers[j]]
     /\ artifacts' = [j \in Jobs |-> IF j \in gone THEN {} ELSE artifacts[j]]
     /\ uploads' = {u \in uploads : u[1] \notin gone}
  /\ core' = [core EXCEPT ![c] =
                [@ EXCEPT !.pc = "maintained", !.doomed = {}]]
  /\ UNCHANGED <<clock, projects>>

\* A database error rolls maintain_lifecycle back and is logged; the pass goes
\* on with finalization.
MaintenanceFails(c) ==
  /\ Open
  /\ core[c].pc = "idle"
  /\ core' = [core EXCEPT ![c] = [@ EXCEPT !.pc = "maintained"]]
  /\ UNCHANGED <<clock, jobs, attempts, transfers, uploads, artifacts,
                 projects>>

-----------------------------------------------------------------------------
(***************************************************************************)
(* finalize_one: a fenced lease, then load, validate and publish or        *)
(* reject, each its own transaction.                                       *)
(***************************************************************************)
\* Fault: only a job without a token may be taken, a lapsed lease is not.
LeaseNeverHeld(j, t) == jobs[j].state = "finalizing" /\ jobs[j].token = 0

\* A job that waits for a finalizer, or whose finalizer's lease lapsed.
LeaseFree(j, t) ==
  /\ jobs[j].state = "finalizing"
  /\ jobs[j].token = 0 \/ jobs[j].finExp <= t

\* acquire_finalization_lease: the token is fresh, like Uuid::new_v4().
AcquireFinalizationLease(c, j, t) ==
  /\ core[c].pc = "maintained"
  /\ LeaseFree(j, t)
  /\ LET token == jobs[j].fence + 1 IN
     /\ jobs' = [jobs EXCEPT ![j] =
                   [@ EXCEPT !.fence = token, !.token = token,
                             !.finExp = t + FinalizationLease]]
     /\ core' = [core EXCEPT ![c] =
                   [@ EXCEPT !.pc = "leased", !.job = j, !.token = token,
                             !.source = jobs[j].source]]
  /\ UNCHANGED <<clock, attempts, transfers, uploads, artifacts,
                 projects>>

\* finalize_one found no job to finalize: the loop sleeps.
Rest(c, t) ==
  /\ core[c].pc = "maintained"
  /\ \A j \in Jobs : ~LeaseFree(j, t)
  /\ core' = [core EXCEPT ![c] = [@ EXCEPT !.pc = "idle"]]
  /\ UNCHANGED <<clock, jobs, attempts, transfers, uploads, artifacts,
                 projects>>

\* Fault: the uploads of every attempt are loaded.
UploadedArtifacts(j) ==
  {[role |-> x[1], blob |-> [job |-> j, attempt |-> x[2], input |-> jobs[j].input]] :
     x \in {y \in Roles \X AttemptNumbers :
             transfers[j][y[2]][y[1]].state = "uploaded"}}

\* The uploads of the delivered attempt that the loader's query returns.
DeliveredArtifacts(j) ==
  LET n == jobs[j].count IN
  {[role |-> r, blob |-> [job |-> j, attempt |-> n, input |-> jobs[j].input]] :
     r \in {q \in Roles : /\ n \in AttemptNumbers
                          /\ attempts[j][n].state = "delivered"
                          /\ transfers[j][n][q].state = "uploaded"}}

\* The artifacts of the source of a reused result, while the job still names it.
ReusedArtifacts(j, k) ==
  IF jobs[j].source = k /\ jobs[k].state = "succeeded" THEN artifacts[k] ELSE {}

HoldsToken(c) ==
  LET j == core[c].job IN
  jobs[j].state = "finalizing" /\ jobs[j].token = core[c].token

\* load_staged_artifacts: nothing is found once the token was superseded.
LoadStagedArtifacts(c) ==
  /\ core[c].pc = "leased"
  /\ LET j == core[c].job
         found == IF ~HoldsToken(c) THEN {}
                  ELSE IF core[c].source # None
                    THEN ReusedArtifacts(j, core[c].source)
                    ELSE DeliveredArtifacts(j)
     IN core' = [core EXCEPT ![c] =
                   [@ EXCEPT !.pc = "loaded", !.staged = found]]
  /\ UNCHANGED <<clock, jobs, attempts, transfers, uploads, artifacts,
                 projects>>

\* validate_finalization: the contract's roles must be there; access or the
\* content may be found wanting.
ValidateFinalization(c) ==
  /\ core[c].pc = "loaded"
  /\ \E verdict \in {"publishing", "rejecting"} :
       /\ verdict = "publishing" =>
            Required \subseteq {a.role : a \in core[c].staged}
       /\ core' = [core EXCEPT ![c] = [@ EXCEPT !.pc = verdict]]
  /\ UNCHANGED <<clock, jobs, attempts, transfers, uploads, artifacts,
                 projects>>

\* lock_finalization.
FinalizationLocked(c, t) ==
  HoldsToken(c) /\ jobs[core[c].job].finExp > t

Settled(c) == [core EXCEPT ![c] = [IdleCore EXCEPT !.pc = "maintained"]]

\* publish_staged_artifacts: one artifact per role (on conflict do nothing), and
\* the uploads they came from are consumed.
PublishedArtifacts(c) ==
  LET old == artifacts[core[c].job] IN
  old \cup {a \in core[c].staged : \A b \in old : b.role # a.role}

ConsumedUploads(c) ==
  [n \in AttemptNumbers |-> [r \in Roles |->
     IF /\ core[c].source = None
        /\ \E a \in core[c].staged : a.role = r /\ a.blob.attempt = n
       THEN ClosedTransfer("consumed")
       ELSE transfers[core[c].job][n][r]]]

\* Fault: the project is provisioned outside the fenced transaction.
PublishProjectFirst(c, t) ==
  /\ core[c].pc = "publishing"
  /\ LET j == core[c].job IN
     /\ projects' = [projects EXCEPT ![j] = @ + 1]
     /\ IF FinalizationLocked(c, t)
          THEN /\ artifacts' = [artifacts EXCEPT ![j] = PublishedArtifacts(c)]
               /\ transfers' = [transfers EXCEPT ![j] = ConsumedUploads(c)]
               /\ jobs' = [jobs EXCEPT ![j] =
                    [@ EXCEPT !.state = "succeeded", !.token = 0, !.finExp = 0]]
          ELSE UNCHANGED <<artifacts, transfers, jobs>>
  /\ core' = Settled(c)
  /\ UNCHANGED <<clock, attempts, uploads>>

\* publish_artifacts and publish_workspace: artifacts, consumed uploads, the
\* provisioned project and the terminal state commit together, or not at all
\* once the lease is lost.
Publish(c, t) ==
  /\ core[c].pc = "publishing"
  /\ LET j == core[c].job IN
     IF FinalizationLocked(c, t)
       THEN /\ artifacts' = [artifacts EXCEPT ![j] = PublishedArtifacts(c)]
            /\ transfers' = [transfers EXCEPT ![j] = ConsumedUploads(c)]
            /\ projects' = [projects EXCEPT ![j] = @ + 1]
            /\ jobs' = [jobs EXCEPT ![j] =
                 [@ EXCEPT !.state = "succeeded", !.token = 0, !.finExp = 0]]
       ELSE UNCHANGED <<artifacts, transfers, projects, jobs>>
  /\ core' = Settled(c)
  /\ UNCHANGED <<clock, attempts, uploads>>

\* Fault: a finalizer that lost its lease still rejects the job.
RejectUnfenced(c, t) ==
  /\ core[c].pc = "rejecting"
  /\ jobs' = [jobs EXCEPT ![core[c].job] =
                [@ EXCEPT !.state = "failed", !.token = 0, !.finExp = 0]]
  /\ core' = Settled(c)
  /\ UNCHANGED <<clock, attempts, transfers, uploads, artifacts,
                 projects>>

\* reject_artifacts.
Reject(c, t) ==
  /\ core[c].pc = "rejecting"
  /\ jobs' = IF FinalizationLocked(c, t)
               THEN [jobs EXCEPT ![core[c].job] =
                      [@ EXCEPT !.state = "failed", !.token = 0, !.finExp = 0]]
               ELSE jobs
  /\ core' = Settled(c)
  /\ UNCHANGED <<clock, attempts, transfers, uploads, artifacts,
                 projects>>

\* The Core process restarts, or a database error ends the pass: the lease and
\* the staged artifacts in memory are gone, the row keeps its token.
Abandon(c) ==
  /\ Open
  /\ core[c].pc \notin {"idle", "retaining"}
  /\ core' = [core EXCEPT ![c] = IdleCore]
  /\ UNCHANGED <<clock, jobs, attempts, transfers, uploads, artifacts,
                 projects>>

-----------------------------------------------------------------------------
Requester ==
  \E j \in Jobs :
    \/ \E t \in Nows : SubmitJob(j, t)
    \/ \E i \in Inputs : StorePreparedInput(j, i)
    \/ FailPreparation(j)
    \/ CancelJob(j)

Worker ==
  \/ \E j \in Jobs, t \in Nows :
       \/ ClaimJob(j, t)
       \/ \E k \in Jobs : ReuseResult(j, k, t)
  \/ \E j \in Jobs, n \in AttemptNumbers, t \in Nows :
       \/ HeartbeatClaim(j, n, t)
       \/ \E r \in Roles : CreateArtifactTransfer(j, n, r, t)
       \/ \E r \in Roles : BeginUpload(j, n, r, t)
       \/ CompleteClaim(j, n, t)
       \/ \E retryable \in BOOLEAN : FailClaim(j, n, retryable, t)
       \/ ReleaseClaim(j, n, t)
  \/ \E j \in Jobs, n \in AttemptNumbers, r \in Roles : StoreUpload(j, n, r)

\* One step of the maintenance loop of a Core process.
Maintain(c) ==
  \/ \E t \in Nows : Sweep(c, t)
  \/ DeleteRetained(c)
  \/ \E j \in Jobs, t \in Nows : AcquireFinalizationLease(c, j, t)
  \/ \E t \in Nows : Rest(c, t)
  \/ LoadStagedArtifacts(c)
  \/ ValidateFinalization(c)
  \/ \E t \in Nows : Publish(c, t)
  \/ \E t \in Nows : Reject(c, t)

Next ==
  \/ Tick
  \/ Requester
  \/ Worker
  \/ \E c \in Cores : Maintain(c) \/ MaintenanceFails(c) \/ Abandon(c)

Spec == Init /\ [][Next]_vars

\* Time passes and every Core process keeps running its loop.  Requesters and
\* workers owe nothing, and a crash is never required.
FairSpec == Spec /\ WF_vars(Tick) /\ \A c \in Cores : WF_vars(Maintain(c))

-----------------------------------------------------------------------------
(***************************************************************************)
(* Properties.                                                             *)
(***************************************************************************)

\* A running job is fenced by exactly one claim: its current claim is its last
\* attempt, that attempt is the only running one of the job, and the two copies
\* of the lease (processing_jobs.claim_expires_at and
\* processing_attempts.lease_expires_at) agree, whatever late or repeated
\* worker call, failure, release or lease recovery came before.
ClaimFence ==
  \A j \in Jobs :
    /\ jobs[j].state = "running" =>
         /\ jobs[j].claim = jobs[j].count
         /\ jobs[j].count > 0
         /\ attempts[j][jobs[j].count].state = "running"
         /\ attempts[j][jobs[j].count].lease = jobs[j].claimExp
    /\ \A n \in AttemptNumbers :
         attempts[j][n].state = "running" =>
           jobs[j].state = "running" /\ jobs[j].claim = n

\* A cancellation that the job row accepted is never overtaken: the job is
\* still running or it is cancelled.  It is never queued again by a failure, a
\* release or a lost lease, and no delivery of it is accepted.
CancellationWins ==
  \A j \in Jobs : jobs[j].cancel => jobs[j].state \in {"running", "cancelled"}

\* try_claim numbers the next attempt without looking at max_attempts: a job
\* that fails, is released or loses its worker comes back to the queue only
\* while another attempt is left.
RetryBudget ==
  \A j \in Jobs : jobs[j].state = "queued" => jobs[j].count < MaxAttempts

\* The result is published once: a job that succeeded provisioned exactly one
\* project, and one that did not provisioned none, even when a finalization
\* lease lapsed and two Core processes finalize the same job.
PublishedOnce ==
  \A j \in Jobs :
    /\ jobs[j].state = "succeeded" => projects[j] = 1
    /\ jobs[j].state \in JobStates \ {"succeeded", "deleted"} => projects[j] = 0
    /\ projects[j] <= 1

\* What is visible is one whole result: only a succeeded job has artifacts, they
\* include every required role once, all of them are what one and the same
\* attempt made of this job's own input, and if that attempt is the job's own,
\* it is the last one and its delivery was accepted.  Uploads of a lost,
\* failed or released attempt never show.
ResultIsOneDelivery ==
  \A j \in Jobs :
    /\ artifacts[j] # {} => jobs[j].state = "succeeded"
    /\ jobs[j].state = "succeeded" =>
         /\ Required \subseteq {a.role : a \in artifacts[j]}
         /\ \A a, b \in artifacts[j] : a.blob = b.blob /\ (a.role = b.role => a = b)
         /\ \A a \in artifacts[j] :
              /\ a.blob.input = jobs[j].input
              /\ a.blob.job = j =>
                   /\ a.blob.attempt = jobs[j].count
                   /\ attempts[j][jobs[j].count].state = "delivered"

\* Core can finish an accepted delivery: while the job is finalizing, the
\* uploads of the delivered attempt that the loader needs are still there.
\* Does not hold: the sweep expires them by their deadline alone.
DeliveryRecoverable ==
  \A j \in Jobs :
    jobs[j].state = "finalizing" /\ jobs[j].count > 0
      /\ attempts[j][jobs[j].count].state = "delivered" =>
        \A r \in Required : transfers[j][jobs[j].count][r].state = "uploaded"

\* A job that reuses a result keeps its source until it published its own
\* artifacts.  Does not hold: retention decides before it waits for the row.
CacheSourceKept ==
  \A j \in Jobs :
    jobs[j].state = "finalizing" /\ ~(\E n \in AttemptNumbers :
        attempts[j][n].state = "delivered") =>
      jobs[j].source # None /\ artifacts[jobs[j].source] # {}

\* No job is stranded.  Once its workers, its user and the faults have fallen
\* silent, every active job is settled by Core alone, from whatever state they
\* left it in and wherever a Core process stopped: it succeeds, fails, expires,
\* is cancelled, or is removed by retention.  Silence is part of the statement,
\* as heartbeat_claim renews a lease without an end; so is a finalization that
\* ends within its lease once the clock stands at MaxTime, as a slower one may
\* be taken over for ever.
JobsSettle ==
  \A j \in Jobs :
    ~Open /\ jobs[j].state \in Active ~> jobs[j].state \in Terminal \cup {"deleted"}

\* The abstract lifecycle, read off the job rows.
Lifecycle == INSTANCE JobLifecycle
               WITH state <- [j \in Jobs |-> jobs[j].state],
                    cancel <- [j \in Jobs |-> jobs[j].cancel],
                    results <- projects

\* Every job follows the public lifecycle: no transition that the API does not
\* promise, no delivery or requeue after an accepted cancellation, and the one
\* result published exactly in the step that makes the job succeeded.
FollowsLifecycle == Lifecycle!Spec
=============================================================================
