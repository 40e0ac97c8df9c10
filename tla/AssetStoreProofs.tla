-------------------------- MODULE AssetStoreProofs --------------------------
(***************************************************************************)
(* What the order of object writes, transactions and deletions guarantees  *)
(* for any number of paths, requests, keys, jobs, failures and stops: the  *)
(* object of an asset stays in the store, a capture finds the objects it   *)
(* pinned, and admission keeps its limit.                                  *)
(***************************************************************************)
EXTENDS AssetStore, FiniteSetTheorems, TLAPS

\* A key that is queued for deletion, or that a request or the worker is about
\* to delete.
Doomed(k) ==
  \/ queue[k] # "absent" \/ worker = k
  \/ \E h \in Handlers : handlers[h].phase \in {"deleting", "unlinking"} /\ k \in handlers[h].todo

Current == UNION {At(p) : p \in Paths}

\* A request holds locks and a path while its transaction is open, and a key of
\* its own from the upload to the end of the transaction.
PhaseInv ==
  \A h \in Handlers :
    /\ handlers[h].phase = "writing" => handlers[h].lock # "none" /\ handlers[h].path # None
    /\ handlers[h].phase # "writing" => handlers[h].lock = "none" /\ handlers[h].path = None
    /\ handlers[h].phase = "stored" => handlers[h].key # None
    /\ handlers[h].key # None => handlers[h].phase \in {"stored", "writing"}
    /\ handlers[h].phase = "writing" /\ handlers[h].todo = {} => handlers[h].key # None

\* Of two open transactions at a path one found no row there, and a lock for
\* update excludes every other transaction.
LockInv ==
  /\ \A h, g \in Handlers :
       /\ handlers[h].lock = "update" /\ g # h => handlers[g].lock = "none"
       /\ handlers[h].path = handlers[g].path /\ handlers[h].path # None /\ g # h =>
            handlers[h].todo = {} \/ handlers[g].todo = {}
  /\ \A s \in Submitters : submitters[s].phase = "capturing" =>
       \A h \in Handlers : handlers[h].lock = "none"

\* What an open transaction has read is still what it replaces, unless it found
\* no row, and what a capture has read is still the project.
TodoInv ==
  /\ \A h \in Handlers : handlers[h].phase = "writing" =>
       \/ handlers[h].todo = IF handlers[h].lock = "update" /\ handlers[h].key # None
                               THEN Current ELSE At(handlers[h].path)
       \/ handlers[h].lock = "share" /\ handlers[h].todo = {}
  /\ \A s \in Submitters : submitters[s].phase = "capturing" => submitters[s].todo = Current

\* Keys are drawn in order.
DrawnInv ==
  \A k \in Keys :
    k \in objects \/ Doomed(k) \/ (\E h \in Handlers : handlers[h].key = k) =>
      k <= counters.keys

\* A staged object is in the store, is nobody else's and nobody deletes it.
StagedInv ==
  \A h \in Handlers : handlers[h].key # None =>
    /\ handlers[h].key \in objects /\ ~Doomed(handlers[h].key)
    /\ \A p \in Paths : assets[p] # handlers[h].key
    /\ \A g \in Handlers : handlers[g].key = handlers[h].key => g = h

\* The object of an asset is in the store, is no other asset's and nobody
\* deletes it.
AssetInv ==
  \A p \in Paths : assets[p] # None =>
    /\ assets[p] \in objects /\ ~Doomed(assets[p])
    /\ \A q \in Paths : assets[q] = assets[p] => q = p

StoreInv == PhaseInv /\ LockInv /\ TodoInv /\ DrawnInv /\ StagedInv /\ AssetInv

\* Jobs are drawn in order, and one request prepares each.
JobInv ==
  /\ \A j \in Jobs : j > counters.jobs => jobs[j] = [state |-> "none", key |-> None]
  /\ \A s \in Submitters :
       /\ submitters[s].job # None => submitters[s].job <= counters.jobs
       /\ submitters[s].phase \in {"idle", "reserving"} <=> submitters[s].job = None
  /\ \A s, t \in Submitters :
       submitters[s].job = submitters[t].job /\ submitters[s].job # None => s = t

\* One request is admitting, and what it counted under the lock still holds.
AdmissionInv ==
  /\ \A s, t \in Submitters :
       submitters[s].phase = "reserving" /\ submitters[t].phase = "reserving" => s = t
  /\ \A s \in Submitters : submitters[s].phase = "reserving" =>
       /\ submitters[s].key # None
       /\ submitters[s].free =>
            /\ Cardinality(ActiveJobs) < MaxActive
            /\ \A j \in Jobs : jobs[j].key # submitters[s].key

\* The objects a job in preparation reads are there, pinned, and no deletion
\* that has looked for pins already is about to remove them.
ReadInv ==
  \A s \in Submitters :
    submitters[s].phase = "reading" /\ jobs[submitters[s].job].state = "preparing" =>
      \A k \in submitters[s].todo :
        /\ k \in objects /\ <<submitters[s].job, k>> \in pins /\ worker # k
        /\ \A h \in Handlers :
             /\ handlers[h].key # k
             /\ handlers[h].phase = "unlinking" => k \notin handlers[h].todo

IInv == TypeOK /\ StoreInv /\ JobInv /\ AdmissionInv /\ AdmissionIsBounded /\ ReadInv

-----------------------------------------------------------------------------
Handler ==
  [phase: {"idle", "stored", "writing", "deleting", "unlinking"},
   lock: {"none", "share", "update"}, path: Paths \cup {None},
   key: Keys \cup {None}, todo: SUBSET Keys]

Submitter ==
  [phase: {"idle", "reserving", "reserved", "capturing", "reading", "captured", "failing"},
   key: IdempotencyKeys \cup {None}, job: Jobs \cup {None},
   free: BOOLEAN, todo: SUBSET Keys]

Counters == [keys: 0..MaxKeys, jobs: 0..MaxJobs, failures: 0..MaxFailures, stops: 0..MaxStops]

JobRow == [state: Active \cup {"none", "done"}, key: IdempotencyKeys \cup {None}]

\* The types of the rows, with names for their records.
LEMMA Types ==
  TypeOK <=> /\ assets \in [Paths -> Keys \cup {None}] /\ objects \subseteq Keys
             /\ queue \in [Keys -> {"absent", "due", "locked"}]
             /\ pins \subseteq Jobs \X Keys /\ jobs \in [Jobs -> JobRow]
             /\ handlers \in [Handlers -> Handler] /\ submitters \in [Submitters -> Submitter]
             /\ worker \in Keys \cup {None} /\ counters \in Counters
  BY DEF TypeOK, Handler, Submitter, Counters, JobRow

\* The fields of the records have the types of their columns.
LEMMA Fields ==
  ASSUME TypeOK
  PROVE  /\ \A h \in Handlers :
              /\ handlers[h].lock \in {"none", "share", "update"}
              /\ handlers[h].path \in Paths \cup {None} /\ handlers[h].key \in Keys \cup {None}
              /\ handlers[h].todo \subseteq Keys
         /\ \A s \in Submitters :
              /\ submitters[s].key \in IdempotencyKeys \cup {None}
              /\ submitters[s].job \in Jobs \cup {None}
              /\ submitters[s].free \in BOOLEAN /\ submitters[s].todo \subseteq Keys
         /\ counters.keys \in 0..MaxKeys /\ counters.jobs \in 0..MaxJobs
         /\ counters.failures \in 0..MaxFailures /\ counters.stops \in 0..MaxStops
         /\ \A p \in Paths : At(p) \subseteq Keys
         /\ \A j \in Jobs : jobs[j].state \in Active \cup {"none", "done"}
<1>1. \A h \in Handlers : handlers[h] \in Handler
  BY Types
<1>2. \A s \in Submitters : submitters[s] \in Submitter
  BY Types
<1>3. counters \in Counters /\ \A p \in Paths : assets[p] \in Keys \cup {None}
  BY Types
<1>4. \A j \in Jobs : jobs[j] \in JobRow
  BY Types
<1> QED
  BY <1>1, <1>2, <1>3, <1>4 DEF Handler, Submitter, Counters, At, JobRow

\* A change opens its transaction with the locks, the path and the keys it
\* replaces.
LEMMA WritesEffect ==
  ASSUME TypeOK, NEW h \in Handlers, NEW lock \in {"share", "update"}, NEW p \in Paths,
         NEW replaced \in SUBSET Keys, Writes(h, lock, p, replaced)
  PROVE  /\ handlers' \in [Handlers -> Handler]
         /\ handlers'[h].phase = "writing" /\ handlers'[h].lock = lock
         /\ handlers'[h].path = p /\ handlers'[h].todo = replaced
         /\ handlers'[h].key = handlers[h].key
         /\ \A g \in Handlers : g # h => handlers'[g] = handlers[g]
         /\ UNCHANGED <<assets, objects, queue, pins, jobs, submitters, worker, counters>>
<1>1. handlers \in [Handlers -> Handler] /\ handlers[h] \in Handler
  BY Types
<1> DEFINE a == [handlers[h] EXCEPT !.phase = "writing"]
           b == [a EXCEPT !.lock = lock]
           c == [b EXCEPT !.path = p]
           d == [c EXCEPT !.todo = replaced]
<1>2. handlers' = [handlers EXCEPT ![h] = d]
  BY <1>1 DEF Writes
<1>3. a \in Handler /\ a.phase = "writing" /\ a.key = handlers[h].key
  BY <1>1 DEF Handler
<1> HIDE DEF a
<1>4. b \in Handler /\ b.phase = "writing" /\ b.key = handlers[h].key /\ b.lock = lock
  BY <1>3 DEF Handler
<1> HIDE DEF b
<1>5. /\ c \in Handler /\ c.phase = "writing" /\ c.key = handlers[h].key /\ c.lock = lock
      /\ c.path = p
  BY <1>4 DEF Handler
<1> HIDE DEF c
<1>6. /\ d \in Handler /\ d.phase = "writing" /\ d.key = handlers[h].key /\ d.lock = lock
      /\ d.path = p /\ d.todo = replaced
  BY <1>5 DEF Handler
<1> HIDE DEF d
<1>7. handlers'[h] = d /\ \A g \in Handlers : g # h => handlers'[g] = handlers[g]
  BY <1>1, <1>2
<1>8. handlers' \in [Handlers -> Handler]
  BY <1>1, <1>2, <1>6
<1>9. UNCHANGED <<assets, objects, queue, pins, jobs, submitters, worker, counters>>
  BY DEF Writes
<1> QED
  BY <1>6, <1>7, <1>8, <1>9

\* What the three kinds of steps leave alone.
LEMMA RequestFrame ==
  ASSUME NEW h, Change(h) \/ HandlerStep(h)
  PROVE  UNCHANGED <<pins, jobs, submitters, worker>>
<1>1. CASE Change(h)
  BY <1>1 DEF Change, PutObject, PutFails, UploadProjectAsset, DeleteProjectAsset,
     DeleteProjectFile, ReplaceProjectContent, Writes
<1>2. CASE HandlerStep(h)
  BY <1>2 DEF HandlerStep, Commit, Rollback, CommitError, LookForPin, DeleteQueuedNow
<1> QED
  BY <1>1, <1>2

\* A submission (create_job) writes no asset, object or queue row.
LEMMA SubmissionFrame ==
  ASSUME NEW s, CreateJob(s) \/ \E key \in IdempotencyKeys : ReserveJob(s, key)
  PROVE  UNCHANGED <<assets, objects, queue, handlers, worker>>
  BY DEF CreateJob, ReserveCommit, CaptureSnapshot, PinProjectAssets, MaterializeBundle,
     FinishReservedJob, FailPreparation, ReserveJob

\* The cleanup worker leaves rows of assets and jobs alone, the job loops the store.
LEMMA MaintenanceFrame ==
  /\ CleanupWorker \/ (\E k \in Keys : LockExpires(k)) =>
       UNCHANGED <<assets, pins, jobs, handlers, submitters>>
  /\ (\E j \in Jobs : CancelJob(j)) \/ (\E S \in SUBSET Jobs : ExpireQueue(S)) =>
       UNCHANGED <<assets, objects, queue, handlers, submitters, worker, counters>>
  BY DEF CleanupWorker, ClaimDueObject, DeleteClaimed, DeferDeletion, LockExpires, CancelJob,
     ExpireQueue

\* Every action keeps the types.
LEMMA TypeStep ==
  ASSUME TypeOK, JobInv, [Next]_vars
  PROVE  TypeOK'
<1> USE Bounds, NoneAssumption
<1>0. /\ assets \in [Paths -> Keys \cup {None}] /\ objects \subseteq Keys
      /\ queue \in [Keys -> {"absent", "due", "locked"}]
      /\ pins \subseteq Jobs \X Keys /\ jobs \in [Jobs -> JobRow]
      /\ handlers \in [Handlers -> Handler] /\ submitters \in [Submitters -> Submitter]
      /\ worker \in Keys \cup {None} /\ counters \in Counters
  BY Types
<1>1. handlers' \in [Handlers -> Handler]
  <2>1. Idle \in Handler
    BY DEF Idle, Handler
  <2>2. ASSUME NEW h \in Handlers, PutObject(h)
        PROVE  handlers' \in [Handlers -> Handler]
    <3>1. counters.keys + 1 \in Keys
      BY <2>2, Fields DEF PutObject, Keys
    <3>2. [Idle EXCEPT !.phase = "stored", !.key = counters.keys + 1] \in Handler
      BY <3>1 DEF Idle, Handler
    <3> QED
      BY <1>0, <2>2, <3>2 DEF PutObject
  <2>3. ASSUME NEW h \in Handlers, NEW p \in Paths,
               \/ UploadProjectAsset(h, p) \/ DeleteProjectAsset(h, p)
               \/ DeleteProjectFile(h, p) \/ ReplaceProjectContent(h, p)
        PROVE  handlers' \in [Handlers -> Handler]
    <3>1. At(p) \in SUBSET Keys /\ UNION {At(q) : q \in Paths} \in SUBSET Keys
      BY Fields
    <3>2. \E lock \in {"share", "update"}, replaced \in SUBSET Keys : Writes(h, lock, p, replaced)
      BY <2>3, <3>1 DEF UploadProjectAsset, DeleteProjectAsset, DeleteProjectFile,
         ReplaceProjectContent
    <3> QED
      BY <3>2, WritesEffect
  <2>4. ASSUME NEW h \in Handlers, Commit(h)
        PROVE  handlers' \in [Handlers -> Handler]
    <3>1. [Idle EXCEPT !.phase = "deleting", !.todo = handlers[h].todo] \in Handler
      BY Fields DEF Idle, Handler
    <3> QED
      BY <1>0, <2>4, <3>1 DEF Commit
  <2>5. ASSUME NEW h \in Handlers, Rollback(h) \/ CommitError(h) \/ DeleteQueuedNow(h)
        PROVE  handlers' \in [Handlers -> Handler]
    BY <1>0, <2>1, <2>5 DEF Rollback, CommitError, DeleteQueuedNow
  <2>6. ASSUME NEW h \in Handlers, LookForPin(h)
        PROVE  handlers' \in [Handlers -> Handler]
    <3> DEFINE kept == {k \in handlers[h].todo : ~Pinned(k)}
    <3>1. handlers' = [handlers EXCEPT ![h] =
            IF \A k \in handlers[h].todo : Pinned(k) THEN Idle
            ELSE [handlers[h] EXCEPT !.phase = "unlinking", !.todo = kept]]
      BY <1>0, <2>6 DEF LookForPin
    <3>2. handlers[h] \in Handler /\ kept \subseteq Keys
      BY <1>0, Fields
    <3> HIDE DEF kept
    <3>3. [handlers[h] EXCEPT !.phase = "unlinking", !.todo = kept] \in Handler
      BY <3>2 DEF Handler
    <3> QED
      BY <1>0, <2>1, <3>1, <3>3
  <2>7. CASE Stop
    BY <2>1, <2>7 DEF Stop
  <2>8. CASE UNCHANGED handlers
    BY <1>0, <2>8
  <2> QED
    BY <2>2, <2>3, <2>4, <2>5, <2>6, <2>7, <2>8, SubmissionFrame, MaintenanceFrame
       DEF Next, Change, HandlerStep, PutFails, vars
<1>2. submitters' \in [Submitters -> Submitter]
  <2>1. NoSubmission \in Submitter
    BY DEF NoSubmission, Submitter
  <2>2. ASSUME NEW s \in Submitters, NEW key \in IdempotencyKeys, ReserveJob(s, key)
        PROVE  submitters' \in [Submitters -> Submitter]
    <3>1. \A free \in BOOLEAN :
            [NoSubmission EXCEPT !.phase = "reserving", !.key = key, !.free = free] \in Submitter
      BY DEF NoSubmission, Submitter
    <3>2. \E free \in BOOLEAN : submitters' = [submitters EXCEPT ![s] =
            [NoSubmission EXCEPT !.phase = "reserving", !.key = key, !.free = free]]
      BY <2>2 DEF ReserveJob
    <3> QED
      BY <1>0, <3>1, <3>2
  <2>3. ASSUME NEW s \in Submitters, ReserveCommit(s)
        PROVE  submitters' \in [Submitters -> Submitter]
    <3>1. CASE /\ counters.jobs < MaxJobs
               /\ submitters' = [submitters EXCEPT ![s].phase = "reserved",
                                                   ![s].job = counters.jobs + 1]
      <4>1. counters.jobs + 1 \in Jobs /\ submitters[s] \in Submitter
        BY <1>0, <3>1, Fields DEF Jobs
      <4>2. [[submitters[s] EXCEPT !.phase = "reserved"] EXCEPT !.job = counters.jobs + 1]
              \in Submitter
        BY <4>1 DEF Submitter
      <4> QED
        BY <1>0, <3>1, <4>2
    <3> QED
      BY <1>0, <2>1, <2>3, <3>1 DEF ReserveCommit
  <2>4. ASSUME NEW s \in Submitters, CaptureSnapshot(s)
        PROVE  submitters' \in [Submitters -> Submitter]
    <3> DEFINE all == UNION {At(p) : p \in Paths}
    <3>1. all \subseteq Keys /\ submitters[s] \in Submitter
      BY <1>0, Fields
    <3>2. submitters' = [submitters EXCEPT ![s] =
                           [[submitters[s] EXCEPT !.phase = "capturing"] EXCEPT !.todo = all]]
      BY <1>0, <2>4 DEF CaptureSnapshot
    <3> HIDE DEF all
    <3>3. [[submitters[s] EXCEPT !.phase = "capturing"] EXCEPT !.todo = all] \in Submitter
      BY <3>1 DEF Submitter
    <3> QED
      BY <1>0, <3>2, <3>3
  <2>5. ASSUME NEW s \in Submitters, PinProjectAssets(s)
        PROVE  submitters' \in [Submitters -> Submitter]
    BY <1>0, <2>5 DEF PinProjectAssets, Submitter
  <2>6. ASSUME NEW s \in Submitters, MaterializeBundle(s)
        PROVE  submitters' \in [Submitters -> Submitter]
    <3>1. PICK phase \in {"captured", "failing"} :
            submitters' = [submitters EXCEPT ![s] =
                             [[submitters[s] EXCEPT !.todo = {}] EXCEPT !.phase = phase]]
      BY <1>0, <2>6 DEF MaterializeBundle
    <3>2. [[submitters[s] EXCEPT !.todo = {}] EXCEPT !.phase = phase] \in Submitter
      BY <1>0 DEF Submitter
    <3> QED
      BY <1>0, <3>1, <3>2
  <2>7. ASSUME NEW s \in Submitters, FinishReservedJob(s) \/ FailPreparation(s)
        PROVE  submitters' \in [Submitters -> Submitter]
    BY <1>0, <2>1, <2>7 DEF FinishReservedJob, FailPreparation
  <2>8. CASE Stop
    BY <2>1, <2>8 DEF Stop
  <2>9. CASE UNCHANGED submitters
    BY <1>0, <2>9
  <2> QED
    BY <2>2, <2>3, <2>4, <2>5, <2>6, <2>7, <2>8, <2>9, RequestFrame, MaintenanceFrame
       DEF Next, CreateJob, vars
<1>3. assets' \in [Paths -> Keys \cup {None}]
  <2>1. \A h \in Handlers : Row(h) \in [Paths -> Keys \cup {None}]
    BY <1>0, Fields DEF Row
  <2>2. ASSUME NEW h \in Handlers, Change(h)
        PROVE  assets' = assets
    BY <2>2 DEF Change, PutObject, PutFails, UploadProjectAsset, DeleteProjectAsset,
       DeleteProjectFile, ReplaceProjectContent, Writes
  <2>3. ASSUME NEW h \in Handlers, HandlerStep(h)
        PROVE  assets' \in {assets, Row(h)}
    BY <2>3 DEF HandlerStep, Commit, Rollback, CommitError, LookForPin, DeleteQueuedNow
  <2>4. ASSUME Next
        PROVE  assets' \in {assets} \cup {Row(h) : h \in Handlers}
    BY <2>2, <2>3, <2>4, SubmissionFrame, MaintenanceFrame DEF Next, Stop
  <2> QED
    BY <1>0, <2>1, <2>4 DEF vars
<1>4. objects' \subseteq Keys
  <2>1. ASSUME NEW h \in Handlers, PutObject(h) \/ PutFails(h)
        PROVE  objects' \subseteq Keys
    <3>1. counters.keys + 1 \in Keys
      BY <2>1, Fields DEF PutObject, PutFails, Keys
    <3> QED
      BY <1>0, <2>1, <3>1 DEF PutObject, PutFails
  <2>2. ASSUME NEW h \in Handlers, HandlerStep(h)
        PROVE  objects' \subseteq objects
    BY <2>2 DEF HandlerStep, Commit, Rollback, CleanUp, CommitError, LookForPin, DeleteQueuedNow
  <2>3. ASSUME NEW h \in Handlers, NEW p \in Paths,
               \/ UploadProjectAsset(h, p) \/ DeleteProjectAsset(h, p)
               \/ DeleteProjectFile(h, p) \/ ReplaceProjectContent(h, p)
        PROVE  objects' = objects
    BY <2>3 DEF UploadProjectAsset, DeleteProjectAsset, DeleteProjectFile,
       ReplaceProjectContent, Writes
  <2> QED
    BY <1>0, <2>1, <2>2, <2>3, SubmissionFrame, MaintenanceFrame
       DEF Next, Change, CleanupWorker, ClaimDueObject, DeleteClaimed, DeferDeletion,
           LockExpires, Stop, vars
<1>5. queue' \in [Keys -> {"absent", "due", "locked"}]
  <2>1. \A keys : Enqueued(keys) \in [Keys -> {"absent", "due", "locked"}]
    BY <1>0 DEF Enqueued
  <2>2. ASSUME NEW h \in Handlers, Change(h)
        PROVE  queue' \in [Keys -> {"absent", "due", "locked"}]
    <3>1. queue' = queue \/ \E keys : queue' = Enqueued(keys)
      BY <2>2 DEF Change, PutObject, PutFails, UploadProjectAsset,
         DeleteProjectAsset, DeleteProjectFile, ReplaceProjectContent, Writes
    <3> QED
      BY <1>0, <2>1, <3>1
  <2>3. ASSUME NEW h \in Handlers, HandlerStep(h)
        PROVE  queue' \in [Keys -> {"absent", "due", "locked"}]
    <3>1. CASE DeleteQueuedNow(h)
      BY <1>0, <3>1 DEF DeleteQueuedNow
    <3>2. CASE ~DeleteQueuedNow(h)
      <4>1. queue' = queue \/ \E keys : queue' = Enqueued(keys)
        BY <2>3, <3>2 DEF HandlerStep, Commit, Rollback, CleanUp, CommitError, LookForPin
      <4> QED
        BY <1>0, <2>1, <4>1
    <3> QED
      BY <3>1, <3>2
  <2>4. CASE CleanupWorker \/ \E k \in Keys : LockExpires(k)
    BY <1>0, <2>4 DEF CleanupWorker, ClaimDueObject, DeleteClaimed, DeferDeletion, LockExpires
  <2> QED
    BY <1>0, <2>2, <2>3, <2>4, SubmissionFrame, MaintenanceFrame DEF Next, Stop, vars
<1>6. worker' \in Keys \cup {None}
  BY <1>0, RequestFrame, SubmissionFrame, MaintenanceFrame
     DEF Next, CleanupWorker, ClaimDueObject, DeleteClaimed, DeferDeletion, LockExpires, Stop, vars
<1>7. pins' \subseteq Jobs \X Keys
  <2>1. ASSUME NEW s \in Submitters, PinProjectAssets(s)
        PROVE  pins' \subseteq Jobs \X Keys
    <3>1. submitters[s].job \in Jobs /\ submitters[s].todo \subseteq Keys
      BY <2>1, Fields DEF PinProjectAssets, JobInv
    <3> QED
      BY <1>0, <2>1, <3>1 DEF PinProjectAssets
  <2>2. ASSUME NEW s \in Submitters, CreateJob(s), ~PinProjectAssets(s)
        PROVE  pins' \subseteq pins
    BY <2>2 DEF CreateJob, ReserveCommit, CaptureSnapshot, MaterializeBundle,
       FinishReservedJob, FailPreparation, Released
  <2> QED
    BY <1>0, <2>1, <2>2, RequestFrame, MaintenanceFrame
       DEF Next, ReserveJob, CancelJob, Released, ExpireQueue, Stop, vars
<1>8. jobs' \in [Jobs -> JobRow]
  <2>1. ASSUME NEW s \in Submitters, ReserveCommit(s)
        PROVE  jobs' \in [Jobs -> JobRow]
    <3>1. [state |-> "preparing", key |-> submitters[s].key] \in JobRow
      BY Fields DEF JobRow, Active
    <3> QED
      BY <1>0, <2>1, <3>1 DEF ReserveCommit
  <2>2. \A j \in Jobs : \A state \in Active \cup {"none", "done"} :
          [jobs EXCEPT ![j].state = state] \in [Jobs -> JobRow]
    BY <1>0 DEF JobRow
  <2>3. ASSUME NEW s \in Submitters, FinishReservedJob(s) \/ FailPreparation(s)
        PROVE  jobs' \in [Jobs -> JobRow]
    <3>1. submitters[s].job \in Jobs
      BY <2>3, Fields DEF FinishReservedJob, FailPreparation, JobInv
    <3>2. CASE FinishReservedJob(s)
      <4>1. jobs' = jobs \/ jobs' = [jobs EXCEPT ![submitters[s].job].state = "queued"]
        BY <3>2 DEF FinishReservedJob
      <4>2. "queued" \in Active \cup {"none", "done"}
        BY DEF Active
      <4> QED
        BY <1>0, <2>2, <3>1, <4>1, <4>2
    <3>3. CASE FailPreparation(s)
      <4>1. PICK state \in Active \cup {"none", "done"} :
              jobs' = [jobs EXCEPT ![submitters[s].job].state = state]
        BY <1>0, <3>1, <3>3, Fields DEF FailPreparation
      <4> QED
        BY <2>2, <3>1, <4>1
    <3> QED
      BY <2>3, <3>2, <3>3
  <2>4. ASSUME NEW S \in SUBSET Jobs, ExpireQueue(S)
        PROVE  jobs' \in [Jobs -> JobRow]
    <3>1. \A j \in Jobs : [jobs[j] EXCEPT !.state = "done"] \in JobRow
      BY <1>0 DEF JobRow
    <3> QED
      BY <1>0, <2>4, <3>1 DEF ExpireQueue
  <2>5. ASSUME NEW j \in Jobs, CancelJob(j)
        PROVE  jobs' \in [Jobs -> JobRow]
    BY <2>2, <2>5 DEF CancelJob
  <2> QED
    BY <1>0, <2>1, <2>3, <2>4, <2>5, RequestFrame, MaintenanceFrame
       DEF Next, CreateJob, ReserveJob, CaptureSnapshot, PinProjectAssets, MaterializeBundle,
           Stop, vars
<1>9. counters' \in Counters
  <2>1. /\ counters.failures < MaxFailures =>
             [counters EXCEPT !.failures = counters.failures + 1] \in Counters
        /\ counters.keys < MaxKeys => [counters EXCEPT !.keys = counters.keys + 1] \in Counters
        /\ counters.jobs < MaxJobs => [counters EXCEPT !.jobs = counters.jobs + 1] \in Counters
        /\ counters.stops < MaxStops => [counters EXCEPT !.stops = counters.stops + 1] \in Counters
        /\ counters.keys < MaxKeys /\ counters.failures < MaxFailures =>
             [counters EXCEPT !.keys = counters.keys + 1, !.failures = counters.failures + 1]
               \in Counters
    <3>1. /\ counters.failures \in 0..MaxFailures /\ counters.keys \in 0..MaxKeys
          /\ counters.jobs \in 0..MaxJobs /\ counters.stops \in 0..MaxStops
      BY Fields
    <3>2. /\ counters.failures < MaxFailures => counters.failures + 1 \in 0..MaxFailures
          /\ counters.keys < MaxKeys => counters.keys + 1 \in 0..MaxKeys
          /\ counters.jobs < MaxJobs => counters.jobs + 1 \in 0..MaxJobs
          /\ counters.stops < MaxStops => counters.stops + 1 \in 0..MaxStops
      BY <3>1
    <3>3. \A n : /\ n \in 0..MaxFailures => [counters EXCEPT !.failures = n] \in Counters
                 /\ n \in 0..MaxKeys => [counters EXCEPT !.keys = n] \in Counters
                 /\ n \in 0..MaxJobs => [counters EXCEPT !.jobs = n] \in Counters
                 /\ n \in 0..MaxStops => [counters EXCEPT !.stops = n] \in Counters
                 /\ \A m \in 0..MaxFailures : n \in 0..MaxKeys =>
                      [counters EXCEPT !.keys = n, !.failures = m] \in Counters
      BY <1>0 DEF Counters
    <3> QED
      BY <3>2, <3>3
  <2>2. ASSUME NEW h \in Handlers, Change(h) \/ HandlerStep(h)
        PROVE  counters' \in Counters
    <3>1. Fails => counters' \in Counters
      BY <2>1 DEF Fails
    <3>2. CASE Change(h)
      BY <1>0, <2>1, <3>2 DEF Change, PutObject, PutFails, UploadProjectAsset,
         DeleteProjectAsset, DeleteProjectFile, ReplaceProjectContent, Writes
    <3>3. CASE HandlerStep(h)
      BY <1>0, <3>1, <3>3
         DEF HandlerStep, Commit, Rollback, CleanUp, CommitError, LookForPin, DeleteQueuedNow
    <3> QED
      BY <2>2, <3>2, <3>3
  <2>3. ASSUME NEW s \in Submitters, CreateJob(s) \/ \E key \in IdempotencyKeys : ReserveJob(s, key)
        PROVE  counters' \in Counters
    BY <1>0, <2>1, <2>3 DEF CreateJob, ReserveCommit, CaptureSnapshot, PinProjectAssets,
       MaterializeBundle, FinishReservedJob, FailPreparation, ReserveJob
  <2>4. CASE CleanupWorker \/ \E k \in Keys : LockExpires(k)
    BY <1>0, <2>1, <2>4
       DEF CleanupWorker, ClaimDueObject, DeleteClaimed, DeferDeletion, LockExpires, Fails
  <2>5. CASE Stop
    BY <2>1, <2>5 DEF Stop
  <2> QED
    BY <1>0, <2>2, <2>3, <2>4, <2>5, MaintenanceFrame DEF Next, vars
<1> QED
  BY <1>1, <1>2, <1>3, <1>4, <1>5, <1>6, <1>7, <1>8, <1>9
     DEF TypeOK, Handler, Submitter, Counters, JobRow

-----------------------------------------------------------------------------
\* What a step of a submission does to its request.
LEMMA SubmissionEffect ==
  ASSUME TypeOK, NEW s \in Submitters
  PROVE  /\ CreateJob(s) \/ (\E key \in IdempotencyKeys : ReserveJob(s, key)) =>
              \A t \in Submitters : t # s => submitters'[t] = submitters[t]
         /\ ReserveCommit(s) =>
              \/ submitters'[s] = NoSubmission /\ UNCHANGED <<jobs, counters>>
              \/ /\ submitters[s].free /\ counters.jobs < MaxJobs
                 /\ submitters'[s].phase = "reserved"
                 /\ submitters'[s].job = counters.jobs + 1
                 /\ jobs' = [jobs EXCEPT ![counters.jobs + 1] =
                               [state |-> "preparing", key |-> submitters[s].key]]
                 /\ counters'.jobs = counters.jobs + 1
         /\ CaptureSnapshot(s) =>
              /\ submitters'[s].phase = "capturing" /\ submitters'[s].todo = Current
              /\ submitters'[s].job = submitters[s].job
         /\ PinProjectAssets(s) =>
              /\ submitters'[s].phase = "reading" /\ submitters'[s].todo = submitters[s].todo
              /\ submitters'[s].job = submitters[s].job
         /\ MaterializeBundle(s) =>
              /\ submitters'[s].phase \in {"captured", "failing"}
              /\ submitters'[s].job = submitters[s].job
         /\ FinishReservedJob(s) \/ FailPreparation(s) => submitters'[s] = NoSubmission
<1>0. submitters \in [Submitters -> Submitter] /\ submitters[s] \in Submitter /\ counters \in Counters
  BY Types
<1>1. ASSUME CreateJob(s) \/ \E key \in IdempotencyKeys : ReserveJob(s, key),
             NEW t \in Submitters, t # s
      PROVE  submitters'[t] = submitters[t]
  BY <1>0, <1>1 DEF CreateJob, ReserveCommit, CaptureSnapshot, PinProjectAssets,
     MaterializeBundle, FinishReservedJob, FailPreparation, ReserveJob
<1>2. ASSUME ReserveCommit(s), submitters[s].free, counters.jobs < MaxJobs
      PROVE  /\ submitters'[s].phase = "reserved" /\ submitters'[s].job = counters.jobs + 1
             /\ counters'.jobs = counters.jobs + 1
  BY <1>0, <1>2 DEF ReserveCommit, Submitter, Counters
<1>3. ASSUME ReserveCommit(s), ~(submitters[s].free /\ counters.jobs < MaxJobs)
      PROVE  submitters'[s] = NoSubmission /\ UNCHANGED <<jobs, counters>>
  BY <1>0, <1>3 DEF ReserveCommit
<1>4. ASSUME ReserveCommit(s), submitters[s].free, counters.jobs < MaxJobs
      PROVE  jobs' = [jobs EXCEPT ![counters.jobs + 1] =
                        [state |-> "preparing", key |-> submitters[s].key]]
  BY <1>4 DEF ReserveCommit
<1>5. ASSUME CaptureSnapshot(s)
      PROVE  /\ submitters'[s].phase = "capturing" /\ submitters'[s].todo = Current
             /\ submitters'[s].job = submitters[s].job
  <2>1. submitters' = [submitters EXCEPT ![s].phase = "capturing", ![s].todo = Current]
    BY <1>5 DEF CaptureSnapshot, Current
  <2> QED
    BY <1>0, <2>1 DEF Submitter
<1>6. ASSUME PinProjectAssets(s)
      PROVE  /\ submitters'[s].phase = "reading" /\ submitters'[s].todo = submitters[s].todo
             /\ submitters'[s].job = submitters[s].job
  BY <1>0, <1>6 DEF PinProjectAssets, Submitter
<1>7. ASSUME MaterializeBundle(s)
      PROVE  /\ submitters'[s].phase \in {"captured", "failing"}
             /\ submitters'[s].job = submitters[s].job
  BY <1>0, <1>7 DEF MaterializeBundle, Submitter
<1>8. ASSUME FinishReservedJob(s) \/ FailPreparation(s)
      PROVE  submitters'[s] = NoSubmission
  BY <1>0, <1>8 DEF FinishReservedJob, FailPreparation
<1> QED
  BY <1>1, <1>2, <1>3, <1>4, <1>5, <1>6, <1>7, <1>8

\* What a step does to the jobs: a submission adds one with a new number, and
\* every other step keeps the keys and makes no job active.
LEMMA JobEffect ==
  ASSUME TypeOK, JobInv, [Next]_vars, ~\E s \in Submitters : ReserveCommit(s)
  PROVE  /\ counters'.jobs = counters.jobs
         /\ \A j \in Jobs : /\ jobs'[j].key = jobs[j].key
                            /\ jobs'[j].state \in Active => jobs[j].state \in Active
                            /\ jobs'[j].state = "preparing" => jobs[j].state = "preparing"
                            /\ jobs[j].state = "none" => jobs'[j] = jobs[j]
<1> USE Bounds, NoneAssumption
<1>0. jobs \in [Jobs -> JobRow] /\ counters \in Counters
  BY Types
<1>1. counters'.jobs = counters.jobs
  <2>1. ASSUME NEW h \in Handlers, Change(h) \/ HandlerStep(h)
        PROVE  counters'.jobs = counters.jobs
    <3>1. CASE Change(h)
      BY <1>0, <3>1 DEF Change, PutObject, PutFails, UploadProjectAsset, DeleteProjectAsset,
         DeleteProjectFile, ReplaceProjectContent, Writes, Counters
    <3>2. CASE HandlerStep(h)
      BY <1>0, <3>2 DEF HandlerStep, Commit, Rollback, CleanUp, CommitError, LookForPin,
         DeleteQueuedNow, Fails, Counters
    <3> QED
      BY <2>1, <3>1, <3>2
  <2>2. ASSUME NEW s \in Submitters,
               CreateJob(s) \/ \E key \in IdempotencyKeys : ReserveJob(s, key)
        PROVE  counters' = counters
    BY <2>2 DEF CreateJob, CaptureSnapshot, PinProjectAssets, MaterializeBundle,
       FinishReservedJob, FailPreparation, ReserveJob
  <2>3. CASE CleanupWorker \/ \E k \in Keys : LockExpires(k)
    BY <1>0, <2>3 DEF CleanupWorker, ClaimDueObject, DeleteClaimed, DeferDeletion,
       LockExpires, Fails, Counters
  <2>4. CASE Stop
    BY <1>0, <2>4 DEF Stop, Counters
  <2> QED
    BY <2>1, <2>2, <2>3, <2>4, MaintenanceFrame DEF Next, vars
<1>2. CASE UNCHANGED jobs
  BY <1>1, <1>2
<1>3. ASSUME NEW i \in Jobs, NEW state \in {"queued", "done"},
             jobs' = [jobs EXCEPT ![i].state = state], jobs[i].state \in Active
      PROVE  \A j \in Jobs : /\ jobs'[j].key = jobs[j].key
                             /\ jobs'[j].state \in Active => jobs[j].state \in Active
                             /\ jobs'[j].state = "preparing" => jobs[j].state = "preparing"
                             /\ jobs[j].state = "none" => jobs'[j] = jobs[j]
  BY <1>0, <1>3 DEF JobRow, Active
<1>4. ASSUME NEW s \in Submitters, FinishReservedJob(s) \/ FailPreparation(s)
      PROVE  \/ UNCHANGED jobs
             \/ \E i \in Jobs, state \in {"queued", "done"} :
                  jobs' = [jobs EXCEPT ![i].state = state] /\ jobs[i].state \in Active
  <2>1. submitters[s].job \in Jobs
    BY <1>4, Fields DEF FinishReservedJob, FailPreparation, JobInv
  <2>2. CASE jobs[submitters[s].job].state = "preparing"
    BY <1>0, <1>4, <2>1, <2>2 DEF FinishReservedJob, FailPreparation, Active
  <2>3. CASE jobs[submitters[s].job].state # "preparing"
    <3>1. CASE FailPreparation(s)
      <4>1. jobs' = [jobs EXCEPT ![submitters[s].job] =
                       [jobs[submitters[s].job] EXCEPT !.state = jobs[submitters[s].job].state]]
        BY <1>0, <2>1, <2>3, <3>1 DEF FailPreparation
      <4>2. [jobs[submitters[s].job] EXCEPT !.state = jobs[submitters[s].job].state]
              = jobs[submitters[s].job]
        BY <1>0, <2>1 DEF JobRow
      <4> QED
        BY <1>0, <2>1, <4>1, <4>2
    <3> QED
      BY <1>4, <2>3, <3>1 DEF FinishReservedJob
  <2> QED
    BY <2>2, <2>3
<1>5. ASSUME NEW S \in SUBSET Jobs, ExpireQueue(S), NEW j \in Jobs
      PROVE  /\ jobs'[j].key = jobs[j].key
             /\ jobs'[j].state \in Active => jobs[j].state \in Active
             /\ jobs'[j].state = "preparing" => jobs[j].state = "preparing"
             /\ jobs[j].state = "none" => jobs'[j] = jobs[j]
  <2>1. jobs'[j] = jobs[j] \/ (jobs'[j] = [jobs[j] EXCEPT !.state = "done"] /\ jobs[j].state \in Active)
    BY <1>5 DEF ExpireQueue
  <2> QED
    BY <1>0, <2>1 DEF JobRow, Active
<1>6. ASSUME NEW j \in Jobs, CancelJob(j)
      PROVE  jobs' = [jobs EXCEPT ![j].state = "done"] /\ jobs[j].state \in Active
  BY <1>6 DEF CancelJob
<1>7. \/ UNCHANGED jobs
      \/ \E i \in Jobs, state \in {"queued", "done"} :
           jobs' = [jobs EXCEPT ![i].state = state] /\ jobs[i].state \in Active
      \/ \E S \in SUBSET Jobs : ExpireQueue(S)
  BY <1>4, <1>6, RequestFrame, MaintenanceFrame
     DEF Next, CreateJob, ReserveJob, CaptureSnapshot, PinProjectAssets, MaterializeBundle,
         Stop, vars
<1> QED
  BY <1>1, <1>2, <1>3, <1>5, <1>7

\* What a step does to the requests that submit.
LEMMA SubmittersEffect ==
  ASSUME TypeOK, JobInv, [Next]_vars, ~\E s \in Submitters : ReserveCommit(s), NEW t \in Submitters
  PROVE  \/ submitters'[t] = submitters[t] \/ submitters'[t] = NoSubmission
         \/ /\ submitters'[t].job = submitters[t].job /\ submitters[t].job # None
            /\ submitters'[t].phase \notin {"idle", "reserving"}
         \/ \E key \in IdempotencyKeys : ReserveJob(t, key)
<1>0. submitters \in [Submitters -> Submitter]
  BY Types
<1>1. ASSUME NEW s \in Submitters,
             CreateJob(s) \/ \E key \in IdempotencyKeys : ReserveJob(s, key)
      PROVE  \/ submitters'[t] = submitters[t] \/ submitters'[t] = NoSubmission
             \/ /\ submitters'[t].job = submitters[t].job /\ submitters[t].job # None
                /\ submitters'[t].phase \notin {"idle", "reserving"}
             \/ \E key \in IdempotencyKeys : ReserveJob(t, key)
  <2>1. CASE t # s
    BY <1>1, <2>1, SubmissionEffect
  <2>2. CASE t = s /\ (CaptureSnapshot(s) \/ PinProjectAssets(s) \/ MaterializeBundle(s))
    <3>1. submitters[s].job # None
      BY <2>2 DEF JobInv, CaptureSnapshot, PinProjectAssets, MaterializeBundle
    <3> QED
      BY <2>2, <3>1, SubmissionEffect
  <2>3. CASE t = s /\ (FinishReservedJob(s) \/ FailPreparation(s))
    BY <2>3, SubmissionEffect
  <2> QED
    BY <1>1, <2>1, <2>2, <2>3 DEF CreateJob
<1>2. CASE Stop
  BY <1>2 DEF Stop
<1> QED
  BY <1>1, <1>2, RequestFrame, MaintenanceFrame DEF Next, vars

\* Job numbers are drawn once, and a job is prepared by the request that drew it.
LEMMA JobStep ==
  ASSUME TypeOK, JobInv, [Next]_vars
  PROVE  JobInv'
<1> USE Bounds, NoneAssumption
<1>0. /\ jobs \in [Jobs -> JobRow] /\ submitters \in [Submitters -> Submitter]
      /\ counters.jobs \in 0..MaxJobs
      /\ \A s \in Submitters : submitters[s].job \in Jobs \cup {None}
      /\ Jobs \subseteq Nat /\ MaxJobs \in Nat
  BY Types, Fields DEF Jobs
<1>1. ASSUME NEW s \in Submitters, ReserveCommit(s)
      PROVE  JobInv'
  <2>1. CreateJob(s)
    BY <1>1 DEF CreateJob
  <2>2. \A t \in Submitters : t # s => submitters'[t] = submitters[t]
    BY <2>1, SubmissionEffect
  <2>3. CASE submitters'[s] = NoSubmission /\ UNCHANGED <<jobs, counters>>
    <3>1. submitters'[s].job = None /\ submitters'[s].phase = "idle"
      BY <2>3 DEF NoSubmission
    <3> QED
      BY <2>2, <2>3, <3>1 DEF JobInv
  <2>4. CASE /\ submitters[s].free /\ counters.jobs < MaxJobs
             /\ submitters'[s].phase = "reserved" /\ submitters'[s].job = counters.jobs + 1
             /\ jobs' = [jobs EXCEPT ![counters.jobs + 1] =
                           [state |-> "preparing", key |-> submitters[s].key]]
             /\ counters'.jobs = counters.jobs + 1
    <3>1. counters.jobs + 1 \in Jobs
      BY <1>0, <2>4 DEF Jobs
    <3>2. \A j \in Jobs : j > counters'.jobs => jobs'[j] = [state |-> "none", key |-> None]
      BY <1>0, <2>4 DEF JobInv
    <3>3. \A t \in Submitters : t # s => submitters'[t].job # counters.jobs + 1
      <4>1. \A t \in Submitters : submitters[t].job # None =>
              submitters[t].job \in Nat /\ submitters[t].job <= counters.jobs
        BY <1>0 DEF JobInv
      <4>2. \A t \in Submitters : submitters[t].job # counters.jobs + 1
        BY <1>0, <3>1, <4>1
      <4> QED
        BY <2>2, <4>2
    <3>4. \A t \in Submitters :
            /\ submitters'[t].job # None => submitters'[t].job <= counters'.jobs
            /\ submitters'[t].phase \in {"idle", "reserving"} <=> submitters'[t].job = None
      <4>1. submitters'[s].job # None /\ submitters'[s].job <= counters'.jobs
        BY <1>0, <2>4, <3>1
      <4>2. \A t \in Submitters : submitters[t].job # None =>
              submitters[t].job <= counters.jobs + 1
        <5>1. \A t \in Submitters : submitters[t].job # None =>
                submitters[t].job \in Nat /\ submitters[t].job <= counters.jobs
          BY <1>0 DEF JobInv
        <5> QED
          BY <1>0, <5>1
      <4> QED
        BY <2>2, <2>4, <4>1, <4>2 DEF JobInv
    <3>5. \A t, u \in Submitters :
            submitters'[t].job = submitters'[u].job /\ submitters'[t].job # None => t = u
      BY <2>2, <2>4, <3>3 DEF JobInv
    <3> QED
      BY <3>2, <3>4, <3>5 DEF JobInv
  <2> QED
    BY <1>1, <2>3, <2>4, SubmissionEffect
<1>2. ASSUME ~\E s \in Submitters : ReserveCommit(s)
      PROVE  JobInv'
  <2>1. /\ counters'.jobs = counters.jobs
        /\ \A j \in Jobs : jobs[j].state = "none" => jobs'[j] = jobs[j]
    BY <1>2, JobEffect
  <2>2. \A t \in Submitters :
          /\ submitters'[t].job # None => submitters'[t].job = submitters[t].job
          /\ submitters'[t].phase \in {"idle", "reserving"} <=> submitters'[t].job = None
    <3> SUFFICES ASSUME NEW t \in Submitters
                 PROVE  /\ submitters'[t].job # None => submitters'[t].job = submitters[t].job
                        /\ submitters'[t].phase \in {"idle", "reserving"} <=> submitters'[t].job = None
      OBVIOUS
    <3>1. ASSUME NEW key \in IdempotencyKeys, ReserveJob(t, key)
          PROVE  submitters'[t].phase = "reserving" /\ submitters'[t].job = None
      BY <1>0, <3>1 DEF ReserveJob, NoSubmission
    <3>2. NoSubmission.job = None /\ NoSubmission.phase = "idle"
      BY DEF NoSubmission
    <3> QED
      BY <1>2, <3>1, <3>2, SubmittersEffect DEF JobInv
  <2>3. \A j \in Jobs : j > counters'.jobs => jobs'[j] = [state |-> "none", key |-> None]
    BY <2>1 DEF JobInv
  <2> QED
    BY <2>1, <2>2, <2>3 DEF JobInv
<1> QED
  BY <1>1, <1>2

\* There are finitely many active jobs, and fewer of them when none is added.
LEMMA ActiveShrinks ==
  /\ IsFiniteSet(ActiveJobs) /\ Cardinality(ActiveJobs) \in Nat
  /\ TypeOK /\ JobInv /\ [Next]_vars /\ (~\E s \in Submitters : ReserveCommit(s)) =>
       Cardinality(ActiveJobs') <= Cardinality(ActiveJobs)
<1>1. IsFiniteSet(Jobs)
  <2>1. 1 \in Int /\ MaxJobs \in Int
    BY Bounds
  <2> QED
    BY <2>1, FS_Interval DEF Jobs
<1>2. IsFiniteSet(ActiveJobs) /\ Cardinality(ActiveJobs) \in Nat
  BY <1>1, FS_Subset, FS_CardinalityType DEF ActiveJobs
<1>3. ASSUME TypeOK, JobInv, [Next]_vars, ~\E s \in Submitters : ReserveCommit(s)
      PROVE  Cardinality(ActiveJobs') <= Cardinality(ActiveJobs)
  <2>1. ActiveJobs' \subseteq ActiveJobs
    BY <1>3, JobEffect DEF ActiveJobs
  <2> QED
    BY <1>2, <2>1, FS_Subset
<1> QED
  BY <1>2, <1>3

\* What was counted under the advisory lock stays true until it is released:
\* nobody else adds a job, and jobs that end only make room.
LEMMA AdmissionStep ==
  ASSUME TypeOK, JobInv, AdmissionInv, AdmissionIsBounded, [Next]_vars
  PROVE  AdmissionInv' /\ AdmissionIsBounded'
<1> USE Bounds, NoneAssumption
<1>0. /\ jobs \in [Jobs -> JobRow] /\ submitters \in [Submitters -> Submitter]
      /\ counters.jobs \in 0..MaxJobs /\ MaxActive \in Nat
  BY Types, Fields
<1>1. ASSUME NEW s \in Submitters, ReserveCommit(s)
      PROVE  AdmissionInv' /\ AdmissionIsBounded'
  <2>1. CreateJob(s) /\ submitters[s].phase = "reserving"
    BY <1>1 DEF CreateJob, ReserveCommit
  <2>2. \A t \in Submitters : t # s => submitters'[t] = submitters[t]
    BY <2>1, SubmissionEffect
  <2>3. submitters'[s].phase # "reserving"
    <3>1. NoSubmission.phase = "idle"
      BY DEF NoSubmission
    <3> QED
      BY <1>1, <3>1, SubmissionEffect
  <2>4. \A t \in Submitters : submitters'[t].phase # "reserving"
    BY <2>1, <2>2, <2>3 DEF AdmissionInv
  <2>5. AdmissionInv'
    BY <2>4 DEF AdmissionInv
  <2>6. CASE UNCHANGED jobs
    BY <2>5, <2>6 DEF AdmissionIsBounded, ActiveJobs
  <2>7. CASE /\ submitters[s].free /\ counters.jobs < MaxJobs
             /\ jobs' = [jobs EXCEPT ![counters.jobs + 1] =
                           [state |-> "preparing", key |-> submitters[s].key]]
    <3> DEFINE j == counters.jobs + 1
    <3>1. j \in Jobs
      BY <1>0, <2>7 DEF Jobs
    <3>2. Cardinality(ActiveJobs) < MaxActive /\ \A i \in Jobs : jobs[i].key # submitters[s].key
      BY <2>1, <2>7 DEF AdmissionInv
    <3> HIDE DEF j
    <3>3. jobs' = [jobs EXCEPT ![j] = [state |-> "preparing", key |-> submitters[s].key]]
      BY <2>7 DEF j
    <3>4. jobs'[j] = [state |-> "preparing", key |-> submitters[s].key]
      BY <1>0, <3>1, <3>3
    <3>5. jobs'[j].key = submitters[s].key /\ \A i \in Jobs : i # j => jobs'[i] = jobs[i]
      BY <1>0, <3>3, <3>4
    <3>6. ActiveJobs' \subseteq ActiveJobs \cup {j}
      BY <3>5 DEF ActiveJobs
    <3>7. /\ IsFiniteSet(ActiveJobs \cup {j}) /\ Cardinality(ActiveJobs) \in Nat
          /\ Cardinality(ActiveJobs \cup {j}) <= Cardinality(ActiveJobs) + 1
      <4>1. IsFiniteSet(ActiveJobs) /\ Cardinality(ActiveJobs) \in Nat
        BY ActiveShrinks
      <4>2. /\ IsFiniteSet(ActiveJobs \cup {j})
            /\ \/ Cardinality(ActiveJobs \cup {j}) = Cardinality(ActiveJobs)
               \/ Cardinality(ActiveJobs \cup {j}) = Cardinality(ActiveJobs) + 1
        BY <4>1, FS_AddElement
      <4> QED
        BY <4>1, <4>2
    <3>8. Cardinality(ActiveJobs') <= Cardinality(ActiveJobs \cup {j})
      BY <3>6, <3>7, FS_Subset
    <3>9. Cardinality(ActiveJobs') <= MaxActive
      <4>1. Cardinality(ActiveJobs') \in Nat /\ Cardinality(ActiveJobs \cup {j}) \in Nat
        BY <3>6, <3>7, FS_Subset, FS_CardinalityType
      <4> QED
        BY <1>0, <3>2, <3>7, <3>8, <4>1
    <3>10. \A i, k \in Jobs : jobs'[i].key = jobs'[k].key /\ jobs'[i].key # None => i = k
      BY <3>2, <3>5 DEF AdmissionIsBounded
    <3> QED
      BY <2>5, <3>9, <3>10 DEF AdmissionIsBounded
  <2> QED
    BY <1>1, <2>6, <2>7, SubmissionEffect
<1>2. ASSUME ~\E s \in Submitters : ReserveCommit(s)
      PROVE  AdmissionInv' /\ AdmissionIsBounded'
  <2>1. \A j \in Jobs : jobs'[j].key = jobs[j].key
    BY <1>2, JobEffect
  <2>2. /\ Cardinality(ActiveJobs') <= Cardinality(ActiveJobs)
        /\ Cardinality(ActiveJobs) \in Nat
    BY <1>2, ActiveShrinks
  <2>3. Cardinality(ActiveJobs') \in Nat
    <3>1. ActiveJobs' \subseteq ActiveJobs
      BY <1>2, JobEffect DEF ActiveJobs
    <3> QED
      BY <3>1, ActiveShrinks, FS_Subset, FS_CardinalityType
  <2>4. AdmissionIsBounded'
    BY <1>0, <2>1, <2>2, <2>3 DEF AdmissionIsBounded
  <2>5. \A t \in Submitters : submitters'[t].phase = "reserving" =>
          submitters'[t] = submitters[t] \/ \E key \in IdempotencyKeys : ReserveJob(t, key)
    <3>1. NoSubmission.phase = "idle"
      BY DEF NoSubmission
    <3> QED
      BY <1>2, <3>1, SubmittersEffect
  <2>6. CASE \E t \in Submitters, key \in IdempotencyKeys : ReserveJob(t, key)
    <3>1. PICK s \in Submitters, key \in IdempotencyKeys : ReserveJob(s, key)
      BY <2>6
    <3>2. \A t \in Submitters : t # s =>
            submitters'[t] = submitters[t] /\ submitters[t].phase # "reserving"
      BY <1>0, <3>1 DEF ReserveJob, AdmissionLock, Admitting
    <3>3. /\ submitters'[s].key = key /\ key # None
          /\ submitters'[s].free <=>
               {j \in Jobs : jobs[j].key = key} = {} /\ Cardinality(ActiveJobs) < MaxActive
      BY <1>0, <3>1 DEF ReserveJob, NoSubmission
    <3>4. jobs' = jobs
      BY <3>1 DEF ReserveJob
    <3>5. ActiveJobs' = ActiveJobs
      BY <3>4 DEF ActiveJobs
    <3>6. submitters'[s].free => Cardinality(ActiveJobs') < MaxActive /\ \A j \in Jobs : jobs'[j].key # key
      BY <3>3, <3>4, <3>5
    <3> QED
      BY <2>4, <3>2, <3>3, <3>6 DEF AdmissionInv
  <2>7. CASE ~\E t \in Submitters, key \in IdempotencyKeys : ReserveJob(t, key)
    <3>1. \A t \in Submitters : submitters'[t].phase = "reserving" => submitters'[t] = submitters[t]
      BY <2>5, <2>7
    <3>2. Cardinality(ActiveJobs) < MaxActive => Cardinality(ActiveJobs') < MaxActive
      BY <1>0, <2>2, <2>3
    <3> QED
      BY <2>1, <2>4, <3>1, <3>2 DEF AdmissionInv
  <2> QED
    BY <2>6, <2>7
<1> QED
  BY <1>1, <1>2

-----------------------------------------------------------------------------
\* A request that holds no lock and no staged object.
Freed(h) ==
  /\ handlers[h].lock = "none" /\ handlers[h].path = None /\ handlers[h].key = None
  /\ handlers[h].phase \notin {"stored", "writing"}

\* The staged object of a request that ends without a commit.
Abandoned(k) == \E h \in Handlers : handlers[h].key = k /\ handlers'[h].key = None

\* A cleanup removes doomed and abandoned objects only, and dooms no others.
LEMMA CleanupKeepsStore ==
  ASSUME TypeOK, TypeOK', StoreInv, UNCHANGED assets, counters'.keys = counters.keys,
         objects' \subseteq objects,
         \A k \in objects \ objects' : Doomed(k) \/ Abandoned(k),
         \A k \in Keys : Doomed(k)' => Doomed(k) \/ Abandoned(k),
         \A h \in Handlers : handlers'[h] = handlers[h] \/ Freed(h)',
         \A s \in Submitters :
           submitters'[s] = submitters[s] \/ submitters'[s].phase # "capturing"
  PROVE  StoreInv'
<1> USE NoneAssumption
<1>0. /\ \A h \in Handlers : /\ handlers[h].key \in Keys \cup {None}
                             /\ handlers'[h].key \in Keys \cup {None}
      /\ \A p \in Paths : assets[p] \in Keys \cup {None}
  <2>1. \A h \in Handlers : handlers[h] \in Handler
    BY Types
  <2>2. \A h \in Handlers : handlers'[h] \in Handler
    BY DEF TypeOK, Handler
  <2>3. \A p \in Paths : assets[p] \in Keys \cup {None}
    BY Types
  <2> QED
    BY <2>1, <2>2, <2>3 DEF Handler
<1>1. PhaseInv'
  BY DEF StoreInv, PhaseInv, Freed
<1>2. LockInv'
  BY DEF StoreInv, LockInv, Freed
<1>3. Current' = Current /\ \A p : At(p)' = At(p)
  BY DEF Current, At
<1>4. TodoInv'
  BY <1>3 DEF StoreInv, TodoInv, Freed
<1>5. DrawnInv'
  <2> SUFFICES ASSUME NEW k \in Keys,
                      k \in objects' \/ Doomed(k)' \/ \E h \in Handlers : handlers'[h].key = k
               PROVE  k <= counters.keys
    BY DEF DrawnInv
  <2>1. k \in objects \/ Doomed(k) \/ \E h \in Handlers : handlers[h].key = k
    BY DEF Abandoned, Freed
  <2> QED
    BY <2>1 DEF StoreInv, DrawnInv
<1>6. StagedInv'
  <2> SUFFICES ASSUME NEW h \in Handlers, handlers'[h].key # None
               PROVE  (/\ handlers[h].key \in objects /\ ~Doomed(handlers[h].key)
                       /\ \A p \in Paths : assets[p] # handlers[h].key
                       /\ \A g \in Handlers : handlers[g].key = handlers[h].key => g = h)'
    BY DEF StagedInv
  <2>1. handlers'[h] = handlers[h]
    BY DEF Freed
  <2>2. PICK k \in Keys : k = handlers[h].key
    BY <1>0, <2>1
  <2>3. /\ k \in objects /\ ~Doomed(k) /\ \A p \in Paths : assets[p] # k
        /\ \A g \in Handlers : handlers[g].key = k => g = h
    BY <2>1, <2>2 DEF StoreInv, StagedInv
  <2>4. ~Abandoned(k)
    BY <2>1, <2>3 DEF Abandoned
  <2>5. k \in objects' /\ ~Doomed(k)' /\ \A g \in Handlers : handlers'[g].key = k => g = h
    BY <2>3, <2>4 DEF Freed
  <2>6. ~Doomed(handlers[h].key)'
    BY <2>1, <2>2, <2>5 DEF Doomed
  <2> QED
    BY <2>1, <2>2, <2>3, <2>5, <2>6
<1>7. AssetInv'
  <2> SUFFICES ASSUME NEW p \in Paths, assets[p] # None
               PROVE  assets[p] \in objects' /\ ~(Doomed(assets[p])')
    BY DEF StoreInv, AssetInv, Doomed
  <2>1. assets[p] \in objects /\ ~Doomed(assets[p])
    BY DEF StoreInv, AssetInv
  <2>2. ~Abandoned(assets[p])
    BY DEF Abandoned, StoreInv, StagedInv
  <2> QED
    BY <1>0, <2>1, <2>2
<1> QED
  BY <1>1, <1>2, <1>4, <1>5, <1>6, <1>7 DEF StoreInv

\* A new object has a key that nothing else holds.
LEMMA PutKeepsStore ==
  ASSUME TypeOK, StoreInv, NEW h \in Handlers, PutObject(h) \/ PutFails(h)
  PROVE  StoreInv'
<1> USE NoneAssumption, Bounds
<1>0. /\ handlers \in [Handlers -> Handler] /\ counters \in Counters /\ objects \subseteq Keys
      /\ queue \in [Keys -> {"absent", "due", "locked"}] /\ worker \in Keys \cup {None}
      /\ assets \in [Paths -> Keys \cup {None}]
      /\ \A g \in Handlers : handlers[g].key \in Keys \cup {None} /\ handlers[g].todo \subseteq Keys
  BY Types, Fields
<1>n. PICK n \in Keys : n = counters.keys + 1
  BY Fields DEF PutObject, PutFails, Keys
<1>1. n \in Keys /\ counters.keys \in Nat /\ n > counters.keys /\ Keys \subseteq Nat
  BY <1>n, Fields DEF Keys
<1>2. UNCHANGED <<assets, worker, submitters>> /\ counters'.keys = n
  BY <1>0, <1>n DEF PutObject, PutFails, Counters
<1>3. /\ n \notin objects /\ ~Doomed(n) /\ (\A g \in Handlers : handlers[g].key # n)
      /\ \A p \in Paths : assets[p] # n
  <2>1. ~(n <= counters.keys)
    BY <1>1
  <2>2. n \notin objects /\ ~Doomed(n) /\ \A g \in Handlers : handlers[g].key # n
    BY <1>1, <2>1 DEF StoreInv, DrawnInv
  <2> QED
    BY <1>1, <2>2 DEF StoreInv, AssetInv
<1>4. objects \subseteq objects' /\ objects' \subseteq objects \cup {n}
  BY <1>n DEF PutObject, PutFails
<1>5. \A g \in Handlers :
        \/ handlers'[g] = handlers[g]
        \/ /\ n \in objects' /\ g = h /\ handlers'[g].phase = "stored" /\ handlers'[g].key = n
           /\ handlers'[g].lock = "none" /\ handlers'[g].path = None
           /\ handlers[g].phase = "idle" /\ UNCHANGED queue
  <2>1. CASE PutFails(h)
    BY <2>1 DEF PutFails
  <2>2. CASE PutObject(h)
    <3>1. handlers'[h] = [Idle EXCEPT !.phase = "stored", !.key = n]
      BY <1>0, <1>n, <2>2 DEF PutObject
    <3>2. \A g \in Handlers : g # h => handlers'[g] = handlers[g]
      BY <1>0, <2>2 DEF PutObject
    <3>3. n \in objects' /\ handlers[h].phase = "idle" /\ UNCHANGED queue
      BY <1>n, <2>2 DEF PutObject
    <3> QED
      BY <3>1, <3>2, <3>3 DEF Idle
  <2> QED
    BY <2>1, <2>2
<1>6. \A k \in Keys : k # n => queue'[k] = queue[k]
  BY <1>0, <1>n DEF PutObject, PutFails, Enqueued
<1>7. \A k \in Keys : k # n => (Doomed(k)' => Doomed(k))
  BY <1>2, <1>5, <1>6 DEF Doomed
<1>8. PhaseInv'
  BY <1>1, <1>5 DEF StoreInv, PhaseInv
<1>9. LockInv'
  BY <1>2, <1>5 DEF StoreInv, LockInv
<1>10. TodoInv'
  <2>1. Current' = Current /\ \A p : At(p)' = At(p)
    BY <1>2 DEF Current, At
  <2> QED
    BY <1>2, <1>5, <2>1 DEF StoreInv, TodoInv
<1>11. DrawnInv'
  <2> SUFFICES ASSUME NEW k \in Keys,
                      k \in objects' \/ Doomed(k)' \/ \E g \in Handlers : handlers'[g].key = k
               PROVE  k <= counters'.keys
    BY DEF DrawnInv
  <2>1. k = n \/ k \in objects \/ Doomed(k) \/ \E g \in Handlers : handlers[g].key = k
    BY <1>4, <1>5, <1>7
  <2>2. k <= counters.keys \/ k = n
    BY <2>1 DEF StoreInv, DrawnInv
  <2> QED
    BY <1>1, <1>2, <2>2
<1>12. StagedInv'
  <2> SUFFICES ASSUME NEW g \in Handlers, handlers'[g].key # None
               PROVE  (/\ handlers[g].key \in objects /\ ~Doomed(handlers[g].key)
                       /\ \A p \in Paths : assets[p] # handlers[g].key
                       /\ \A f \in Handlers : handlers[f].key = handlers[g].key => f = g)'
    BY DEF StagedInv
  <2>1. PICK k \in Keys : k = handlers'[g].key
    BY <1>0, <1>1, <1>5
  <2>2. CASE handlers'[g] = handlers[g]
    <3>1. /\ k \in objects /\ ~Doomed(k) /\ k # n
          /\ \A p \in Paths : assets[p] # k
          /\ \A f \in Handlers : handlers[f].key = k => f = g
      BY <1>3, <2>1, <2>2 DEF StoreInv, StagedInv
    <3>2. ~Doomed(k)' /\ k \in objects' /\ \A f \in Handlers : handlers'[f].key = k => f = g
      BY <1>4, <1>5, <1>7, <3>1
    <3>3. ~Doomed(handlers[g].key)'
      BY <2>1, <3>2 DEF Doomed
    <3> QED
      BY <1>2, <2>1, <3>1, <3>2, <3>3
  <2>3. CASE n \in objects' /\ g = h /\ handlers'[g].key = n /\ UNCHANGED queue
    <3>1. ~Doomed(n)'
      BY <1>2, <1>3, <1>5, <2>3 DEF Doomed
    <3>2. ~Doomed(handlers[g].key)'
      BY <2>3, <3>1 DEF Doomed
    <3>3. \A f \in Handlers : handlers'[f].key = n => f = g
      BY <1>3, <1>5, <2>3
    <3> QED
      BY <1>2, <1>3, <2>3, <3>2, <3>3
  <2> QED
    BY <1>5, <2>2, <2>3
<1>13. AssetInv'
  <2> SUFFICES ASSUME NEW p \in Paths, assets[p] # None
               PROVE  assets[p] \in objects' /\ ~(Doomed(assets[p])')
    BY <1>2 DEF StoreInv, AssetInv, Doomed
  <2>1. PICK k \in Keys : k = assets[p]
    BY <1>0
  <2>2. k \in objects /\ ~Doomed(k) /\ k # n
    BY <1>3, <2>1 DEF StoreInv, AssetInv
  <2>3. k \in objects' /\ ~Doomed(k)'
    BY <1>4, <1>7, <2>2
  <2> QED
    BY <1>2, <2>1, <2>3 DEF Doomed
<1> QED
  BY <1>8, <1>9, <1>10, <1>11, <1>12, <1>13 DEF StoreInv

\* A transaction reads the rows it replaces under the locks it holds.
LEMMA WritesKeepsStore ==
  ASSUME TypeOK, StoreInv, NEW h \in Handlers, handlers[h].phase \in {"idle", "stored"},
         NEW lock \in {"share", "update"}, NEW p \in Paths,
         lock = "share" => KeyShareLock /\ RowFree(p),
         lock = "update" => UpdateLock, handlers[h].key = None => assets[p] # None,
         Writes(h, lock, p, IF lock = "update" /\ handlers[h].key # None THEN Current ELSE At(p))
  PROVE  StoreInv'
<1> USE NoneAssumption
<1> DEFINE replaced == IF lock = "update" /\ handlers[h].key # None THEN Current ELSE At(p)
<1>0. replaced \in SUBSET Keys
  BY Fields DEF Current
<1>1. /\ handlers'[h].phase = "writing" /\ handlers'[h].lock = lock
      /\ handlers'[h].path = p /\ handlers'[h].todo = replaced
      /\ handlers'[h].key = handlers[h].key
      /\ \A g \in Handlers : g # h => handlers'[g] = handlers[g]
      /\ UNCHANGED <<assets, objects, queue, pins, jobs, submitters, worker, counters>>
  BY <1>0, WritesEffect
<1>2. Current' = Current /\ \A q : At(q)' = At(q)
  BY <1>1 DEF Current, At
<1>3. \A k : Doomed(k)' <=> Doomed(k)
  BY <1>1 DEF Doomed
<1>4. \A g \in Handlers : handlers'[g].key = handlers[g].key
  BY <1>1
<1>5. PhaseInv'
  <2>1. handlers[h].key = None => replaced # {}
    BY DEF At
  <2> QED
    BY <1>1, <2>1 DEF StoreInv, PhaseInv
<1>6. LockInv'
  <2>1. \A g \in Handlers : g # h /\ handlers[g].path = p => handlers[g].todo = {}
    <3>1. CASE lock = "share"
      BY <3>1 DEF RowFree
    <3>2. CASE lock = "update"
      BY <3>2 DEF UpdateLock, StoreInv, PhaseInv
    <3> QED
      BY <3>1, <3>2
  <2>2. /\ \A g \in Handlers : handlers[g].lock # "update"
        /\ \A s \in Submitters : submitters[s].phase # "capturing"
        /\ lock = "update" => \A g \in Handlers : handlers[g].lock = "none"
    BY DEF KeyShareLock, UpdateLock, HeldForUpdate
  <2> QED
    BY <1>1, <2>1, <2>2 DEF StoreInv, LockInv
<1>7. TodoInv'
  BY <1>1, <1>2 DEF StoreInv, TodoInv
<1>8. DrawnInv'
  BY <1>1, <1>3, <1>4 DEF StoreInv, DrawnInv
<1>9. StagedInv' /\ AssetInv'
  BY <1>1, <1>3, <1>4 DEF StoreInv, StagedInv, AssetInv, Doomed
<1> QED
  BY <1>5, <1>6, <1>7, <1>8, <1>9 DEF StoreInv

\* The capture reads the assets while no transaction that changes them is open.
LEMMA CaptureKeepsStore ==
  ASSUME TypeOK, StoreInv, NEW s \in Submitters, CaptureSnapshot(s)
  PROVE  StoreInv'
<1>1. UNCHANGED <<assets, objects, queue, handlers, worker, counters>> /\ CreateJob(s)
  BY DEF CaptureSnapshot, CreateJob
<1>2. submitters'[s].todo = Current /\ \A t \in Submitters : t # s => submitters'[t] = submitters[t]
  BY <1>1, SubmissionEffect
<1>3. Current' = Current /\ \A q : At(q)' = At(q)
  BY <1>1 DEF Current, At
<1>4. \A g \in Handlers : handlers[g].lock = "none"
  BY DEF CaptureSnapshot, CaptureLock, UpdateLock
<1>5. LockInv'
  BY <1>1, <1>2, <1>4 DEF StoreInv, LockInv
<1>6. TodoInv'
  BY <1>1, <1>2, <1>3 DEF StoreInv, TodoInv
<1>7. PhaseInv' /\ DrawnInv' /\ StagedInv' /\ AssetInv'
  BY <1>1 DEF StoreInv, PhaseInv, DrawnInv, StagedInv, AssetInv, Doomed
<1> QED
  BY <1>5, <1>6, <1>7 DEF StoreInv

\* A commit, also one whose outcome is reported as an error, dooms what it
\* replaced and nothing else: the rows it did not change hold other keys, and a
\* staged key is in no row.
LEMMA CommitKeepsStore ==
  ASSUME TypeOK, TypeOK', StoreInv, NEW h \in Handlers, handlers[h].phase = "writing",
         RowWritable(h), assets' = Row(h), queue' = Enqueued(handlers[h].todo),
         Freed(h)', handlers'[h].todo \subseteq handlers[h].todo,
         \A g \in Handlers : g # h => handlers'[g] = handlers[g],
         UNCHANGED <<objects, worker, submitters>>, counters'.keys = counters.keys
  PROVE  StoreInv'
<1> USE NoneAssumption
<1>0. /\ queue \in [Keys -> {"absent", "due", "locked"}]
      /\ assets \in [Paths -> Keys \cup {None}] /\ assets' \in [Paths -> Keys \cup {None}]
      /\ \A g \in Handlers : handlers[g].key \in Keys \cup {None}
      /\ handlers[h].todo \subseteq Keys /\ handlers[h].path \in Paths
      /\ \A g \in Handlers : handlers[g].lock \in {"none", "share", "update"}
  BY Types, Fields DEF TypeOK, StoreInv, PhaseInv
<1>1. /\ handlers[h].lock # "none"
      /\ \A s \in Submitters : submitters[s].phase # "capturing"
      /\ \A g \in Handlers : g # h /\ handlers[g].phase = "writing" =>
           /\ handlers[g].lock = "share" /\ handlers[h].lock = "share"
           /\ handlers[g].path = handlers[h].path => handlers[g].todo = {}
  BY <1>0 DEF StoreInv, PhaseInv, LockInv, RowWritable
<1>2. \A k \in Keys : Doomed(k)' => Doomed(k) \/ k \in handlers[h].todo
  <2>1. \A k \in Keys : k \notin handlers[h].todo => queue'[k] = queue[k]
    BY DEF Enqueued
  <2> QED
    BY <2>1 DEF Doomed
<1>3. \A k \in handlers[h].todo : \E q \in Paths : assets[q] = k
  <2>1. \A k \in Current : \E q \in Paths : assets[q] = k
    BY DEF Current, At
  <2>2. \A k \in At(handlers[h].path) : \E q \in Paths : assets[q] = k
    BY <1>0 DEF At
  <2>3. handlers[h].todo \in {Current, At(handlers[h].path), {}}
    BY DEF StoreInv, TodoInv
  <2> QED
    BY <2>1, <2>2, <2>3
<1>4. \A q \in Paths :
        \/ q = handlers[h].path /\ assets'[q] = handlers[h].key
        \/ q # handlers[h].path /\ assets'[q] = None
        \/ /\ q # handlers[h].path /\ assets'[q] = assets[q]
           /\ handlers[h].todo \subseteq At(handlers[h].path)
  BY <1>0 DEF Row, StoreInv, TodoInv
<1>5. PhaseInv'
  BY DEF StoreInv, PhaseInv, Freed
<1>6. LockInv'
  BY <1>1 DEF StoreInv, LockInv, Freed
<1>7. TodoInv'
  <2> SUFFICES ASSUME NEW g \in Handlers, handlers'[g].phase = "writing"
               PROVE  (\/ handlers[g].todo = IF handlers[g].lock = "update" /\ handlers[g].key # None
                                               THEN Current ELSE At(handlers[g].path)
                       \/ handlers[g].lock = "share" /\ handlers[g].todo = {})'
    BY <1>1 DEF TodoInv
  <2>1. g # h /\ handlers'[g] = handlers[g]
    BY DEF Freed
  <2>2. /\ handlers[g].lock = "share" /\ handlers[h].lock = "share"
        /\ handlers[g].path = handlers[h].path => handlers[g].todo = {}
    BY <1>1, <2>1
  <2>3. handlers[g].path \in Paths
    BY <2>1, Fields DEF StoreInv, PhaseInv
  <2> SUFFICES ASSUME handlers[g].todo # {}
               PROVE  (handlers[g].todo = At(handlers[g].path))'
    BY <2>1, <2>2
  <2>4. assets'[handlers[g].path] = assets[handlers[g].path]
    BY <1>0, <2>2, <2>3 DEF Row
  <2>5. handlers[g].todo = {assets[handlers[g].path]} \ {None}
    BY <2>1, <2>2 DEF StoreInv, TodoInv, At
  <2> QED
    BY <2>1, <2>2, <2>4, <2>5 DEF At
<1>8. DrawnInv'
  <2> SUFFICES ASSUME NEW k \in Keys,
                      k \in objects' \/ Doomed(k)' \/ \E g \in Handlers : handlers'[g].key = k
               PROVE  k <= counters.keys
    BY DEF DrawnInv
  <2>1. k \in objects \/ Doomed(k) \/ (\E g \in Handlers : handlers[g].key = k)
          \/ \E q \in Paths : assets[q] = k
    BY <1>2, <1>3 DEF Freed
  <2>2. k \in objects \/ Doomed(k) \/ \E g \in Handlers : handlers[g].key = k
    BY <2>1 DEF StoreInv, AssetInv
  <2> QED
    BY <2>2 DEF StoreInv, DrawnInv
<1>9. StagedInv'
  <2> SUFFICES ASSUME NEW g \in Handlers, handlers'[g].key # None
               PROVE  (/\ handlers[g].key \in objects /\ ~Doomed(handlers[g].key)
                       /\ \A p \in Paths : assets[p] # handlers[g].key
                       /\ \A f \in Handlers : handlers[f].key = handlers[g].key => f = g)'
    BY DEF StagedInv
  <2>1. g # h /\ handlers'[g] = handlers[g]
    BY DEF Freed
  <2>2. PICK k \in Keys : k = handlers[g].key
    BY <1>0, <2>1
  <2>3. /\ k \in objects /\ ~Doomed(k) /\ \A p \in Paths : assets[p] # k
        /\ \A f \in Handlers : handlers[f].key = k => f = g
    BY <2>1, <2>2 DEF StoreInv, StagedInv
  <2>4. ~Doomed(k)'
    BY <1>2, <1>3, <2>3
  <2>5. ~Doomed(handlers[g].key)'
    BY <2>1, <2>2, <2>4 DEF Doomed
  <2>6. \A p \in Paths : assets'[p] # k
    BY <1>4, <2>1, <2>3
  <2>7. \A f \in Handlers : handlers'[f].key = k => f = g
    BY <2>3 DEF Freed
  <2> QED
    BY <2>1, <2>2, <2>3, <2>5, <2>6, <2>7
<1>10. AssetInv'
  <2> SUFFICES ASSUME NEW p \in Paths, assets'[p] # None
               PROVE  (/\ assets[p] \in objects /\ ~Doomed(assets[p])
                       /\ \A q \in Paths : assets[q] = assets[p] => q = p)'
    BY DEF AssetInv
  <2>1. PICK k \in Keys : k = assets'[p]
    BY <1>0
  <2>2. CASE p = handlers[h].path /\ assets'[p] = handlers[h].key
    <3>1. k \in objects /\ ~Doomed(k) /\ \A q \in Paths : assets[q] # k
      BY <2>1, <2>2 DEF StoreInv, StagedInv
    <3>2. ~Doomed(k)'
      BY <1>2, <1>3, <3>1
    <3>3. \A q \in Paths : assets'[q] = k => q = p
      BY <1>4, <2>2, <3>1
    <3>4. ~Doomed(assets[p])'
      BY <2>1, <3>2 DEF Doomed
    <3> QED
      BY <2>1, <3>1, <3>3, <3>4
  <2>3. CASE /\ p # handlers[h].path /\ assets'[p] = assets[p]
             /\ handlers[h].todo \subseteq At(handlers[h].path)
    <3>1. k \in objects /\ ~Doomed(k) /\ \A q \in Paths : assets[q] = k => q = p
      BY <2>1, <2>3 DEF StoreInv, AssetInv
    <3>2. k \notin handlers[h].todo
      BY <1>0, <2>3, <3>1 DEF At
    <3>3. handlers[h].key # k
      BY <2>1, <2>3 DEF StoreInv, StagedInv
    <3>4. ~Doomed(k)'
      BY <1>2, <3>1, <3>2
    <3>5. \A q \in Paths : assets'[q] = k => q = p
      BY <1>4, <3>1, <3>3
    <3>6. ~Doomed(assets[p])'
      BY <2>1, <3>4 DEF Doomed
    <3> QED
      BY <2>1, <3>1, <3>5, <3>6
  <2> QED
    BY <1>4, <2>2, <2>3
<1> QED
  BY <1>5, <1>6, <1>7, <1>8, <1>9, <1>10 DEF StoreInv

\* Every action keeps the store consistent with the rows.
LEMMA StoreStep ==
  ASSUME TypeOK, TypeOK', JobInv, StoreInv, [Next]_vars
  PROVE  StoreInv'
<1> USE NoneAssumption
<1>0. /\ handlers \in [Handlers -> Handler] /\ counters \in Counters
      /\ queue \in [Keys -> {"absent", "due", "locked"}] /\ worker \in Keys \cup {None}
  BY Types
<1>1. ASSUME NEW h \in Handlers, PutObject(h) \/ PutFails(h)
      PROVE  StoreInv'
  BY <1>1, PutKeepsStore
<1>2. ASSUME NEW h \in Handlers, NEW p \in Paths,
             UploadProjectAsset(h, p) \/ DeleteProjectAsset(h, p)
      PROVE  StoreInv'
  <2>1. CASE UploadProjectAsset(h, p)
    <3>1. handlers[h].key # None
      BY <2>1 DEF UploadProjectAsset, StoreInv, PhaseInv
    <3> QED
      BY <2>1, <3>1, WritesKeepsStore DEF UploadProjectAsset
  <2>2. CASE DeleteProjectAsset(h, p)
    BY <2>2, WritesKeepsStore DEF DeleteProjectAsset
  <2> QED
    BY <1>2, <2>1, <2>2
<1>3. ASSUME NEW h \in Handlers, NEW p \in Paths,
             DeleteProjectFile(h, p) \/ ReplaceProjectContent(h, p)
      PROVE  StoreInv'
  <2>1. CASE DeleteProjectFile(h, p)
    <3>1. handlers[h].key = None
      BY <2>1 DEF DeleteProjectFile, StoreInv, PhaseInv
    <3> QED
      BY <2>1, <3>1, WritesKeepsStore DEF DeleteProjectFile
  <2>2. CASE ReplaceProjectContent(h, p)
    <3>1. handlers[h].key # None
      BY <2>2 DEF ReplaceProjectContent, StoreInv, PhaseInv
    <3>2. Writes(h, "update", p, Current)
      BY <2>2 DEF ReplaceProjectContent, Current
    <3> QED
      BY <2>2, <3>1, <3>2, WritesKeepsStore DEF ReplaceProjectContent
  <2> QED
    BY <1>3, <2>1, <2>2
<1>4. Idle.lock = "none" /\ Idle.path = None /\ Idle.key = None /\ Idle.phase = "idle" /\ Idle.todo = {}
  BY DEF Idle
<1>5. ASSUME NEW h \in Handlers, Commit(h)
      PROVE  StoreInv'
  <2>1. handlers'[h] = [Idle EXCEPT !.phase = "deleting", !.todo = handlers[h].todo]
    BY <1>0, <1>5 DEF Commit
  <2>2. Freed(h)' /\ handlers'[h].todo = handlers[h].todo
    BY <2>1 DEF Freed, Idle
  <2>3. \A g \in Handlers : g # h => handlers'[g] = handlers[g]
    BY <1>0, <1>5 DEF Commit
  <2> QED
    BY <1>5, <2>2, <2>3, CommitKeepsStore DEF Commit
<1>6. ASSUME NEW h \in Handlers, CommitError(h) \/ Rollback(h)
      PROVE  StoreInv'
  <2>1. /\ handlers'[h] = Idle /\ handlers[h].phase = "writing"
        /\ \A g \in Handlers : g # h => handlers'[g] = handlers[g]
    BY <1>0, <1>6 DEF CommitError, Rollback
  <2>2. Freed(h)' /\ handlers'[h].todo = {}
    BY <1>4, <2>1 DEF Freed
  <2>3. counters'.keys = counters.keys /\ UNCHANGED <<worker, submitters>>
    BY <1>0, <1>6 DEF CommitError, Rollback, CleanUp, Fails, Counters
  <2>4. CASE assets' = Row(h) /\ queue' = Enqueued(handlers[h].todo) /\ UNCHANGED objects /\ RowWritable(h)
    BY <2>1, <2>2, <2>3, <2>4, CommitKeepsStore
  <2>5. CASE /\ UNCHANGED assets /\ objects' \subseteq objects
             /\ \A k \in objects \ objects' : k = handlers[h].key
             /\ queue' = queue \/ queue' = Enqueued({handlers[h].key} \ {None})
    <3>1. \A k : k = handlers[h].key => Abandoned(k)
      BY <1>4, <2>1 DEF Abandoned
    <3>2. \A k \in Keys : Doomed(k)' => Doomed(k) \/ Abandoned(k)
      <4>1. \A k \in Keys : queue'[k] = queue[k] \/ k = handlers[h].key
        BY <2>5 DEF Enqueued
      <4> QED
        BY <1>4, <2>1, <2>3, <3>1, <4>1 DEF Doomed
    <3> QED
      BY <2>1, <2>2, <2>3, <2>5, <3>1, <3>2, CleanupKeepsStore
  <2>6. \/ assets' = Row(h) /\ queue' = Enqueued(handlers[h].todo) /\ UNCHANGED objects /\ RowWritable(h)
        \/ /\ UNCHANGED assets /\ objects' \subseteq objects
           /\ \A k \in objects \ objects' : k = handlers[h].key
           /\ queue' = queue \/ queue' = Enqueued({handlers[h].key} \ {None})
    BY <1>6 DEF CommitError, Rollback, CleanUp, UnreferencedImports
  <2> QED
    BY <2>4, <2>5, <2>6
<1>7. ASSUME NEW h \in Handlers, LookForPin(h)
      PROVE  StoreInv'
  <2>1. /\ UNCHANGED <<assets, objects, queue, submitters, worker, counters>>
        /\ handlers[h].phase = "deleting"
        /\ \A g \in Handlers : g # h => handlers'[g] = handlers[g]
    BY <1>0, <1>7 DEF LookForPin
  <2>2. Freed(h)' /\ handlers'[h].todo \subseteq handlers[h].todo
    <3>1. Freed(h) /\ handlers[h] \in Handler
      BY <1>0, <2>1 DEF StoreInv, PhaseInv, Freed
    <3> DEFINE left == {k \in handlers[h].todo : ~Pinned(k)}
    <3>2. handlers'[h] = Idle \/ handlers'[h] = [handlers[h] EXCEPT !.phase = "unlinking", !.todo = left]
      BY <1>0, <1>7 DEF LookForPin
    <3>3. left \subseteq handlers[h].todo
      OBVIOUS
    <3> HIDE DEF left
    <3> QED
      BY <1>4, <3>1, <3>2, <3>3 DEF Freed, Handler
  <2>3. \A k \in Keys : Doomed(k)' => Doomed(k)
    BY <2>1, <2>2 DEF Doomed
  <2> QED
    BY <2>1, <2>2, <2>3, CleanupKeepsStore
<1>8. ASSUME NEW h \in Handlers, DeleteQueuedNow(h)
      PROVE  StoreInv'
  <2>1. /\ UNCHANGED <<assets, submitters, worker>> /\ handlers[h].phase = "unlinking"
        /\ handlers'[h] = Idle /\ \A g \in Handlers : g # h => handlers'[g] = handlers[g]
        /\ counters'.keys = counters.keys
        /\ objects' \subseteq objects /\ \A k \in objects \ objects' : k \in handlers[h].todo
        /\ \A k \in Keys : queue'[k] = queue[k] \/ queue'[k] = "absent"
    BY <1>0, <1>8 DEF DeleteQueuedNow, Fails, Counters
  <2>2. Freed(h)'
    BY <1>4, <2>1 DEF Freed
  <2>3. \A k \in Keys : Doomed(k)' => Doomed(k)
    BY <1>4, <2>1 DEF Doomed
  <2>4. \A k \in objects \ objects' : Doomed(k)
    BY <2>1 DEF Doomed
  <2> QED
    BY <2>1, <2>2, <2>3, <2>4, CleanupKeepsStore
<1>9. CASE CleanupWorker \/ \E k \in Keys : LockExpires(k)
  <2>1. UNCHANGED <<assets, handlers, submitters>>
    BY <1>9, MaintenanceFrame
  <2>2. /\ counters'.keys = counters.keys /\ objects' \subseteq objects
        /\ \A k \in objects \ objects' : k = worker
    BY <1>0, <1>9 DEF CleanupWorker, ClaimDueObject, DeleteClaimed, DeferDeletion, LockExpires,
       Fails, Counters
  <2>3. \A k \in Keys : /\ worker' = k => worker = k \/ queue[k] # "absent"
                        /\ queue'[k] # "absent" => queue[k] # "absent" \/ worker = k
    <3>1. CASE \E k \in Keys : ClaimDueObject(k)
      BY <1>0, <3>1 DEF ClaimDueObject
    <3>2. CASE DeleteClaimed \/ DeferDeletion
      BY <1>0, <3>2 DEF DeleteClaimed, DeferDeletion
    <3>3. CASE \E k \in Keys : LockExpires(k)
      BY <1>0, <3>3 DEF LockExpires
    <3> QED
      BY <1>9, <3>1, <3>2, <3>3 DEF CleanupWorker
  <2>4. \A k \in Keys : Doomed(k)' => Doomed(k)
    BY <2>1, <2>3 DEF Doomed
  <2>5. \A k \in objects \ objects' : Doomed(k)
    BY <2>2 DEF Doomed
  <2> QED
    BY <2>1, <2>2, <2>4, <2>5, CleanupKeepsStore
<1>10. CASE Stop
  <2>1. /\ UNCHANGED <<assets, objects, queue>> /\ worker' = None /\ counters'.keys = counters.keys
        /\ \A h \in Handlers : handlers'[h] = Idle
        /\ \A s \in Submitters : submitters'[s] = NoSubmission
    BY <1>0, <1>10 DEF Stop, Counters
  <2>2. \A h \in Handlers : Freed(h)'
    BY <1>4, <2>1 DEF Freed
  <2>3. \A k \in Keys : Doomed(k)' => Doomed(k)
    BY <1>4, <2>1 DEF Doomed
  <2>4. \A s \in Submitters : submitters'[s].phase # "capturing"
    BY <2>1 DEF NoSubmission
  <2> QED
    BY <2>1, <2>2, <2>3, <2>4, CleanupKeepsStore
<1>11. ASSUME NEW s \in Submitters, CaptureSnapshot(s)
       PROVE  StoreInv'
  BY <1>11, CaptureKeepsStore
<1>12. ASSUME UNCHANGED <<assets, objects, queue, handlers, worker>>, counters'.keys = counters.keys,
              \A s \in Submitters :
                submitters'[s] = submitters[s] \/ submitters'[s].phase # "capturing"
       PROVE  StoreInv'
  <2>1. \A k \in Keys : Doomed(k)' => Doomed(k)
    BY <1>12 DEF Doomed
  <2> QED
    BY <1>12, <2>1, CleanupKeepsStore
<1>13. ASSUME NEW s \in Submitters, ~CaptureSnapshot(s),
              CreateJob(s) \/ \E key \in IdempotencyKeys : ReserveJob(s, key)
       PROVE  StoreInv'
  <2>1. \A t \in Submitters : t # s => submitters'[t] = submitters[t]
    BY <1>13, SubmissionEffect
  <2>2. submitters'[s].phase # "capturing"
    <3>1. NoSubmission.phase = "idle"
      BY DEF NoSubmission
    <3>2. ASSUME NEW key \in IdempotencyKeys, ReserveJob(s, key)
          PROVE  submitters'[s].phase = "reserving"
      BY <3>2, Types DEF ReserveJob, NoSubmission
    <3> QED
      BY <1>13, <3>1, <3>2, SubmissionEffect DEF CreateJob
  <2>3. counters'.keys = counters.keys
    BY <1>0, <1>13 DEF CreateJob, ReserveCommit, PinProjectAssets, MaterializeBundle,
       FinishReservedJob, FailPreparation, ReserveJob, Counters
  <2> QED
    BY <1>12, <1>13, <2>1, <2>2, <2>3, SubmissionFrame
<1>14. CASE (\E j \in Jobs : CancelJob(j)) \/ \E S \in SUBSET Jobs : ExpireQueue(S)
  BY <1>12, <1>14, MaintenanceFrame
<1>15. CASE UNCHANGED vars
  BY <1>12, <1>15 DEF vars
<1> QED
  BY <1>1, <1>2, <1>3, <1>5, <1>6, <1>7, <1>8, <1>9, <1>10, <1>11, <1>13, <1>14, <1>15
     DEF Next, Change, HandlerStep

-----------------------------------------------------------------------------
\* An object that is there and that nobody is about to delete without looking
\* for pins again.
Safe(k) ==
  /\ k \in objects /\ worker # k
  /\ \A h \in Handlers :
       /\ handlers[h].key # k
       /\ handlers[h].phase = "unlinking" => k \notin handlers[h].todo

\* A pinned object stays: deletions look for the pin, and a cleanup removes
\* staged objects only.
LEMMA PinnedStaysSafe ==
  ASSUME TypeOK, StoreInv, [Next]_vars, NEW k \in Keys, Safe(k), Pinned(k)
  PROVE  Safe(k)'
<1> USE NoneAssumption, Bounds
<1>0. /\ handlers \in [Handlers -> Handler] /\ counters.keys \in 0..MaxKeys
  BY Types, Fields
<1>1. ASSUME NEW h \in Handlers, PutObject(h) \/ PutFails(h)
      PROVE  Safe(k)'
  <2>1. k <= counters.keys
    BY DEF Safe, StoreInv, DrawnInv
  <2>2. k # counters.keys + 1
    BY <1>0, <2>1 DEF Keys
  <2>3. worker' = worker /\ objects \subseteq objects'
    BY <1>1 DEF PutObject, PutFails
  <2>4. \A g \in Handlers :
          \/ handlers'[g] = handlers[g]
          \/ handlers'[g].key = counters.keys + 1 /\ handlers'[g].phase = "stored"
    BY <1>0, <1>1 DEF PutObject, PutFails, Idle
  <2> QED
    BY <2>2, <2>3, <2>4 DEF Safe
<1>2. ASSUME NEW h \in Handlers, NEW p \in Paths,
             \/ UploadProjectAsset(h, p) \/ DeleteProjectAsset(h, p)
             \/ DeleteProjectFile(h, p) \/ ReplaceProjectContent(h, p)
      PROVE  Safe(k)'
  <2>1. At(p) \in SUBSET Keys /\ UNION {At(q) : q \in Paths} \in SUBSET Keys
    BY Fields
  <2>2. PICK lock \in {"share", "update"}, replaced \in SUBSET Keys : Writes(h, lock, p, replaced)
    BY <1>2, <2>1 DEF UploadProjectAsset, DeleteProjectAsset, DeleteProjectFile,
       ReplaceProjectContent
  <2>3. /\ handlers'[h].phase = "writing" /\ handlers'[h].key = handlers[h].key
        /\ \A g \in Handlers : g # h => handlers'[g] = handlers[g]
        /\ UNCHANGED <<objects, worker>>
    BY <2>2, WritesEffect
  <2> QED
    BY <2>3 DEF Safe
<1>3. ASSUME NEW h \in Handlers, HandlerStep(h)
      PROVE  Safe(k)'
  <2>1. worker' = worker
    BY <1>3, RequestFrame
  <2>2. \A g \in Handlers : g # h => handlers'[g] = handlers[g]
    BY <1>0, <1>3 DEF HandlerStep, Commit, Rollback, CommitError, LookForPin, DeleteQueuedNow
  <2>3. CASE LookForPin(h)
    <3> DEFINE left == {i \in handlers[h].todo : ~Pinned(i)}
    <3>1. handlers'[h] = Idle \/ handlers'[h] = [handlers[h] EXCEPT !.phase = "unlinking", !.todo = left]
      BY <1>0, <2>3 DEF LookForPin
    <3>2. k \notin left
      OBVIOUS
    <3> HIDE DEF left
    <3>3. handlers[h] \in Handler /\ objects' = objects
      BY <1>0, <2>3 DEF LookForPin
    <3>4. handlers'[h].key # k /\ (handlers'[h].phase = "unlinking" => k \notin handlers'[h].todo)
      <4>1. k # None /\ handlers[h].key # k
        BY DEF Safe
      <4>2. Idle.key = None /\ Idle.phase = "idle"
        BY DEF Idle
      <4>3. LET new == [handlers[h] EXCEPT !.phase = "unlinking", !.todo = left]
            IN  new.key = handlers[h].key /\ new.todo = left
        BY <3>3 DEF Handler
      <4>4. CASE handlers'[h] = Idle
        BY <4>1, <4>2, <4>4
      <4>5. CASE handlers'[h] = [handlers[h] EXCEPT !.phase = "unlinking", !.todo = left]
        BY <3>2, <4>1, <4>3, <4>5
      <4> QED
        BY <3>1, <4>4, <4>5
    <3> QED
      BY <2>1, <2>2, <3>3, <3>4 DEF Safe
  <2>4. CASE ~LookForPin(h)
    <3>1. handlers'[h].key = None /\ handlers'[h].phase \in {"idle", "deleting"}
      <4>1. \/ handlers'[h] = Idle
            \/ handlers'[h] = [Idle EXCEPT !.phase = "deleting", !.todo = handlers[h].todo]
        BY <1>0, <1>3, <2>4 DEF HandlerStep, Commit, Rollback, CommitError, DeleteQueuedNow
      <4>2. CASE handlers'[h] = Idle
        BY <4>2 DEF Idle
      <4>3. CASE handlers'[h] = [Idle EXCEPT !.phase = "deleting", !.todo = handlers[h].todo]
        BY <4>3 DEF Idle
      <4> QED
        BY <4>1, <4>2, <4>3
    <3>2. k \in objects'
      <4>1. handlers[h].key # k /\ (handlers[h].phase = "unlinking" => k \notin handlers[h].todo)
        BY DEF Safe
      <4>2. k \in objects
        BY DEF Safe
      <4> QED
        BY <1>3, <2>4, <4>1, <4>2 DEF HandlerStep, Commit, Rollback, CleanUp, CommitError,
           UnreferencedImports, DeleteQueuedNow
    <3> QED
      BY <2>1, <2>2, <3>1, <3>2 DEF Safe
  <2> QED
    BY <2>3, <2>4
<1>4. CASE CleanupWorker \/ \E i \in Keys : LockExpires(i)
  <2>1. UNCHANGED handlers
    BY <1>4, MaintenanceFrame
  <2>2. worker' # k /\ k \in objects'
    BY <1>4 DEF CleanupWorker, ClaimDueObject, DeleteClaimed, DeferDeletion, LockExpires, Safe
  <2> QED
    BY <2>1, <2>2 DEF Safe
<1>5. CASE Stop
  BY <1>5 DEF Stop, Idle, Safe
<1>6. CASE UNCHANGED <<objects, handlers, worker>>
  BY <1>6 DEF Safe
<1> QED
  BY <1>1, <1>2, <1>3, <1>4, <1>5, <1>6, SubmissionFrame, MaintenanceFrame DEF Next, Change, vars

\* The pins of a job in preparation are removed by the request that prepares it,
\* and by what ends the job.
LEMMA PinsRemain ==
  ASSUME TypeOK, JobInv, [Next]_vars, NEW s \in Submitters, NEW j \in Jobs, submitters[s].job = j,
         submitters[s].phase = "reading", submitters'[s] = submitters[s],
         jobs'[j].state = "preparing", NEW k, <<j, k>> \in pins
  PROVE  <<j, k>> \in pins'
<1>0. jobs \in [Jobs -> JobRow] /\ pins \subseteq Jobs \X Keys
  BY Types
<1>1. ASSUME NEW t \in Submitters, CreateJob(t) \/ \E key \in IdempotencyKeys : ReserveJob(t, key)
      PROVE  <<j, k>> \in pins'
  <2>1. CASE MaterializeBundle(t) \/ FinishReservedJob(t) \/ FailPreparation(t)
    <3>1. t # s
      <4>1. NoSubmission.phase = "idle"
        BY DEF NoSubmission
      <4> QED
        BY <2>1, <4>1, SubmissionEffect
    <3>2. submitters[t].job # j
      BY <3>1, NoneAssumption DEF JobInv
    <3> QED
      BY <2>1, <3>2 DEF MaterializeBundle, FinishReservedJob, FailPreparation, Released
  <2>2. CASE ~(MaterializeBundle(t) \/ FinishReservedJob(t) \/ FailPreparation(t))
    BY <1>1, <2>2 DEF CreateJob, ReserveCommit, CaptureSnapshot, PinProjectAssets, ReserveJob
  <2> QED
    BY <2>1, <2>2
<1>2. ASSUME NEW i \in Jobs, CancelJob(i)
      PROVE  <<j, k>> \in pins'
  <2>1. i # j
    BY <1>0, <1>2 DEF CancelJob, JobRow
  <2> QED
    BY <1>2, <2>1 DEF CancelJob, Released
<1>3. ASSUME NEW S \in SUBSET Jobs, ExpireQueue(S)
      PROVE  <<j, k>> \in pins'
  <2>1. j \notin S /\ jobs[j].state # "done"
    BY <1>0, <1>3 DEF ExpireQueue, JobRow
  <2> QED
    BY <1>3, <2>1 DEF ExpireQueue
<1>4. CASE UNCHANGED pins
  BY <1>4
<1> QED
  BY <1>1, <1>2, <1>3, <1>4, RequestFrame, MaintenanceFrame DEF Next, Stop, vars

\* What a capture reads is pinned before the locks are released and stays there
\* until it was read.
LEMMA ReadStep ==
  ASSUME TypeOK, StoreInv, JobInv, ReadInv, [Next]_vars
  PROVE  ReadInv'
<1> USE NoneAssumption, Bounds
<1>0. /\ jobs \in [Jobs -> JobRow] /\ submitters \in [Submitters -> Submitter]
      /\ counters.jobs \in 0..MaxJobs /\ Jobs \subseteq Nat
      /\ \A s \in Submitters : submitters[s].job \in Jobs \cup {None} /\ submitters[s].todo \subseteq Keys
  BY Types, Fields DEF Jobs
<1> SUFFICES ASSUME NEW s \in Submitters, submitters'[s].phase = "reading",
                    jobs'[submitters'[s].job].state = "preparing",
                    NEW k \in submitters'[s].todo
             PROVE  Safe(k)' /\ <<submitters'[s].job, k>> \in pins'
  BY DEF ReadInv, Safe
<1>1. CASE PinProjectAssets(s)
  <2>1. submitters'[s].todo = submitters[s].todo /\ submitters'[s].job = submitters[s].job
    BY <1>1, SubmissionEffect
  <2>2. k \in Current /\ UNCHANGED <<objects, handlers, worker>>
    BY <1>1, <2>1 DEF PinProjectAssets, StoreInv, TodoInv
  <2>3. PICK p \in Paths : assets[p] = k /\ k # None
    BY <2>2 DEF Current, At
  <2>4. k \in objects /\ ~Doomed(k) /\ \A h \in Handlers : handlers[h].key # k
    BY <2>3 DEF StoreInv, AssetInv, StagedInv
  <2>5. Safe(k)
    BY <2>4 DEF Safe, Doomed
  <2>6. Safe(k)'
    BY <2>2, <2>5 DEF Safe
  <2>7. <<submitters[s].job, k>> \in pins'
    BY <1>1, <2>1 DEF PinProjectAssets
  <2> QED
    BY <2>1, <2>6, <2>7
<1>2. CASE ~PinProjectAssets(s)
  <2>1. submitters'[s] = submitters[s]
    <3>1. NoSubmission.phase = "idle"
      BY DEF NoSubmission
    <3>2. ASSUME NEW t \in Submitters,
                 CreateJob(t) \/ \E key \in IdempotencyKeys : ReserveJob(t, key)
          PROVE  submitters'[s] = submitters[s]
      <4>1. CASE t # s
        BY <3>2, <4>1, SubmissionEffect
      <4>2. CASE t = s
        <5>1. ASSUME NEW key \in IdempotencyKeys, ReserveJob(s, key)
              PROVE  submitters'[s].phase = "reserving"
          BY <1>0, <5>1 DEF ReserveJob, NoSubmission
        <5> QED
          BY <1>2, <3>1, <3>2, <4>2, <5>1, SubmissionEffect DEF CreateJob
      <4> QED
        BY <4>1, <4>2
    <3>3. CASE Stop
      BY <3>1, <3>3 DEF Stop
    <3> QED
      BY <3>2, <3>3, RequestFrame, MaintenanceFrame DEF Next, vars
  <2>2. PICK j \in Jobs : j = submitters[s].job
    BY <1>0, <2>1 DEF JobInv
  <2>3. jobs[j].state = "preparing"
    <3>1. CASE \E t \in Submitters : ReserveCommit(t)
      <4>1. j <= counters.jobs
        BY <2>2 DEF JobInv
      <4>2. j # counters.jobs + 1
        BY <1>0, <4>1
      <4>3. jobs'[j] = jobs[j]
        BY <1>0, <3>1, <4>2 DEF ReserveCommit
      <4> QED
        BY <2>1, <2>2, <4>3
    <3>2. CASE ~\E t \in Submitters : ReserveCommit(t)
      BY <2>1, <2>2, <3>2, JobEffect
    <3> QED
      BY <3>1, <3>2
  <2>4. Safe(k) /\ <<j, k>> \in pins
    BY <2>1, <2>2, <2>3 DEF ReadInv, Safe
  <2>5. k \in Keys
    BY <1>0, <2>1
  <2>6. Safe(k)'
    BY <2>4, <2>5, PinnedStaysSafe DEF Pinned
  <2>7. <<j, k>> \in pins'
    BY <2>1, <2>2, <2>4, PinsRemain
  <2> QED
    BY <2>1, <2>2, <2>6, <2>7
<1> QED
  BY <1>1, <1>2

-----------------------------------------------------------------------------
\* Initially there is nothing.
LEMMA InitInv ==
  ASSUME Init
  PROVE  IInv
<1> USE NoneAssumption, Bounds
<1>1. /\ \A h \in Handlers : handlers[h] = Idle
      /\ \A s \in Submitters : submitters[s] = NoSubmission
      /\ \A p \in Paths : assets[p] = None
      /\ \A k \in Keys : queue[k] = "absent"
      /\ objects = {} /\ pins = {} /\ worker = None
      /\ counters.jobs = 0 /\ counters.keys = 0
      /\ \A j \in Jobs : jobs[j] = [state |-> "none", key |-> None]
  BY DEF Init
<1>2. Idle \in Handler /\ NoSubmission \in Submitter
  BY DEF Idle, NoSubmission, Handler, Submitter
<1>3. TypeOK
  <2>1. [keys |-> 0, jobs |-> 0, failures |-> 0, stops |-> 0] \in Counters
    BY DEF Counters
  <2>2. [state |-> "none", key |-> None] \in JobRow
    BY DEF JobRow
  <2> QED
    BY <1>2, <2>1, <2>2, Types DEF Init
<1>4. StoreInv
  BY <1>1 DEF StoreInv, PhaseInv, LockInv, TodoInv, DrawnInv, StagedInv, AssetInv, Doomed, Idle,
     NoSubmission
<1>5. JobInv /\ ReadInv
  BY <1>1 DEF JobInv, ReadInv, NoSubmission
<1>6. AdmissionInv /\ AdmissionIsBounded
  <2>1. ActiveJobs = {}
    BY <1>1 DEF ActiveJobs, Active
  <2>2. Cardinality(ActiveJobs) = 0
    BY <2>1, FS_EmptySet
  <2> QED
    BY <1>1, <2>2 DEF AdmissionInv, AdmissionIsBounded, NoSubmission
<1> QED
  BY <1>3, <1>4, <1>5, <1>6 DEF IInv

\* The store, the queue, the requests and the jobs agree in every state.
THEOREM Invariance == Spec => []IInv
<1>1. Init => IInv
  BY InitInv
<1>2. IInv /\ [Next]_vars => IInv'
  BY TypeStep, StoreStep, JobStep, AdmissionStep, ReadStep DEF IInv
<1> QED
  BY <1>1, <1>2, PTL DEF Spec

\* upload_project_asset, delete_project_file, replace_project_content and the
\* cleanup worker: whatever fails, whatever runs at the same time and wherever
\* the process stops, the object of every committed asset is in the store.
THEOREM AssetsStayStored == Spec => []AssetsStored
<1>1. IInv => AssetsStored
  BY DEF IInv, StoreInv, AssetInv, AssetsStored, At
<1> QED
  BY <1>1, Invariance, PTL

\* capture_project and materialize_bundle: a job in preparation finds every
\* object of its snapshot, although its assets may be deleted meanwhile.
THEOREM CapturesReadPinned == Spec => []CaptureReadsPinned
<1>1. IInv => CaptureReadsPinned
  BY DEF IInv, ReadInv, CaptureReadsPinned
<1> QED
  BY <1>1, Invariance, PTL

\* reserve_job: the advisory lock makes the count and the insertion one step, so
\* the limit on active jobs holds, and an idempotency key has one job.
THEOREM AdmissionBounded == Spec => []AdmissionIsBounded
<1>1. IInv => AdmissionIsBounded
  BY DEF IInv
<1> QED
  BY <1>1, Invariance, PTL

\* Rows refer to object k, or its deletion is queued.
Known(k) == (\E p \in Paths : assets[p] = k) \/ queue[k] # "absent"

\* The commit of an upload that found no row replaces the row of k, which came
\* meanwhile.
Overwritten(k) ==
  \E h \in Handlers :
    /\ handlers[h].phase = "writing" /\ handlers[h].todo = {}
    /\ assets[handlers[h].path] = k /\ assets'[handlers[h].path] = handlers[h].key

\* An object that a row referred to, or that was queued, is forgotten only when
\* two uploads raced for a path that had no row.
OnlyRacesForget ==
  [][\A k \in objects : Known(k) /\ k \in objects' => Known(k)' \/ Overwritten(k)]_vars

\* The rows a transaction gives up are in its list, which is queued with it, but
\* for the row an upload did not see.
LEMMA CommitForgets ==
  ASSUME IInv, NEW h \in Handlers, handlers[h].phase = "writing", assets' = Row(h),
         queue' = Enqueued(handlers[h].todo), NEW k \in Keys, Known(k)
  PROVE  Known(k)' \/ Overwritten(k)
<1>0. /\ queue \in [Keys -> {"absent", "due", "locked"}]
      /\ assets \in [Paths -> Keys \cup {None}] /\ handlers[h].path \in Paths
      /\ \/ handlers[h].todo = IF handlers[h].lock = "update" /\ handlers[h].key # None
                                 THEN Current ELSE At(handlers[h].path)
         \/ handlers[h].lock = "share" /\ handlers[h].todo = {}
  BY Types, Fields DEF IInv, TypeOK, StoreInv, PhaseInv, TodoInv
<1>1. queue'[k] = IF k \in handlers[h].todo THEN "due" ELSE queue[k]
  BY DEF Enqueued
<1>2. CASE queue[k] # "absent"
  BY <1>1, <1>2 DEF Known
<1>3. CASE k \in handlers[h].todo
  BY <1>1, <1>3 DEF Known
<1>4. ASSUME NEW p \in Paths, assets[p] = k, k \notin handlers[h].todo
      PROVE  Known(k)' \/ Overwritten(k)
  <2>1. k # None
    BY NoneAssumption
  <2> SUFFICES ASSUME ~Overwritten(k) PROVE Known(k)'
    OBVIOUS
  <2>2. k \in At(p) /\ k \in Current
    BY <1>4, <2>1 DEF At, Current
  <2>3. /\ ~(handlers[h].lock = "update" /\ handlers[h].key # None)
        /\ p # handlers[h].path
    BY <1>0, <1>4, <2>2 DEF Overwritten, Row
  <2>4. assets'[p] = k
    BY <1>0, <1>4, <2>3 DEF Row
  <2> QED
    BY <2>4 DEF Known
<1> QED
  BY <1>2, <1>3, <1>4 DEF Known

\* An object leaves the books only with its bytes or by a race: whatever fails,
\* stops or ends with an unknown outcome, what a row referred to is queued in the
\* transaction that removes the row (enqueue_object_deletions), and a queue row
\* goes only after its object (delete_queued_objects_now, the cleanup worker); only
\* an upload that found no row at its path (lock_object_key_by_path locks nothing
\* then) forgets the object of the upload that won the race (upsert).
THEOREM OnlyRacingUploadsForget == Spec => OnlyRacesForget
<1>1. ASSUME IInv, Next, NEW k \in objects, Known(k), k \in objects', ~Overwritten(k)
      PROVE  Known(k)'
  <2>0. /\ queue \in [Keys -> {"absent", "due", "locked"}] /\ k \in Keys
    BY <1>1 DEF IInv, TypeOK
  <2>1. ASSUME UNCHANGED assets, queue'[k] # "absent" \/ queue'[k] = queue[k] PROVE Known(k)'
    BY <1>1, <2>1 DEF Known
  <2>2. ASSUME NEW h \in Handlers, Change(h) PROVE Known(k)'
    <3>1. UNCHANGED assets /\ (UNCHANGED queue \/ \E x : queue' = Enqueued({x}))
      BY <2>2 DEF Change, PutObject, PutFails, UploadProjectAsset, DeleteProjectAsset,
         DeleteProjectFile, ReplaceProjectContent, Writes
    <3> QED
      BY <2>0, <2>1, <3>1 DEF Enqueued
  <2>3. ASSUME NEW h \in Handlers, HandlerStep(h) PROVE Known(k)'
    <3>1. CASE Commit(h)
      BY <1>1, <2>0, <3>1, CommitForgets DEF Commit
    <3>2. CASE Rollback(h)
      <4>1. UNCHANGED assets /\ (UNCHANGED queue \/ \E S : queue' = Enqueued(S))
        BY <3>2 DEF Rollback, CleanUp
      <4> QED
        BY <2>0, <2>1, <4>1 DEF Enqueued
    <3>3. CASE CommitError(h)
      BY <1>1, <2>0, <2>1, <3>3, CommitForgets DEF CommitError
    <3>4. CASE LookForPin(h)
      BY <2>1, <3>4 DEF LookForPin
    <3>5. CASE DeleteQueuedNow(h)
      BY <1>1, <2>0, <2>1, <3>5 DEF DeleteQueuedNow
    <3> QED
      BY <2>3, <3>1, <3>2, <3>3, <3>4, <3>5 DEF HandlerStep
  <2>4. ASSUME NEW s \in Submitters,
               CreateJob(s) \/ \E key \in IdempotencyKeys : ReserveJob(s, key)
        PROVE  Known(k)'
    BY <2>1, <2>4, SubmissionFrame
  <2>5. CASE CleanupWorker \/ \E i \in Keys : LockExpires(i)
    <3>1. UNCHANGED assets
      BY <2>5, MaintenanceFrame
    <3>2. queue'[k] # "absent" \/ queue'[k] = queue[k]
      BY <1>1, <2>0, <2>5
      DEF CleanupWorker, ClaimDueObject, DeleteClaimed, DeferDeletion, LockExpires
    <3> QED
      BY <2>1, <3>1, <3>2
  <2>6. CASE (\E j \in Jobs : CancelJob(j)) \/ \E S \in SUBSET Jobs : ExpireQueue(S)
    BY <2>1, <2>6, MaintenanceFrame
  <2>7. CASE Stop
    BY <2>1, <2>7 DEF Stop
  <2> QED
    BY <1>1, <2>2, <2>3, <2>4, <2>5, <2>6, <2>7 DEF Next
<1>2. IInv /\ [Next]_vars
        => [\A k \in objects : Known(k) /\ k \in objects' => Known(k)' \/ Overwritten(k)]_vars
  BY <1>1
<1> QED
  BY <1>2, Invariance, PTL DEF Spec, OnlyRacesForget
=============================================================================
