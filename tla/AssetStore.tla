----------------------------- MODULE AssetStore -----------------------------
(***************************************************************************)
(* The assets of a project and the objects that hold their bytes:          *)
(* uploads, deletions and replacements (backend/src/workspace), the queue  *)
(* of object deletions and its worker (object_cleanup.rs), and the         *)
(* submissions of processing jobs, which are admitted under limits and pin *)
(* the objects of the snapshot they read (document_processing).            *)
(*                                                                         *)
(* An object lives outside the database: it is stored before the           *)
(* transaction that refers to it and deleted after the one that no longer  *)
(* does.  Every call to the object store and every commit may fail, a      *)
(* commit may fail with its outcome unknown, and the process may stop      *)
(* between any two of these steps.                                         *)
(***************************************************************************)
EXTENDS Naturals, FiniteSets, TLC

CONSTANTS
  Paths,        \* paths of assets
  Handlers,     \* requests that change assets
  Submitters,   \* requests that submit a job
  IdempotencyKeys,
  None,
  MaxActive,    \* max_queued_jobs, the smallest of the three limits
  MaxKeys,      \* bound on object keys
  MaxJobs,      \* bound on jobs
  MaxFailures,  \* bound on failures of the object store
  MaxStops      \* bound on stops of the process

ASSUME Bounds ==
  {MaxActive, MaxKeys, MaxJobs, MaxFailures, MaxStops} \subseteq Nat

Keys == 1..MaxKeys
Jobs == 1..MaxJobs

ASSUME NoneAssumption == None \notin Paths \cup Keys \cup Jobs \cup IdempotencyKeys

VARIABLES
  assets,     \* rows of project_assets: the object key at each path
  objects,    \* keys in the object store
  queue,      \* object_deletion_queue: "absent", "due" or "locked"
  pins,       \* processing_input_asset_pins
  jobs,       \* processing_jobs, to the end of their preparation
  handlers,   \* requests that change assets
  submitters, \* requests that submit a job
  worker,     \* the key the cleanup worker has claimed
  counters    \* keys and jobs drawn, failures and stops

vars == <<assets, objects, queue, pins, jobs, handlers, submitters, worker,
          counters>>

Active == {"preparing", "queued"}

Idle == [phase |-> "idle", lock |-> "none", path |-> None, key |-> None,
         todo |-> {}]

NoSubmission == [phase |-> "idle", key |-> None, job |-> None, free |-> FALSE,
                 todo |-> {}]

TypeOK ==
  /\ assets \in [Paths -> Keys \cup {None}]
  /\ objects \subseteq Keys
  /\ queue \in [Keys -> {"absent", "due", "locked"}]
  /\ pins \subseteq Jobs \X Keys
  /\ jobs \in [Jobs -> [state: Active \cup {"none", "done"},
                        key: IdempotencyKeys \cup {None}]]
  /\ handlers \in [Handlers -> [phase: {"idle", "stored", "writing",
       "deleting", "unlinking"}, lock: {"none", "share", "update"},
       path: Paths \cup {None}, key: Keys \cup {None}, todo: SUBSET Keys]]
  /\ submitters \in [Submitters -> [phase: {"idle", "reserving", "reserved",
       "capturing", "reading", "captured", "failing"},
       key: IdempotencyKeys \cup {None}, job: Jobs \cup {None},
       free: BOOLEAN, todo: SUBSET Keys]]
  /\ worker \in Keys \cup {None}
  /\ counters \in [keys: 0..MaxKeys, jobs: 0..MaxJobs,
                   failures: 0..MaxFailures, stops: 0..MaxStops]

Init ==
  /\ assets = [p \in Paths |-> None]
  /\ objects = {}
  /\ queue = [k \in Keys |-> "absent"]
  /\ pins = {}
  /\ jobs = [j \in Jobs |-> [state |-> "none", key |-> None]]
  /\ handlers = [h \in Handlers |-> Idle]
  /\ submitters = [s \in Submitters |-> NoSubmission]
  /\ worker = None
  /\ counters = [keys |-> 0, jobs |-> 0, failures |-> 0, stops |-> 0]

(***************************************************************************)
(* The object store and the deletion queue.                                *)
(***************************************************************************)
Fails == /\ counters.failures < MaxFailures
         /\ counters' = [counters EXCEPT !.failures = @ + 1]

Enqueued(keys) == [k \in Keys |-> IF k \in keys THEN "due" ELSE queue[k]]

Pinned(k) == \E j \in Jobs : <<j, k>> \in pins

\* cleanup_uncommitted_object: delete the object, or queue it.
CleanUp(keys) ==
  \/ objects' = objects \ keys /\ UNCHANGED <<queue, counters>>
  \/ queue' = Enqueued(keys) /\ UNCHANGED objects /\ Fails

(***************************************************************************)
(* Locks on the project's row: uploads and deletions of one asset share    *)
(* it, the other changes and the capture of a snapshot hold it alone.      *)
(***************************************************************************)
HeldForUpdate ==
  \/ \E h \in Handlers : handlers[h].lock = "update"
  \/ \E s \in Submitters : submitters[s].phase = "capturing"

KeyShareLock == ~HeldForUpdate

UpdateLock ==
  ~HeldForUpdate /\ \A h \in Handlers : handlers[h].lock = "none"

(***************************************************************************)
(* Changes of assets.                                                      *)
(***************************************************************************)
\* put_object of an upload, of an empty file or of an imported asset, under
\* a new key.
PutObject(h) ==
  LET k == counters.keys + 1
  IN  /\ handlers[h].phase = "idle" /\ counters.keys < MaxKeys
      /\ objects' = objects \cup {k}
      /\ handlers' = [handlers EXCEPT ![h] =
           [Idle EXCEPT !.phase = "stored", !.key = k]]
      /\ counters' = [counters EXCEPT !.keys = k]
      /\ UNCHANGED <<assets, queue, pins, jobs, submitters, worker>>

\* The store reports a failure: the object may be there all the same, and
\* the cleanup may fail as well.
PutFails(h) ==
  LET k == counters.keys + 1
  IN  /\ handlers[h].phase = "idle" /\ counters.keys < MaxKeys
      /\ counters.failures < MaxFailures
      /\ \/ UNCHANGED <<objects, queue>>
         \/ objects' = objects \cup {k} /\ queue' = Enqueued({k})
      /\ counters' = [counters EXCEPT !.keys = k, !.failures = @ + 1]
      /\ UNCHANGED <<assets, pins, jobs, handlers, submitters, worker>>

Writes(h, lock, p, replaced) ==
  /\ handlers' = [handlers EXCEPT ![h].phase = "writing", ![h].lock = lock,
                                  ![h].path = p, ![h].todo = replaced]
  /\ UNCHANGED <<assets, objects, queue, pins, jobs, submitters, worker,
                 counters>>

At(p) == {assets[p]} \ {None}

\* A transaction locks the row it finds at its path; where there is none it
\* locks nothing (lock_object_key_by_path), and others may be at the path.
RowFree(p) == \A h \in Handlers : handlers[h].path = p => handlers[h].todo = {}

UploadProjectAsset(h, p) ==
  /\ handlers[h].phase = "stored"
  /\ KeyShareLock /\ RowFree(p)
  /\ Writes(h, "share", p, At(p))

DeleteProjectAsset(h, p) ==
  /\ handlers[h].phase = "idle" /\ assets[p] # None
  /\ KeyShareLock /\ RowFree(p)
  /\ Writes(h, "share", p, At(p))

\* A subtree that holds the asset.
DeleteProjectFile(h, p) ==
  /\ handlers[h].phase = "idle" /\ assets[p] # None
  /\ UpdateLock
  /\ Writes(h, "update", p, At(p))

\* The new content has the staged asset.
ReplaceProjectContent(h, p) ==
  /\ handlers[h].phase = "stored"
  /\ UpdateLock
  /\ Writes(h, "update", p, UNION {At(q) : q \in Paths})

Row(h) ==
  IF handlers[h].lock = "update" /\ handlers[h].key # None
  THEN [p \in Paths |-> IF p = handlers[h].path THEN handlers[h].key ELSE None]
  ELSE [assets EXCEPT ![handlers[h].path] = handlers[h].key]

\* The upsert waits for whoever has the row; an upload that found no row then
\* replaces the one that came meanwhile.
RowWritable(h) ==
  \A g \in Handlers \ {h} :
    handlers[g].path = handlers[h].path => handlers[g].todo = {}

\* The rows, the queued deletions and the version commit together.
Commit(h) ==
  /\ handlers[h].phase = "writing" /\ RowWritable(h)
  /\ assets' = Row(h)
  /\ queue' = Enqueued(handlers[h].todo)
  /\ handlers' = [handlers EXCEPT ![h] =
       [Idle EXCEPT !.phase = "deleting", !.todo = handlers[h].todo]]
  /\ UNCHANGED <<objects, pins, jobs, submitters, worker, counters>>

\* A statement fails: the transaction rolls back, and the object that was
\* stored for it goes.
Rollback(h) ==
  /\ handlers[h].phase = "writing"
  /\ CleanUp({handlers[h].key} \ {None})
  /\ handlers' = [handlers EXCEPT ![h] = Idle]
  /\ UNCHANGED <<assets, pins, jobs, submitters, worker>>

\* cleanup_if_unreferenced, of what an import has staged.
UnreferencedImports(h) ==
  {k \in {handlers[h].key} \ {None} :
     handlers[h].lock = "update" /\ \A p \in Paths : assets[p] # k}

\* Fault: the error of a commit is cleaned up after like any other.
CommitErrorCleaned(h) ==
  /\ handlers[h].phase = "writing" /\ RowWritable(h)
  /\ counters.failures < MaxFailures
  /\ \/ assets' = Row(h) /\ queue' = Enqueued(handlers[h].todo)
     \/ UNCHANGED <<assets, queue>>
  /\ objects' = objects \ {handlers[h].key}
  /\ handlers' = [handlers EXCEPT ![h] = Idle]
  /\ counters' = [counters EXCEPT !.failures = @ + 1]
  /\ UNCHANGED <<pins, jobs, submitters, worker>>

\* The commit reports an error, and may have happened: an upload leaves its
\* object, an import removes the ones no row refers to.
CommitError(h) ==
  /\ handlers[h].phase = "writing" /\ RowWritable(h)
  /\ Fails
  /\ \/ /\ assets' = Row(h)
        /\ queue' = Enqueued(handlers[h].todo)
        /\ UNCHANGED objects
     \/ /\ UNCHANGED <<assets, queue>>
        /\ objects' = objects \ UnreferencedImports(h)
  /\ handlers' = [handlers EXCEPT ![h] = Idle]
  /\ UNCHANGED <<pins, jobs, submitters, worker>>

\* delete_queued_objects_now: a pinned object is left to the worker.
LookForPin(h) ==
  /\ handlers[h].phase = "deleting"
  /\ handlers' = [handlers EXCEPT ![h] =
       IF \A k \in handlers[h].todo : Pinned(k) THEN Idle
       ELSE [handlers[h] EXCEPT !.phase = "unlinking",
                                !.todo = {k \in handlers[h].todo : ~Pinned(k)}]]
  /\ UNCHANGED <<assets, objects, queue, pins, jobs, submitters, worker,
                 counters>>

DeleteQueuedNow(h) ==
  /\ handlers[h].phase = "unlinking"
  /\ \/ /\ objects' = objects \ handlers[h].todo
        /\ queue' = [k \in Keys |->
             IF k \in handlers[h].todo THEN "absent" ELSE queue[k]]
        /\ UNCHANGED counters
     \/ UNCHANGED <<objects, queue>> /\ Fails
  /\ handlers' = [handlers EXCEPT ![h] = Idle]
  /\ UNCHANGED <<assets, pins, jobs, submitters, worker>>

(***************************************************************************)
(* The cleanup worker.                                                     *)
(***************************************************************************)
\* Fault: a claim that does not look for pins.
ClaimDueObjectPinned(k) ==
  /\ worker = None /\ queue[k] = "due"
  /\ worker' = k
  /\ queue' = [queue EXCEPT ![k] = "locked"]
  /\ UNCHANGED <<assets, objects, pins, jobs, handlers, submitters, counters>>

ClaimDueObject(k) ==
  /\ worker = None /\ queue[k] = "due" /\ ~Pinned(k)
  /\ worker' = k
  /\ queue' = [queue EXCEPT ![k] = "locked"]
  /\ UNCHANGED <<assets, objects, pins, jobs, handlers, submitters, counters>>

DeleteClaimed ==
  /\ worker # None
  /\ objects' = objects \ {worker}
  /\ queue' = [queue EXCEPT ![worker] = "absent"]
  /\ worker' = None
  /\ UNCHANGED <<assets, pins, jobs, handlers, submitters, counters>>

DeferDeletion ==
  /\ worker # None
  /\ queue' = [queue EXCEPT ![worker] = "due"]
  /\ worker' = None
  /\ Fails
  /\ UNCHANGED <<assets, objects, pins, jobs, handlers, submitters>>

\* A lock older than DELETE_LOCK_TIMEOUT_MINUTES counts for nothing.
LockExpires(k) ==
  /\ queue[k] = "locked" /\ worker # k
  /\ queue' = [queue EXCEPT ![k] = "due"]
  /\ UNCHANGED <<assets, objects, pins, jobs, handlers, submitters, worker,
                 counters>>

(***************************************************************************)
(* Submissions: admission under an advisory lock, the capture of the       *)
(* project, the reading of its objects, and the end of the preparation.    *)
(***************************************************************************)
Admitting == \E s \in Submitters : submitters[s].phase = "reserving"

\* Fault: admission without the advisory lock.
AdmissionUnlocked == TRUE

AdmissionLock == ~Admitting

ActiveJobs == {j \in Jobs : jobs[j].state \in Active}

\* Under the lock: the job of the same idempotency key, and the counts.
ReserveJob(s, key) ==
  LET existing == {j \in Jobs : jobs[j].key = key}
  IN  /\ submitters[s].phase = "idle" /\ counters.jobs < MaxJobs
      /\ AdmissionLock
      /\ submitters' = [submitters EXCEPT ![s] =
           [NoSubmission EXCEPT !.phase = "reserving", !.key = key,
              !.free = existing = {} /\ Cardinality(ActiveJobs) < MaxActive]]
      /\ UNCHANGED <<assets, objects, queue, pins, jobs, handlers, worker,
                     counters>>

\* Existing and the limits end the request.
ReserveCommit(s) ==
  LET j == counters.jobs + 1
  IN  /\ submitters[s].phase = "reserving"
      /\ IF submitters[s].free /\ counters.jobs < MaxJobs
         THEN /\ jobs' = [jobs EXCEPT ![j] = [state |-> "preparing",
                                              key |-> submitters[s].key]]
              /\ counters' = [counters EXCEPT !.jobs = j]
              /\ submitters' = [submitters EXCEPT ![s].phase = "reserved",
                                                  ![s].job = j]
         ELSE /\ submitters' = [submitters EXCEPT ![s] = NoSubmission]
              /\ UNCHANGED <<jobs, counters>>
      /\ UNCHANGED <<assets, objects, queue, pins, handlers, worker>>

CaptureLock == UpdateLock

CaptureSnapshot(s) ==
  /\ submitters[s].phase = "reserved"
  /\ CaptureLock
  /\ submitters' = [submitters EXCEPT ![s].phase = "capturing",
       ![s].todo = UNION {At(p) : p \in Paths}]
  /\ UNCHANGED <<assets, objects, queue, pins, jobs, handlers, worker,
                 counters>>

PinProjectAssets(s) ==
  /\ submitters[s].phase = "capturing"
  /\ pins' = pins \cup ({submitters[s].job} \X submitters[s].todo)
  /\ submitters' = [submitters EXCEPT ![s].phase = "reading"]
  /\ UNCHANGED <<assets, objects, queue, jobs, handlers, worker, counters>>

Released(j) == {pin \in pins : pin[1] # j}

\* materialize_bundle reads the objects, and the pins are released.
MaterializeBundle(s) ==
  /\ submitters[s].phase = "reading"
  /\ submitters' = [submitters EXCEPT ![s].todo = {},
       ![s].phase = IF submitters[s].todo \subseteq objects THEN "captured"
                    ELSE "failing"]
  /\ pins' = Released(submitters[s].job)
  /\ UNCHANGED <<assets, objects, queue, jobs, handlers, worker, counters>>

\* store_prepared_input leaves a job that was cancelled or expired as it is.
FinishReservedJob(s) ==
  LET j == submitters[s].job
  IN  /\ submitters[s].phase = "captured"
      /\ IF jobs[j].state = "preparing"
         THEN /\ jobs' = [jobs EXCEPT ![j].state = "queued"]
              /\ pins' = Released(j)
         ELSE UNCHANGED <<jobs, pins>>
      /\ submitters' = [submitters EXCEPT ![s] = NoSubmission]
      /\ UNCHANGED <<assets, objects, queue, handlers, worker, counters>>

\* mark_preparation_failed
FailPreparation(s) ==
  LET j == submitters[s].job
  IN  /\ submitters[s].phase = "failing"
      /\ jobs' = [jobs EXCEPT ![j].state = IF @ = "preparing" THEN "done"
                                           ELSE @]
      /\ pins' = Released(j)
      /\ submitters' = [submitters EXCEPT ![s] = NoSubmission]
      /\ UNCHANGED <<assets, objects, queue, handlers, worker, counters>>

CancelJob(j) ==
  /\ jobs[j].state \in Active
  /\ jobs' = [jobs EXCEPT ![j].state = "done"]
  /\ pins' = Released(j)
  /\ UNCHANGED <<assets, objects, queue, handlers, submitters, worker,
                 counters>>

\* Fault: expiry that leaves the pins.
ExpireQueuePinned(S) ==
  /\ S # {} /\ \A j \in S : jobs[j].state \in Active
  /\ jobs' = [j \in Jobs |-> IF j \in S
                             THEN [jobs[j] EXCEPT !.state = "done"]
                             ELSE jobs[j]]
  /\ UNCHANGED <<assets, objects, queue, pins, handlers, submitters, worker,
                 counters>>

\* maintain_lifecycle: jobs whose time in the queue is over expire, and jobs
\* that ended lose their pins.
ExpireQueue(S) ==
  LET ended == {j \in Jobs : j \in S \/ jobs[j].state = "done"}
  IN  /\ \A j \in S : jobs[j].state \in Active
      /\ jobs' = [j \in Jobs |-> IF j \in S
                                 THEN [jobs[j] EXCEPT !.state = "done"]
                                 ELSE jobs[j]]
      /\ pins' = {pin \in pins : pin[1] \notin ended}
      /\ <<jobs, pins>>' # <<jobs, pins>>
      /\ UNCHANGED <<assets, objects, queue, handlers, submitters, worker,
                     counters>>

(***************************************************************************)
(* A stop of the process loses what its requests and its worker were at.   *)
(***************************************************************************)
Stop ==
  /\ counters.stops < MaxStops
  /\ counters' = [counters EXCEPT !.stops = @ + 1]
  /\ handlers' = [h \in Handlers |-> Idle]
  /\ submitters' = [s \in Submitters |-> NoSubmission]
  /\ worker' = None
  /\ UNCHANGED <<assets, objects, queue, pins, jobs>>

Change(h) ==
  \/ PutObject(h) \/ PutFails(h)
  \/ \E p \in Paths : \/ UploadProjectAsset(h, p)
                      \/ DeleteProjectAsset(h, p)
                      \/ DeleteProjectFile(h, p)
                      \/ ReplaceProjectContent(h, p)

HandlerStep(h) ==
  \/ Commit(h) \/ Rollback(h) \/ CommitError(h)
  \/ LookForPin(h) \/ DeleteQueuedNow(h)

CreateJob(s) ==
  \/ ReserveCommit(s)
  \/ CaptureSnapshot(s) \/ PinProjectAssets(s) \/ MaterializeBundle(s)
  \/ FinishReservedJob(s) \/ FailPreparation(s)

CleanupWorker == \/ \E k \in Keys : ClaimDueObject(k)
                 \/ DeleteClaimed \/ DeferDeletion

Next ==
  \/ \E h \in Handlers : Change(h) \/ HandlerStep(h)
  \/ \E s \in Submitters : CreateJob(s) \/ \E key \in IdempotencyKeys :
                                             ReserveJob(s, key)
  \/ CleanupWorker \/ \E k \in Keys : LockExpires(k)
  \/ \E j \in Jobs : CancelJob(j)
  \/ \E S \in SUBSET Jobs : ExpireQueue(S)
  \/ Stop

Spec == Init /\ [][Next]_vars

\* Requests run to their end, the worker and the maintenance run on, a
\* forgotten lock grows old, and every job leaves the queue in the end.
Fairness ==
  /\ \A h \in Handlers : WF_vars(HandlerStep(h))
  /\ \A s \in Submitters : WF_vars(CreateJob(s))
  /\ \A k \in Keys : SF_vars(ClaimDueObject(k)) /\ WF_vars(LockExpires(k))
  /\ WF_vars(DeleteClaimed \/ DeferDeletion)
  /\ WF_vars(ExpireQueue(ActiveJobs))

FairSpec == Spec /\ Fairness

(***************************************************************************)
(* Properties.                                                             *)
(***************************************************************************)
\* The object of every asset of the project is in the store: no cleanup, of
\* a failed upload, of a replaced asset or of the queue, removes an object a
\* committed row refers to, even after a commit whose outcome is unknown.
AssetsStored == \A p \in Paths : At(p) \subseteq objects

\* While a job in preparation reads the objects of its snapshot they are
\* there: the assets may be deleted meanwhile, but a deletion that looked
\* for pins before the capture committed them cannot have seen these keys
\* unreferenced.
CaptureReadsPinned ==
  \A s \in Submitters :
    submitters[s].phase = "reading" /\ jobs[submitters[s].job].state = "preparing"
      => submitters[s].todo \subseteq objects

\* However submissions interleave, the active jobs stay within the limit and
\* an idempotency key has one job.
AdmissionIsBounded ==
  /\ Cardinality(ActiveJobs) <= MaxActive
  /\ \A i, j \in Jobs : jobs[i].key = jobs[j].key /\ jobs[i].key # None => i = j

\* An object whose deletion is queued is deleted in the end: pins do not
\* outlive their job, and no lock of the queue outlives its worker.
DeletionsHappen ==
  \A k \in Keys : queue[k] # "absent" ~> queue[k] = "absent" /\ k \notin objects
=============================================================================
