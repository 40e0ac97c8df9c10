------------------------ MODULE ProcessingJobsProofs ------------------------
(***************************************************************************)
(* Proofs, for every set of jobs, Core processes, roles and inputs and all *)
(* leases and limits, of the safety properties of ProcessingJobs.          *)
(***************************************************************************)
EXTENDS ProcessingJobs, TLAPS

USE DEF AttemptNumbers, Active, Terminal, JobStates, AttemptStates,
        TransferStates, CoreSteps

-----------------------------------------------------------------------------
(***************************************************************************)
(* Types.                                                                  *)
(***************************************************************************)

\* The time a handler works with is a natural number.
LEMMA NowIsNat == ASSUME TypeOK, NEW t \in Nows PROVE t \in Nat
BY DEF Nows, TypeOK

\* So is every deadline computed from it.
LEMMA DeadlineIsNat ==
  ASSUME NEW t \in Nat
  PROVE /\ t + ClaimLease \in Nat /\ t + CancelGrace \in Nat
        /\ t + TransferTTL \in Nat /\ t + FinalizationLease \in Nat
        /\ t + QueueWait \in Nat /\ t + Retention \in Nat
        /\ \A n \in Nat : t + RetryDelay(n) \in Nat
        /\ 0 \in Nat /\ 0 \in 0..MaxAttempts
<1>1. \A n \in Nat : RetryDelay(n) \in Nat
  BY DEF RetryDelay
<1> QED
  BY <1>1, ConstantsAssumption

\* The columns of a job row.
LEMMA RowType ==
  ASSUME TypeOK, NEW j \in Jobs
  PROVE /\ jobs[j] \in JobRow
        /\ jobs[j].state \in JobStates
        /\ jobs[j].cancel \in BOOLEAN
        /\ jobs[j].count \in 0..MaxAttempts
        /\ jobs[j].claim \in 0..MaxAttempts
        /\ jobs[j].claimExp \in Nat
        /\ jobs[j].nextAt \in Nat
        /\ jobs[j].input \in Inputs \cup {None}
        /\ jobs[j].source \in Jobs \cup {None}
        /\ jobs[j].token \in Nat
        /\ jobs[j].fence \in Nat
<1>1. jobs[j] \in JobRow
  BY DEF TypeOK
<1> QED
  BY <1>1 DEF JobRow

\* The rows of attempts and of their uploads.
LEMMA AttemptType ==
  ASSUME TypeOK, NEW j \in Jobs, NEW n \in AttemptNumbers
  PROVE /\ attempts[j][n] \in AttemptRow
        /\ attempts[j][n].state \in AttemptStates
        /\ attempts[j][n].lease \in Nat
<1>1. attempts[j][n] \in AttemptRow
  BY DEF TypeOK
<1> QED
  BY <1>1 DEF AttemptRow

LEMMA TransferType ==
  ASSUME TypeOK, NEW j \in Jobs, NEW n \in AttemptNumbers, NEW r \in Roles
  PROVE /\ transfers[j][n][r] \in TransferRow
        /\ transfers[j][n][r].state \in TransferStates
        /\ transfers[j][n][r].expires \in Nat
<1>1. transfers[j] \in [AttemptNumbers -> [Roles -> TransferRow]]
  BY DEF TypeOK
<1>2. transfers[j][n][r] \in TransferRow
  BY <1>1
<1> QED
  BY <1>2 DEF TransferRow

\* What a Core process holds in memory.
LEMMA CoreType ==
  ASSUME TypeOK, NEW c \in Cores
  PROVE /\ core[c] \in CoreState
        /\ core[c].pc \in CoreSteps
        /\ core[c].job \in Jobs \cup {None}
        /\ core[c].token \in Nat
        /\ core[c].source \in Jobs \cup {None}
        /\ core[c].staged \subseteq Artifact
        /\ core[c].doomed \subseteq Jobs
<1>1. core[c] \in CoreState
  BY DEF TypeOK
<1> QED
  BY <1>1 DEF CoreState

LEMMA PutRow ==
  ASSUME TypeOK, NEW j, NEW r \in JobRow
  PROVE [jobs EXCEPT ![j] = r] \in [Jobs -> JobRow]
BY DEF TypeOK

LEMMA PutAttempt ==
  ASSUME TypeOK, NEW j \in Jobs, NEW n \in AttemptNumbers, NEW a \in AttemptRow
  PROVE [attempts EXCEPT ![j][n] = a] \in [Jobs -> [AttemptNumbers -> AttemptRow]]
BY DEF TypeOK

LEMMA PutTransfer ==
  ASSUME TypeOK, NEW j \in Jobs, NEW n \in AttemptNumbers, NEW r \in Roles,
         NEW x \in TransferRow
  PROVE [transfers EXCEPT ![j][n][r] = x]
          \in [Jobs -> [AttemptNumbers -> [Roles -> TransferRow]]]
BY DEF TypeOK

LEMMA PutCore ==
  ASSUME TypeOK, NEW c, NEW x \in CoreState
  PROVE [core EXCEPT ![c] = x] \in [Cores -> CoreState]
BY DEF TypeOK

LEMMA InitType == Init => TypeOK
BY ConstantsAssumption
   DEF Init, TypeOK, JobRow, AbsentJob, AttemptRow, NoAttempt, TransferRow,
       NoTransfer, CoreState, IdleCore

LEMMA AbsentIsRow == ASSUME NEW st \in JobStates PROVE AbsentJob(st) \in JobRow
BY ConstantsAssumption DEF AbsentJob, JobRow

LEMMA ClosedRows ==
  /\ \A st \in AttemptStates : ClosedAttempt(st) \in AttemptRow
  /\ \A st \in TransferStates : ClosedTransfer(st) \in TransferRow
  /\ NoAttempt \in AttemptRow /\ NoTransfer \in TransferRow
BY DEF ClosedAttempt, ClosedTransfer, NoAttempt, NoTransfer, AttemptRow, TransferRow

LEMMA IdleCoreType ==
  /\ IdleCore \in CoreState
  /\ [IdleCore EXCEPT !.pc = "maintained"] \in CoreState
BY DEF IdleCore, CoreState
-----------------------------------------------------------------------------
LEMMA SubmitType ==
  ASSUME TypeOK, NEW j \in Jobs, NEW t \in Nows, SubmitJob(j, t)
  PROVE TypeOK'
<1>1. [AbsentJob("preparing") EXCEPT !.nextAt = t, !.queueExp = t + QueueWait,
                                    !.retain = t + Retention] \in JobRow
  <2>1. t \in Nat /\ t + QueueWait \in Nat /\ t + Retention \in Nat
    BY NowIsNat, DeadlineIsNat
  <2>2. AbsentJob("preparing") \in JobRow
    BY AbsentIsRow
  <2> QED
    BY <2>1, <2>2, ZenonT(60) DEF JobRow
<1>2. jobs' \in [Jobs -> JobRow]
  BY <1>1, PutRow, Zenon DEF SubmitJob
<1> QED
  BY <1>2 DEF SubmitJob, TypeOK

LEMMA PrepareType ==
  ASSUME TypeOK, NEW j \in Jobs, NEW i \in Inputs, StorePreparedInput(j, i)
  PROVE TypeOK'
<1>1. [jobs[j] EXCEPT !.state = "queued", !.input = i] \in JobRow
  BY RowType, ZenonT(60) DEF JobRow
<1>2. jobs' \in [Jobs -> JobRow]
  BY <1>1, PutRow, Zenon DEF StorePreparedInput
<1> QED
  BY <1>2 DEF StorePreparedInput, TypeOK

LEMMA FailPreparationType ==
  ASSUME TypeOK, NEW j \in Jobs, FailPreparation(j)
  PROVE TypeOK'
<1>1. [jobs[j] EXCEPT !.state = "failed"] \in JobRow
  BY RowType, ZenonT(60) DEF JobRow
<1>2. jobs' \in [Jobs -> JobRow]
  BY <1>1, PutRow, Zenon DEF FailPreparation
<1> QED
  BY <1>2 DEF FailPreparation, TypeOK

LEMMA CancelType ==
  ASSUME TypeOK, NEW j \in Jobs, CancelJob(j)
  PROVE TypeOK'
<1>1. /\ [jobs[j] EXCEPT !.state = "cancelled", !.cancel = TRUE] \in JobRow
      /\ [jobs[j] EXCEPT !.cancel = TRUE] \in JobRow
  BY RowType, ZenonT(60) DEF JobRow
<1>2. jobs' \in [Jobs -> JobRow]
  BY <1>1, PutRow, Zenon DEF CancelJob
<1> QED
  BY <1>2 DEF CancelJob, TypeOK

LEMMA ClaimType ==
  ASSUME TypeOK, RetryBudget, NEW j \in Jobs, NEW t \in Nows, ClaimJob(j, t)
  PROVE TypeOK'
<1> DEFINE n == jobs[j].count + 1
<1>1. n \in 0..MaxAttempts /\ n \in AttemptNumbers
  BY RowType, ConstantsAssumption DEF ClaimJob, Claimable, RetryBudget
<1>2. t + ClaimLease \in Nat
  BY NowIsNat, DeadlineIsNat
<1>3. jobs' \in [Jobs -> JobRow]
  <2> HIDE DEF n
  <2>1. [jobs[j] EXCEPT !.state = "running", !.count = n, !.claim = n,
                        !.claimExp = t + ClaimLease] \in JobRow
    BY <1>1, <1>2, RowType, ZenonT(60) DEF JobRow
  <2> QED
    BY <2>1, PutRow, Zenon DEF ClaimJob, n
<1>4. attempts' \in [Jobs -> [AttemptNumbers -> AttemptRow]]
  <2>1. [state |-> "running", lease |-> t + ClaimLease] \in AttemptRow
    BY <1>2 DEF AttemptRow
  <2> QED
    BY <1>1, <2>1, PutAttempt, Zenon DEF ClaimJob
<1> QED
  BY <1>3, <1>4 DEF ClaimJob, TypeOK

LEMMA ReuseType ==
  ASSUME TypeOK, NEW j \in Jobs, NEW k \in Jobs, NEW t \in Nows, ReuseResult(j, k, t)
  PROVE TypeOK'
<1>1. [jobs[j] EXCEPT !.state = "finalizing", !.source = k] \in JobRow
  BY RowType, ZenonT(60) DEF JobRow
<1>2. jobs' \in [Jobs -> JobRow]
  BY <1>1, PutRow, Zenon DEF ReuseResult
<1> QED
  BY <1>2 DEF ReuseResult, TypeOK

LEMMA HeartbeatType ==
  ASSUME TypeOK, NEW j \in Jobs, NEW n \in AttemptNumbers, NEW t \in Nows,
         HeartbeatClaim(j, n, t)
  PROVE TypeOK'
<1> DEFINE lease == IF jobs[j].cancel
                      THEN Smaller(attempts[j][n].lease, t + CancelGrace)
                      ELSE t + ClaimLease
<1>2. attempts[j][n].lease \in Nat
  BY AttemptType
<1>3. lease \in Nat
  BY <1>2, NowIsNat, DeadlineIsNat DEF Smaller
<1>4. attempts' = [attempts EXCEPT ![j][n] = [state |-> "running", lease |-> lease]]
  BY DEF HeartbeatClaim
<1>5. jobs' = [jobs EXCEPT ![j] = [@ EXCEPT !.claimExp = lease]]
  BY DEF HeartbeatClaim
<1> HIDE DEF lease
<1>6. jobs' \in [Jobs -> JobRow]
  <2>1. [jobs[j] EXCEPT !.claimExp = lease] \in JobRow
    BY <1>3, RowType, ZenonT(60) DEF JobRow
  <2> QED
    BY <1>5, <2>1, PutRow, Zenon
<1>7. attempts' \in [Jobs -> [AttemptNumbers -> AttemptRow]]
  <2>1. [state |-> "running", lease |-> lease] \in AttemptRow
    BY <1>3 DEF AttemptRow
  <2> QED
    BY <1>4, <2>1, PutAttempt, Zenon
<1> QED
  BY <1>6, <1>7 DEF HeartbeatClaim, TypeOK

LEMMA TicketType ==
  ASSUME TypeOK, NEW j \in Jobs, NEW n \in AttemptNumbers, NEW r \in Roles,
         NEW t \in Nows, CreateArtifactTransfer(j, n, r, t)
  PROVE TypeOK'
<1>1. [state |-> "issued", expires |-> t + TransferTTL] \in TransferRow
  BY NowIsNat, DeadlineIsNat DEF TransferRow
<1>2. transfers' \in [Jobs -> [AttemptNumbers -> [Roles -> TransferRow]]]
  BY <1>1, PutTransfer, Zenon DEF CreateArtifactTransfer
<1> QED
  BY <1>2 DEF CreateArtifactTransfer, TypeOK

LEMMA BeginUploadType ==
  ASSUME TypeOK, NEW j \in Jobs, NEW n \in AttemptNumbers, NEW r \in Roles,
         NEW t \in Nows, BeginUpload(j, n, r, t)
  PROVE TypeOK'
<1>1. uploads' \subseteq Jobs \X AttemptNumbers \X Roles
  BY DEF BeginUpload, TypeOK
<1> QED
  BY <1>1 DEF BeginUpload, TypeOK

LEMMA StoreUploadType ==
  ASSUME TypeOK, NEW j \in Jobs, NEW n \in AttemptNumbers, NEW r \in Roles,
         StoreUpload(j, n, r)
  PROVE TypeOK'
<1>1. transfers[j][n][r] \in TransferRow
  BY TransferType
<1>2. [state |-> "uploaded", expires |-> transfers[j][n][r].expires] \in TransferRow
  BY <1>1 DEF TransferRow
<1>3. [transfers EXCEPT ![j][n][r] =
         [state |-> "uploaded", expires |-> transfers[j][n][r].expires]]
        \in [Jobs -> [AttemptNumbers -> [Roles -> TransferRow]]]
  BY <1>2, PutTransfer, Zenon
<1>4. transfers' \in [Jobs -> [AttemptNumbers -> [Roles -> TransferRow]]]
  BY <1>3, Zenon DEF StoreUpload, TypeOK
<1>5. uploads' \subseteq Jobs \X AttemptNumbers \X Roles
  BY DEF StoreUpload, TypeOK
<1> QED
  BY <1>4, <1>5 DEF StoreUpload, TypeOK

LEMMA CompleteType ==
  ASSUME TypeOK, NEW j \in Jobs, NEW n \in AttemptNumbers, NEW t \in Nows,
         CompleteClaim(j, n, t)
  PROVE TypeOK'
<1>1. [jobs[j] EXCEPT !.state = "finalizing", !.claim = 0, !.claimExp = 0,
                      !.token = 0, !.finExp = 0] \in JobRow
  <2>1. 0 \in Nat /\ 0 \in 0..MaxAttempts
    BY ConstantsAssumption
  <2> QED
    BY <2>1, RowType, ZenonT(60) DEF JobRow
<1>2. jobs' \in [Jobs -> JobRow]
  BY <1>1, PutRow, Zenon DEF CompleteClaim
<1>3. attempts' \in [Jobs -> [AttemptNumbers -> AttemptRow]]
  BY ClosedRows, PutAttempt, Zenon DEF CompleteClaim
<1> QED
  BY <1>2, <1>3 DEF CompleteClaim, TypeOK

LEMMA CloseType ==
  ASSUME TypeOK, NEW j \in Jobs, NEW n \in AttemptNumbers, NEW t \in Nows,
         NEW st \in {"failed", "released"}, NEW retryable \in BOOLEAN,
         CloseAttempt(j, n, st, retryable, t)
  PROVE /\ jobs' \in [Jobs -> JobRow]
        /\ attempts' \in [Jobs -> [AttemptNumbers -> AttemptRow]]
<1> DEFINE retry == ~jobs[j].cancel /\ retryable /\ jobs[j].count < MaxAttempts
           next == IF jobs[j].cancel THEN "cancelled"
                   ELSE IF retry THEN "queued" ELSE "failed"
           at == IF retry THEN t + RetryDelay(jobs[j].count) ELSE jobs[j].nextAt
<1>1. jobs' = [jobs EXCEPT ![j] = [@ EXCEPT !.state = next, !.claim = 0,
                                            !.claimExp = 0, !.nextAt = at]]
  BY DEF CloseAttempt
<1>2. next \in JobStates
  OBVIOUS
<1>3. at \in Nat
  <2>1. jobs[j].count \in Nat /\ jobs[j].nextAt \in Nat
    BY RowType, ConstantsAssumption
  <2>2. t + RetryDelay(jobs[j].count) \in Nat
    BY <2>1, NowIsNat, DeadlineIsNat
  <2> QED
    BY <2>1, <2>2, Zenon
<1> HIDE DEF retry, next, at
<1>4. [jobs[j] EXCEPT !.state = next, !.claim = 0, !.claimExp = 0, !.nextAt = at]
        \in JobRow
  <2>1. 0 \in Nat /\ 0 \in 0..MaxAttempts
    BY ConstantsAssumption
  <2> QED
    BY <1>2, <1>3, <2>1, RowType, ZenonT(60) DEF JobRow
<1>5. jobs' \in [Jobs -> JobRow]
  BY <1>1, <1>4, PutRow, Zenon
<1>6. attempts' \in [Jobs -> [AttemptNumbers -> AttemptRow]]
  BY ClosedRows, PutAttempt, Zenon DEF CloseAttempt
<1> QED
  BY <1>5, <1>6

LEMMA FailType ==
  ASSUME TypeOK, NEW j \in Jobs, NEW n \in AttemptNumbers, NEW t \in Nows,
         NEW retryable \in BOOLEAN, FailClaim(j, n, retryable, t)
  PROVE TypeOK'
<1>1. CloseAttempt(j, n, "failed", retryable, t)
  BY DEF FailClaim
<1>2. /\ jobs' \in [Jobs -> JobRow]
      /\ attempts' \in [Jobs -> [AttemptNumbers -> AttemptRow]]
  BY <1>1, CloseType
<1> QED
  BY <1>2 DEF FailClaim, TypeOK

LEMMA ReleaseType ==
  ASSUME TypeOK, NEW j \in Jobs, NEW n \in AttemptNumbers, NEW t \in Nows,
         ReleaseClaim(j, n, t)
  PROVE TypeOK'
<1>1. CloseAttempt(j, n, "released", TRUE, t)
  BY DEF ReleaseClaim
<1>2. /\ jobs' \in [Jobs -> JobRow]
      /\ attempts' \in [Jobs -> [AttemptNumbers -> AttemptRow]]
  BY <1>1, CloseType
<1> QED
  BY <1>2 DEF ReleaseClaim, TypeOK

LEMMA SweptTypes ==
  ASSUME TypeOK, NEW t \in Nows
  PROVE /\ \A j \in Jobs : SweptJob(j, t) \in JobRow
        /\ \A j \in Jobs, n \in AttemptNumbers : SweptAttempt(j, n, t) \in AttemptRow
        /\ \A j \in Jobs, n \in AttemptNumbers, r \in Roles :
             SweptTransfer(j, n, r, t) \in TransferRow
<1>1. ASSUME NEW j \in Jobs PROVE SweptJob(j, t) \in JobRow
  <2> DEFINE st == Recovered(jobs[j], t)
             at == IF st = "queued" THEN t + RetryDelay(jobs[j].count)
                   ELSE jobs[j].nextAt
  <2>1. st \in JobStates
    BY DEF Recovered
  <2>2. at \in Nat
    <3>1. jobs[j].count \in Nat /\ jobs[j].nextAt \in Nat
      BY RowType, ConstantsAssumption
    <3>2. t + RetryDelay(jobs[j].count) \in Nat
      BY <3>1, NowIsNat, DeadlineIsNat
    <3> QED
      BY <3>1, <3>2, Zenon
  <2>3. [jobs[j] EXCEPT !.state = st, !.claim = 0, !.claimExp = 0, !.nextAt = at]
          \in JobRow
    <3> HIDE DEF st, at
    <3>1. 0 \in Nat /\ 0 \in 0..MaxAttempts
      BY ConstantsAssumption
    <3> QED
      BY <2>1, <2>2, <3>1, RowType, ZenonT(60) DEF JobRow
  <2>4. [jobs[j] EXCEPT !.state = "expired"] \in JobRow
    BY RowType, ZenonT(60) DEF JobRow
  <2> QED
    BY <2>3, <2>4, RowType, Zenon DEF SweptJob
<1>2. ASSUME NEW j \in Jobs, NEW n \in AttemptNumbers
      PROVE SweptAttempt(j, n, t) \in AttemptRow
  BY AttemptType, ClosedRows, Zenon DEF SweptAttempt
<1>3. ASSUME NEW j \in Jobs, NEW n \in AttemptNumbers, NEW r \in Roles
      PROVE SweptTransfer(j, n, r, t) \in TransferRow
  BY TransferType, ClosedRows, Zenon DEF SweptTransfer
<1> QED
  BY <1>1, <1>2, <1>3, Zenon

LEMMA SweepType ==
  ASSUME TypeOK, NEW c \in Cores, NEW t \in Nows, Sweep(c, t)
  PROVE TypeOK'
<1>1. jobs' \in [Jobs -> JobRow]
  BY SweptTypes, Zenon DEF Sweep
<1>2. attempts' \in [Jobs -> [AttemptNumbers -> AttemptRow]]
  BY SweptTypes, Zenon DEF Sweep
<1>3. transfers' \in [Jobs -> [AttemptNumbers -> [Roles -> TransferRow]]]
  BY SweptTypes, Zenon DEF Sweep
<1>4. core' \in [Cores -> CoreState]
  <2> DEFINE gone == RetentionLapsed(jobs', t)
  <2>1. gone \subseteq Jobs
    BY DEF RetentionLapsed
  <2> HIDE DEF gone
  <2>2. [core[c] EXCEPT !.pc = "retaining", !.doomed = gone] \in CoreState
    BY <2>1, CoreType, ZenonT(60) DEF CoreState
  <2> QED
    BY <2>2, PutCore, Zenon DEF Sweep, gone
<1> QED
  BY <1>1, <1>2, <1>3, <1>4 DEF Sweep, TypeOK

LEMMA DeleteType ==
  ASSUME TypeOK, NEW c \in Cores, DeleteRetained(c)
  PROVE TypeOK'
<1> DEFINE gone == core[c].doomed
<1>1. jobs' \in [Jobs -> JobRow]
  <2>1. \A j \in Jobs : [jobs[j] EXCEPT !.source = None] \in JobRow
    BY RowType, ZenonT(60) DEF JobRow
  <2>2. AbsentJob("deleted") \in JobRow
    BY AbsentIsRow
  <2> QED
    BY <2>1, <2>2, RowType, Zenon DEF DeleteRetained
<1>2. attempts' \in [Jobs -> [AttemptNumbers -> AttemptRow]]
  BY ClosedRows, Zenon DEF DeleteRetained, TypeOK
<1>3. transfers' \in [Jobs -> [AttemptNumbers -> [Roles -> TransferRow]]]
  BY ClosedRows, Zenon DEF DeleteRetained, TypeOK
<1>4. artifacts' \in [Jobs -> SUBSET Artifact]
  BY DEF DeleteRetained, TypeOK
<1>5. uploads' \subseteq Jobs \X AttemptNumbers \X Roles
  BY DEF DeleteRetained, TypeOK
<1>6. core' \in [Cores -> CoreState]
  <2>1. [core[c] EXCEPT !.pc = "maintained", !.doomed = {}] \in CoreState
    BY CoreType, ZenonT(60) DEF CoreState
  <2> QED
    BY <2>1, PutCore, Zenon DEF DeleteRetained
<1> QED
  BY <1>1, <1>2, <1>3, <1>4, <1>5, <1>6 DEF DeleteRetained, TypeOK

LEMMA AcquireType ==
  ASSUME TypeOK, NEW c \in Cores, NEW j \in Jobs, NEW t \in Nows,
         AcquireFinalizationLease(c, j, t)
  PROVE TypeOK'
<1> DEFINE token == jobs[j].fence + 1
<1>1. token \in Nat /\ t + FinalizationLease \in Nat
  <2>1. jobs[j].fence \in Nat /\ t \in Nat
    BY RowType, NowIsNat
  <2>2. token \in Nat
    BY <2>1
  <2> QED
    BY <2>1, <2>2, DeadlineIsNat, Zenon
<1>2. /\ jobs' = [jobs EXCEPT ![j] = [@ EXCEPT !.fence = token, !.token = token,
                                       !.finExp = t + FinalizationLease]]
      /\ core' = [core EXCEPT ![c] = [@ EXCEPT !.pc = "leased", !.job = j,
                                       !.token = token,
                                       !.source = jobs[j].source]]
  BY DEF AcquireFinalizationLease
<1> HIDE DEF token
<1>3. [jobs[j] EXCEPT !.fence = token, !.token = token,
                      !.finExp = t + FinalizationLease] \in JobRow
  BY <1>1, RowType, ZenonT(60) DEF JobRow
<1>4. [core[c] EXCEPT !.pc = "leased", !.job = j, !.token = token,
                      !.source = jobs[j].source] \in CoreState
  BY <1>1, RowType, CoreType, ZenonT(60) DEF CoreState
<1>5. jobs' \in [Jobs -> JobRow] /\ core' \in [Cores -> CoreState]
  BY <1>2, <1>3, <1>4, PutRow, PutCore, Zenon
<1> QED
  BY <1>5 DEF AcquireFinalizationLease, TypeOK

LEMMA RestType ==
  ASSUME TypeOK, NEW c \in Cores, NEW t \in Nows, Rest(c, t)
  PROVE TypeOK'
<1>1. [core[c] EXCEPT !.pc = "idle"] \in CoreState
  BY CoreType, ZenonT(60) DEF CoreState
<1>2. core' \in [Cores -> CoreState]
  BY <1>1, PutCore, Zenon DEF Rest
<1> QED
  BY <1>2 DEF Rest, TypeOK

\* A finalizer that leased a job names it.
Busy == {"leased", "loaded", "publishing", "rejecting"}
CoreHasJob == \A c \in Cores : core[c].pc \in Busy => core[c].job \in Jobs

LEMMA DeliveredType ==
  ASSUME TypeOK, NEW j \in Jobs PROVE DeliveredArtifacts(j) \subseteq Artifact
<1> DEFINE n == jobs[j].count
<1>1. ASSUME NEW r \in Roles, n \in AttemptNumbers
      PROVE [role |-> r, blob |-> [job |-> j, attempt |-> n, input |-> jobs[j].input]]
              \in Artifact
  BY <1>1, RowType, Zenon DEF Artifact, Blob
<1> QED
  BY <1>1, Zenon DEF DeliveredArtifacts

LEMMA LoadType ==
  ASSUME TypeOK, CoreHasJob, NEW c \in Cores, LoadStagedArtifacts(c)
  PROVE TypeOK'
<1> DEFINE j == core[c].job
           found == IF ~HoldsToken(c) THEN {}
                    ELSE IF core[c].source # None
                      THEN ReusedArtifacts(j, core[c].source)
                      ELSE DeliveredArtifacts(j)
<1>1. j \in Jobs
  BY DEF LoadStagedArtifacts, CoreHasJob, Busy
<1>2. found \subseteq Artifact
  <2>1. DeliveredArtifacts(j) \subseteq Artifact
    BY <1>1, DeliveredType
  <2>2. ASSUME core[c].source # None
        PROVE ReusedArtifacts(j, core[c].source) \subseteq Artifact
    BY <2>2, CoreType DEF ReusedArtifacts, TypeOK
  <2> QED
    BY <2>1, <2>2, Zenon
<1>3. core' = [core EXCEPT ![c] = [@ EXCEPT !.pc = "loaded", !.staged = found]]
  BY DEF LoadStagedArtifacts
<1> HIDE DEF found
<1>4. [core[c] EXCEPT !.pc = "loaded", !.staged = found] \in CoreState
  BY <1>2, CoreType, ZenonT(60) DEF CoreState
<1>5. core' \in [Cores -> CoreState]
  BY <1>3, <1>4, PutCore, Zenon
<1> QED
  BY <1>5 DEF LoadStagedArtifacts, TypeOK

LEMMA ValidateType ==
  ASSUME TypeOK, NEW c \in Cores, ValidateFinalization(c)
  PROVE TypeOK'
<1>1. PICK verdict \in {"publishing", "rejecting"} :
        core' = [core EXCEPT ![c] = [@ EXCEPT !.pc = verdict]]
  BY DEF ValidateFinalization
<1>2. [core[c] EXCEPT !.pc = verdict] \in CoreState
  BY CoreType, ZenonT(60) DEF CoreState
<1>3. core' \in [Cores -> CoreState]
  BY <1>1, <1>2, PutCore, Zenon
<1> QED
  BY <1>3 DEF ValidateFinalization, TypeOK

LEMMA SettledType ==
  ASSUME TypeOK, NEW c \in Cores PROVE Settled(c) \in [Cores -> CoreState]
BY IdleCoreType, PutCore, Zenon DEF Settled

LEMMA PublishType ==
  ASSUME TypeOK, CoreHasJob, NEW c \in Cores, NEW t \in Nows, Publish(c, t)
  PROVE TypeOK'
<1> DEFINE j == core[c].job
<1>1. j \in Jobs
  BY DEF Publish, CoreHasJob, Busy
<1>2. jobs' \in [Jobs -> JobRow]
  <2>1. 0 \in Nat
    OBVIOUS
  <2>2. [jobs[j] EXCEPT !.state = "succeeded", !.token = 0, !.finExp = 0] \in JobRow
    BY <1>1, <2>1, RowType, ZenonT(60) DEF JobRow
  <2>3. [jobs EXCEPT ![j] = [@ EXCEPT !.state = "succeeded", !.token = 0, !.finExp = 0]]
          \in [Jobs -> JobRow]
    BY <2>2, PutRow, Zenon
  <2> QED
    BY <2>3, Zenon DEF Publish, TypeOK
<1>3. artifacts' \in [Jobs -> SUBSET Artifact]
  <2>1. PublishedArtifacts(c) \in SUBSET Artifact
    BY <1>1, CoreType DEF PublishedArtifacts, TypeOK
  <2>2. [artifacts EXCEPT ![j] = PublishedArtifacts(c)] \in [Jobs -> SUBSET Artifact]
    BY <2>1 DEF TypeOK
  <2> QED
    BY <2>2, Zenon DEF Publish, TypeOK
<1>4. projects' \in [Jobs -> Nat]
  BY DEF Publish, TypeOK
<1>5. transfers' \in [Jobs -> [AttemptNumbers -> [Roles -> TransferRow]]]
  <2>1. ConsumedUploads(c) \in [AttemptNumbers -> [Roles -> TransferRow]]
    BY <1>1, TransferType, ClosedRows, Zenon DEF ConsumedUploads
  <2>2. [transfers EXCEPT ![j] = ConsumedUploads(c)]
          \in [Jobs -> [AttemptNumbers -> [Roles -> TransferRow]]]
    BY <2>1, Zenon DEF TypeOK
  <2> QED
    BY <2>2, Zenon DEF Publish, TypeOK
<1>6. core' \in [Cores -> CoreState]
  BY SettledType, Zenon DEF Publish
<1> QED
  BY <1>2, <1>3, <1>4, <1>5, <1>6 DEF Publish, TypeOK

LEMMA RejectType ==
  ASSUME TypeOK, CoreHasJob, NEW c \in Cores, NEW t \in Nows, Reject(c, t)
  PROVE TypeOK'
<1> DEFINE j == core[c].job
<1>1. j \in Jobs
  BY DEF Reject, CoreHasJob, Busy
<1>2. jobs' \in [Jobs -> JobRow]
  <2>1. 0 \in Nat
    OBVIOUS
  <2>2. [jobs[j] EXCEPT !.state = "failed", !.token = 0, !.finExp = 0] \in JobRow
    BY <1>1, <2>1, RowType, ZenonT(60) DEF JobRow
  <2>3. [jobs EXCEPT ![j] = [@ EXCEPT !.state = "failed", !.token = 0, !.finExp = 0]]
          \in [Jobs -> JobRow]
    BY <2>2, PutRow, Zenon
  <2> QED
    BY <2>3, Zenon DEF Reject, TypeOK
<1>3. core' \in [Cores -> CoreState]
  BY SettledType, Zenon DEF Reject
<1> QED
  BY <1>2, <1>3 DEF Reject, TypeOK

LEMMA MaintenanceFailsType ==
  ASSUME TypeOK, NEW c \in Cores, MaintenanceFails(c)
  PROVE TypeOK'
<1>1. [core[c] EXCEPT !.pc = "maintained"] \in CoreState
  BY CoreType, ZenonT(60) DEF CoreState
<1>2. core' \in [Cores -> CoreState]
  BY <1>1, PutCore, Zenon DEF MaintenanceFails
<1> QED
  BY <1>2 DEF MaintenanceFails, TypeOK

LEMMA AbandonType ==
  ASSUME TypeOK, NEW c \in Cores, Abandon(c)
  PROVE TypeOK'
<1>1. core' \in [Cores -> CoreState]
  BY IdleCoreType, PutCore, Zenon DEF Abandon
<1> QED
  BY <1>1 DEF Abandon, TypeOK

-----------------------------------------------------------------------------
(***************************************************************************)
(* The invariant of one job: claim, budget, cancellation and publication.  *)
(***************************************************************************)
JobOK(k) ==
  /\ jobs[k].state \in {"none", "preparing"} => jobs[k].count = 0
  /\ jobs[k].state = "queued" => jobs[k].count < MaxAttempts
  /\ jobs[k].state = "running" =>
       /\ jobs[k].claim = jobs[k].count
       /\ jobs[k].count > 0
       /\ attempts[k][jobs[k].count].state = "running"
       /\ attempts[k][jobs[k].count].lease = jobs[k].claimExp
  /\ \A n \in AttemptNumbers :
       attempts[k][n].state = "running" =>
         jobs[k].state = "running" /\ jobs[k].claim = n
  /\ jobs[k].cancel => jobs[k].state \in {"running", "cancelled"}
  /\ jobs[k].state = "succeeded" => projects[k] = 1
  /\ jobs[k].state \in JobStates \ {"succeeded", "deleted"} => projects[k] = 0
  /\ projects[k] <= 1

JobInv == \A k \in Jobs : JobOK(k)

\* A step that leaves the rows of a job alone keeps its invariant.
LEMMA Frame ==
  ASSUME NEW k \in Jobs, JobOK(k), jobs'[k] = jobs[k],
         attempts'[k] = attempts[k], projects'[k] = projects[k]
  PROVE JobOK(k)'
BY DEF JobOK

LEMMA SubmitInv ==
  ASSUME TypeOK, JobInv, NEW j \in Jobs, NEW t \in Nows, SubmitJob(j, t)
  PROVE JobInv'
<1> SUFFICES ASSUME NEW k \in Jobs PROVE JobOK(k)'
  BY DEF JobInv
<1>1. CASE k # j
  BY <1>1, Frame DEF SubmitJob, JobInv, TypeOK
<1>2. CASE k = j
  <2>1. /\ jobs'[j].state = "preparing" /\ jobs'[j].count = 0
        /\ jobs'[j].cancel = FALSE
    BY DEF SubmitJob, AbsentJob, TypeOK
  <2> QED
    BY <1>2, <2>1 DEF SubmitJob, JobInv, JobOK
<1> QED
  BY <1>1, <1>2

LEMMA PrepareInv ==
  ASSUME TypeOK, JobInv, NEW j \in Jobs, NEW i \in Inputs, StorePreparedInput(j, i)
  PROVE JobInv'
<1> SUFFICES ASSUME NEW k \in Jobs PROVE JobOK(k)'
  BY DEF JobInv
<1>1. CASE k # j
  BY <1>1, Frame DEF StorePreparedInput, JobInv, TypeOK
<1>2. CASE k = j
  <2>1. /\ jobs'[j].state = "queued" /\ jobs'[j].count = jobs[j].count
        /\ jobs'[j].cancel = jobs[j].cancel
    BY DEF StorePreparedInput, TypeOK, JobRow
  <2> QED
    BY <1>2, <2>1, ConstantsAssumption DEF StorePreparedInput, JobInv, JobOK
<1> QED
  BY <1>1, <1>2

LEMMA ClaimInv ==
  ASSUME TypeOK, JobInv, NEW j \in Jobs, NEW t \in Nows, ClaimJob(j, t)
  PROVE JobInv'
<1> SUFFICES ASSUME NEW k \in Jobs PROVE JobOK(k)'
  BY DEF JobInv
<1>1. CASE k # j
  BY <1>1, Frame DEF ClaimJob, JobInv, TypeOK
<1>2. CASE k = j
  <2> DEFINE n == jobs[j].count + 1
  <2>1. /\ jobs'[j].state = "running" /\ jobs'[j].count = n
        /\ jobs'[j].claim = n /\ jobs'[j].claimExp = t + ClaimLease
        /\ jobs'[j].cancel = jobs[j].cancel
    BY DEF ClaimJob, TypeOK, JobRow
  <2>2. n \in AttemptNumbers
    BY RowType, ConstantsAssumption DEF ClaimJob, Claimable, JobInv, JobOK
  <2>3. /\ attempts'[j][n] = [state |-> "running", lease |-> t + ClaimLease]
        /\ \A m \in AttemptNumbers : m # n => attempts'[j][m] = attempts[j][m]
    BY <2>2 DEF ClaimJob, TypeOK
  <2> HIDE DEF n
  <2> QED
    BY <1>2, <2>1, <2>2, <2>3 DEF ClaimJob, Claimable, JobInv, JobOK
<1> QED
  BY <1>1, <1>2

LEMMA FailPreparationInv ==
  ASSUME TypeOK, JobInv, NEW j \in Jobs, FailPreparation(j)
  PROVE JobInv'
<1> SUFFICES ASSUME NEW k \in Jobs PROVE JobOK(k)'
  BY DEF JobInv
<1>1. CASE k # j
  BY <1>1, Frame DEF FailPreparation, JobInv, TypeOK
<1>2. CASE k = j
  <2>1. /\ jobs'[j].state = "failed"
        /\ jobs'[j].cancel = jobs[j].cancel
    BY DEF FailPreparation, TypeOK, JobRow
  <2> QED
    BY <1>2, <2>1 DEF FailPreparation, JobInv, JobOK
<1> QED
  BY <1>1, <1>2

LEMMA CancelInv ==
  ASSUME TypeOK, JobInv, NEW j \in Jobs, CancelJob(j)
  PROVE JobInv'
<1> SUFFICES ASSUME NEW k \in Jobs PROVE JobOK(k)'
  BY DEF JobInv
<1>1. CASE k # j
  BY <1>1, Frame DEF CancelJob, JobInv, TypeOK
<1>2. CASE k = j
  <2>1. CASE jobs[j].state \in {"preparing", "queued"}
    <3>1. /\ jobs' = [jobs EXCEPT ![j] =
                       [@ EXCEPT !.state = "cancelled", !.cancel = TRUE]]
          /\ attempts' = attempts /\ projects' = projects
      BY <2>1 DEF CancelJob
    <3>2. jobs'[j].state = "cancelled"
      BY <3>1 DEF TypeOK, JobRow
    <3> QED
      BY <1>2, <2>1, <3>1, <3>2 DEF JobInv, JobOK
  <2>2. CASE jobs[j].state \notin {"preparing", "queued"}
    <3>1. /\ jobs[j].state = "running"
          /\ jobs' = [jobs EXCEPT ![j] = [@ EXCEPT !.cancel = TRUE]]
          /\ attempts' = attempts /\ projects' = projects
      BY <2>2 DEF CancelJob
    <3>2. /\ jobs'[j].state = jobs[j].state /\ jobs'[j].count = jobs[j].count
          /\ jobs'[j].claim = jobs[j].claim
          /\ jobs'[j].claimExp = jobs[j].claimExp
      BY <3>1 DEF TypeOK, JobRow
    <3> QED
      BY <1>2, <3>1, <3>2 DEF JobInv, JobOK
  <2> QED
    BY <2>1, <2>2
<1> QED
  BY <1>1, <1>2

LEMMA ReuseInv ==
  ASSUME TypeOK, JobInv, NEW j \in Jobs, NEW m \in Jobs, NEW t \in Nows,
         ReuseResult(j, m, t)
  PROVE JobInv'
<1> SUFFICES ASSUME NEW k \in Jobs PROVE JobOK(k)'
  BY DEF JobInv
<1>1. CASE k # j
  BY <1>1, Frame DEF ReuseResult, JobInv, TypeOK
<1>2. CASE k = j
  <2>1. /\ jobs[j].state = "queued" /\ ~jobs[j].cancel
        /\ jobs'[j].state = "finalizing"
        /\ jobs'[j].cancel = jobs[j].cancel
    BY DEF ReuseResult, Claimable, TypeOK, JobRow
  <2> QED
    BY <1>2, <2>1 DEF ReuseResult, JobInv, JobOK
<1> QED
  BY <1>1, <1>2

LEMMA HeartbeatInv ==
  ASSUME TypeOK, JobInv, NEW j \in Jobs, NEW n \in AttemptNumbers, NEW t \in Nows,
         HeartbeatClaim(j, n, t)
  PROVE JobInv'
<1> SUFFICES ASSUME NEW k \in Jobs PROVE JobOK(k)'
  BY DEF JobInv
<1>1. CASE k # j
  BY <1>1, Frame DEF HeartbeatClaim, JobInv, TypeOK
<1>2. CASE k = j
  <2>1. PICK lease :
          /\ attempts' = [attempts EXCEPT ![j][n] =
                            [state |-> "running", lease |-> lease]]
          /\ jobs' = [jobs EXCEPT ![j] = [@ EXCEPT !.claimExp = lease]]
    BY DEF HeartbeatClaim
  <2>2. /\ jobs'[j].state = jobs[j].state /\ jobs'[j].count = jobs[j].count
        /\ jobs'[j].claim = jobs[j].claim /\ jobs'[j].claimExp = lease
        /\ jobs'[j].cancel = jobs[j].cancel
    BY <2>1 DEF TypeOK, JobRow
  <2>3. /\ attempts'[j][n] = [state |-> "running", lease |-> lease]
        /\ \A m \in AttemptNumbers : m # n => attempts'[j][m] = attempts[j][m]
    BY <2>1 DEF TypeOK
  <2> QED
    BY <1>2, <2>2, <2>3 DEF HeartbeatClaim, HoldsClaim, JobInv, JobOK
<1> QED
  BY <1>1, <1>2

\* Closing an attempt, whatever the outcome, leaves no attempt of the job running.
LEMMA ClosedInv ==
  ASSUME TypeOK, JobInv, NEW j \in Jobs, NEW n \in AttemptNumbers, NEW st, NEW t,
         HoldsClaim(j, n, t), st # "running",
         attempts' = [attempts EXCEPT ![j][n] = ClosedAttempt(st)]
  PROVE /\ \A m \in AttemptNumbers : attempts'[j][m].state # "running"
        /\ \A k \in Jobs : k # j => attempts'[k] = attempts[k]
<1>1. /\ attempts'[j][n] = ClosedAttempt(st)
      /\ \A m \in AttemptNumbers : m # n => attempts'[j][m] = attempts[j][m]
      /\ \A k \in Jobs : k # j => attempts'[k] = attempts[k]
  BY DEF TypeOK
<1> QED
  BY <1>1 DEF HoldsClaim, JobInv, JobOK, ClosedAttempt

LEMMA CompleteInv ==
  ASSUME TypeOK, JobInv, NEW j \in Jobs, NEW n \in AttemptNumbers, NEW t \in Nows,
         CompleteClaim(j, n, t)
  PROVE JobInv'
<1>1. /\ \A m \in AttemptNumbers : attempts'[j][m].state # "running"
      /\ \A k \in Jobs : k # j => attempts'[k] = attempts[k]
  BY ClosedInv DEF CompleteClaim
<1> SUFFICES ASSUME NEW k \in Jobs PROVE JobOK(k)'
  BY DEF JobInv
<1>2. CASE k # j
  BY <1>1, <1>2, Frame DEF CompleteClaim, JobInv, TypeOK
<1>3. CASE k = j
  <2>1. jobs'[j].state = "finalizing" /\ jobs'[j].cancel = jobs[j].cancel
    BY DEF CompleteClaim, TypeOK, JobRow
  <2> QED
    BY <1>1, <1>3, <2>1 DEF CompleteClaim, HoldsClaim, JobInv, JobOK
<1> QED
  BY <1>2, <1>3

LEMMA CloseInv ==
  ASSUME TypeOK, JobInv, NEW j \in Jobs, NEW n \in AttemptNumbers, NEW t \in Nows,
         NEW st \in {"failed", "released"}, NEW retryable \in BOOLEAN,
         CloseAttempt(j, n, st, retryable, t), UNCHANGED projects
  PROVE JobInv'
<1>1. /\ \A m \in AttemptNumbers : attempts'[j][m].state # "running"
      /\ \A k \in Jobs : k # j => attempts'[k] = attempts[k]
  BY ClosedInv DEF CloseAttempt
<1> SUFFICES ASSUME NEW k \in Jobs PROVE JobOK(k)'
  BY DEF JobInv
<1>2. CASE k # j
  BY <1>1, <1>2, Frame DEF CloseAttempt, JobInv, TypeOK
<1>3. CASE k = j
  <2>1. /\ \/ jobs[j].cancel /\ jobs'[j].state = "cancelled"
           \/ ~jobs[j].cancel /\ jobs'[j].state = "failed"
           \/ /\ ~jobs[j].cancel /\ jobs'[j].state = "queued"
              /\ jobs[j].count < MaxAttempts
        /\ jobs'[j].count = jobs[j].count
        /\ jobs'[j].cancel = jobs[j].cancel
    BY RowType DEF CloseAttempt, TypeOK, JobRow
  <2> QED
    BY <1>1, <1>3, <2>1 DEF CloseAttempt, HoldsClaim, JobInv, JobOK
<1> QED
  BY <1>2, <1>3

\* What the sweep of lapsed claims and queue entries makes of one job.
LEMMA SweepInv ==
  ASSUME TypeOK, JobInv, NEW c \in Cores, NEW t \in Nows, Sweep(c, t)
  PROVE JobInv'
<1> SUFFICES ASSUME NEW k \in Jobs PROVE JobOK(k)'
  BY DEF JobInv
<1>0. /\ jobs'[k] = SweptJob(k, t)
      /\ \A n \in AttemptNumbers : attempts'[k][n] = SweptAttempt(k, n, t)
      /\ projects' = projects
  BY DEF Sweep
<1>1. CASE ClaimLapsed(k, t)
  <2>1. /\ jobs'[k].state = Recovered(jobs[k], t)
        /\ jobs'[k].count = jobs[k].count
        /\ jobs'[k].cancel = jobs[k].cancel
    BY <1>0, <1>1, RowType DEF SweptJob, JobRow
  <2>2. \A n \in AttemptNumbers : attempts'[k][n].state # "running"
    BY <1>0, <1>1 DEF SweptAttempt, ClosedAttempt, JobInv, JobOK
  <2> QED
    BY <1>0, <1>1, <2>1, <2>2, RowType DEF ClaimLapsed, Recovered, JobInv, JobOK
<1>2. CASE ~ClaimLapsed(k, t)
  <2>1. \A n \in AttemptNumbers : attempts'[k][n] = attempts[k][n]
    BY <1>0, <1>2 DEF SweptAttempt
  <2>2. CASE jobs[k].state \in {"preparing", "queued"} /\ jobs[k].queueExp <= t
    <3>1. jobs'[k].state = "expired" /\ jobs'[k].cancel = jobs[k].cancel
      BY <1>0, <1>2, <2>2, RowType DEF SweptJob, JobRow
    <3> QED
      BY <1>0, <2>1, <2>2, <3>1 DEF JobInv, JobOK
  <2>3. CASE ~(jobs[k].state \in {"preparing", "queued"} /\ jobs[k].queueExp <= t)
    <3>1. jobs'[k] = jobs[k]
      BY <1>0, <1>2, <2>3, Zenon DEF SweptJob
    <3>2. jobs[k].state = "running" => jobs[k].count \in AttemptNumbers
      BY RowType, ConstantsAssumption DEF JobInv, JobOK
    <3> QED
      BY <1>0, <2>1, <3>1, <3>2 DEF JobInv, JobOK
  <2> QED
    BY <2>2, <2>3
<1> QED
  BY <1>1, <1>2

LEMMA DeleteInv ==
  ASSUME TypeOK, JobInv, NEW c \in Cores, DeleteRetained(c)
  PROVE JobInv'
<1> SUFFICES ASSUME NEW k \in Jobs PROVE JobOK(k)'
  BY DEF JobInv
<1>1. CASE k \in core[c].doomed
  <2>1. /\ jobs'[k] = AbsentJob("deleted") /\ projects' = projects
        /\ \A n \in AttemptNumbers : attempts'[k][n] = NoAttempt
    BY <1>1 DEF DeleteRetained
  <2> QED
    BY <2>1 DEF AbsentJob, NoAttempt, JobInv, JobOK
<1>2. CASE k \notin core[c].doomed
  <2>1. attempts'[k] = attempts[k] /\ projects' = projects
    BY <1>2 DEF DeleteRetained
  <2>2. /\ jobs'[k].state = jobs[k].state /\ jobs'[k].count = jobs[k].count
        /\ jobs'[k].claim = jobs[k].claim /\ jobs'[k].cancel = jobs[k].cancel
        /\ jobs'[k].claimExp = jobs[k].claimExp
    BY <1>2, RowType DEF DeleteRetained, JobRow
  <2> QED
    BY <2>1, <2>2 DEF JobInv, JobOK
<1> QED
  BY <1>1, <1>2

LEMMA AcquireInv ==
  ASSUME TypeOK, JobInv, NEW c \in Cores, NEW j \in Jobs, NEW t \in Nows,
         AcquireFinalizationLease(c, j, t)
  PROVE JobInv'
<1> SUFFICES ASSUME NEW k \in Jobs PROVE JobOK(k)'
  BY DEF JobInv
<1>1. CASE k # j
  BY <1>1, Frame DEF AcquireFinalizationLease, JobInv, TypeOK
<1>2. CASE k = j
  <2>1. /\ jobs[j].state = "finalizing" /\ jobs'[j].state = jobs[j].state
        /\ jobs'[j].count = jobs[j].count /\ jobs'[j].cancel = jobs[j].cancel
        /\ attempts' = attempts /\ projects' = projects
    BY DEF AcquireFinalizationLease, LeaseFree, TypeOK, JobRow
  <2> QED
    BY <1>2, <2>1 DEF JobInv, JobOK
<1> QED
  BY <1>1, <1>2

LEMMA PublishInv ==
  ASSUME TypeOK, CoreHasJob, JobInv, NEW c \in Cores, NEW t \in Nows, Publish(c, t)
  PROVE JobInv'
<1> DEFINE j == core[c].job
<1>1. j \in Jobs
  BY DEF Publish, CoreHasJob, Busy
<1> SUFFICES ASSUME NEW k \in Jobs PROVE JobOK(k)'
  BY DEF JobInv
<1>2. CASE FinalizationLocked(c, t)
  <2>1. /\ jobs' = [jobs EXCEPT ![j] =
                     [@ EXCEPT !.state = "succeeded", !.token = 0, !.finExp = 0]]
        /\ projects' = [projects EXCEPT ![j] = @ + 1]
        /\ attempts' = attempts
        /\ jobs[j].state = "finalizing"
    BY <1>2 DEF Publish, FinalizationLocked, HoldsToken
  <2> HIDE DEF j
  <2>2. CASE k # j
    BY <2>1, <2>2, Frame DEF JobInv, TypeOK
  <2>3. CASE k = j
    <3>1. /\ jobs'[j].state = "succeeded" /\ jobs'[j].cancel = jobs[j].cancel
          /\ projects'[j] = projects[j] + 1
      BY <1>1, <2>1 DEF TypeOK, JobRow
    <3> QED
      BY <1>1, <2>1, <2>3, <3>1 DEF JobInv, JobOK
  <2> QED
    BY <2>2, <2>3
<1>3. CASE ~FinalizationLocked(c, t)
  BY <1>3, Frame DEF Publish, JobInv
<1> QED
  BY <1>2, <1>3

LEMMA RejectInv ==
  ASSUME TypeOK, CoreHasJob, JobInv, NEW c \in Cores, NEW t \in Nows, Reject(c, t)
  PROVE JobInv'
<1> DEFINE j == core[c].job
<1>1. j \in Jobs
  BY DEF Reject, CoreHasJob, Busy
<1> SUFFICES ASSUME NEW k \in Jobs PROVE JobOK(k)'
  BY DEF JobInv
<1>2. CASE FinalizationLocked(c, t)
  <2>1. /\ jobs' = [jobs EXCEPT ![j] =
                     [@ EXCEPT !.state = "failed", !.token = 0, !.finExp = 0]]
        /\ projects' = projects /\ attempts' = attempts
        /\ jobs[j].state = "finalizing"
    BY <1>2 DEF Reject, FinalizationLocked, HoldsToken
  <2> HIDE DEF j
  <2>2. CASE k # j
    BY <2>1, <2>2, Frame DEF JobInv, TypeOK
  <2>3. CASE k = j
    <3>1. /\ jobs'[j].state = "failed" /\ jobs'[j].cancel = jobs[j].cancel
      BY <1>1, <2>1 DEF TypeOK, JobRow
    <3> QED
      BY <1>1, <2>1, <2>3, <3>1 DEF JobInv, JobOK
  <2> QED
    BY <2>2, <2>3
<1>3. CASE ~FinalizationLocked(c, t)
  BY <1>3, Frame DEF Reject, JobInv
<1> QED
  BY <1>2, <1>3

\* The steps that leave jobs, attempts and projects alone.
LEMMA QuietInv ==
  ASSUME JobInv, UNCHANGED <<jobs, attempts, projects>>
  PROVE JobInv'
BY Frame DEF JobInv

-----------------------------------------------------------------------------
(***************************************************************************)
(* A Core process that finalizes has a job in hand.                        *)
(***************************************************************************)
LEMMA CoreJobStep ==
  ASSUME TypeOK, CoreHasJob, NEW c \in Cores,
         \A d \in Cores : d # c => core'[d] = core[d],
         core'[c].pc \in Busy => core'[c].job \in Jobs
  PROVE CoreHasJob'
BY DEF CoreHasJob, Busy

LEMMA MaintainCoreHasJob ==
  ASSUME TypeOK, CoreHasJob, NEW c \in Cores, Maintain(c) \/ MaintenanceFails(c) \/ Abandon(c)
  PROVE CoreHasJob'
<1>1. ASSUME NEW t \in Nows, Sweep(c, t) PROVE CoreHasJob'
  <2>1. core'[c].pc = "retaining" /\ \A d \in Cores : d # c => core'[d] = core[d]
    BY <1>1 DEF Sweep, TypeOK, CoreState
  <2> QED
    BY <2>1, CoreJobStep DEF Busy
<1>2. ASSUME DeleteRetained(c) PROVE CoreHasJob'
  <2>1. core'[c].pc = "maintained" /\ \A d \in Cores : d # c => core'[d] = core[d]
    BY <1>2 DEF DeleteRetained, TypeOK, CoreState
  <2> QED
    BY <2>1, CoreJobStep DEF Busy
<1>3. ASSUME NEW j \in Jobs, NEW t \in Nows, AcquireFinalizationLease(c, j, t)
      PROVE CoreHasJob'
  <2>1. core'[c].job = j /\ \A d \in Cores : d # c => core'[d] = core[d]
    BY <1>3 DEF AcquireFinalizationLease, TypeOK, CoreState
  <2> QED
    BY <2>1, CoreJobStep
<1>4. ASSUME NEW t \in Nows, Rest(c, t) PROVE CoreHasJob'
  <2>1. core'[c].pc = "idle" /\ \A d \in Cores : d # c => core'[d] = core[d]
    BY <1>4 DEF Rest, TypeOK, CoreState
  <2> QED
    BY <2>1, CoreJobStep DEF Busy
<1>5. ASSUME LoadStagedArtifacts(c) PROVE CoreHasJob'
  <2>1. PICK found :
          core' = [core EXCEPT ![c] = [@ EXCEPT !.pc = "loaded", !.staged = found]]
    BY <1>5 DEF LoadStagedArtifacts
  <2>2. /\ core'[c].job = core[c].job
        /\ \A d \in Cores : d # c => core'[d] = core[d]
    BY <2>1 DEF TypeOK, CoreState
  <2>3. core[c].job \in Jobs
    BY <1>5 DEF LoadStagedArtifacts, CoreHasJob, Busy
  <2> QED
    BY <2>2, <2>3, CoreJobStep
<1>6. ASSUME ValidateFinalization(c) PROVE CoreHasJob'
  <2>1. PICK verdict :
          core' = [core EXCEPT ![c] = [@ EXCEPT !.pc = verdict]]
    BY <1>6 DEF ValidateFinalization
  <2>2. /\ core'[c].job = core[c].job
        /\ \A d \in Cores : d # c => core'[d] = core[d]
    BY <2>1 DEF TypeOK, CoreState
  <2>3. core[c].job \in Jobs
    BY <1>6 DEF ValidateFinalization, CoreHasJob, Busy
  <2> QED
    BY <2>2, <2>3, CoreJobStep
<1>7. ASSUME core' = Settled(c) PROVE CoreHasJob'
  <2>1. core'[c].pc = "maintained" /\ \A d \in Cores : d # c => core'[d] = core[d]
    BY <1>7 DEF Settled, IdleCore, TypeOK
  <2> QED
    BY <2>1, CoreJobStep DEF Busy
<1>8. ASSUME Abandon(c) PROVE CoreHasJob'
  <2>1. core'[c].pc = "idle" /\ \A d \in Cores : d # c => core'[d] = core[d]
    BY <1>8 DEF Abandon, IdleCore, TypeOK
  <2> QED
    BY <2>1, CoreJobStep DEF Busy
<1>9. ASSUME NEW t \in Nows, Publish(c, t) PROVE CoreHasJob'
  BY <1>9, <1>7 DEF Publish
<1>10. ASSUME NEW t \in Nows, Reject(c, t) PROVE CoreHasJob'
  BY <1>10, <1>7 DEF Reject
<1>11. ASSUME MaintenanceFails(c) PROVE CoreHasJob'
  <2>1. core'[c].pc = "maintained" /\ \A d \in Cores : d # c => core'[d] = core[d]
    BY <1>11 DEF MaintenanceFails, TypeOK, CoreState
  <2> QED
    BY <2>1, CoreJobStep DEF Busy
<1> QED
  BY <1>1, <1>2, <1>3, <1>4, <1>5, <1>6, <1>8, <1>9, <1>10, <1>11 DEF Maintain

-----------------------------------------------------------------------------
(***************************************************************************)
(* The inductive invariant and the theorems.                               *)
(***************************************************************************)
IInv == TypeOK /\ CoreHasJob /\ JobInv

LEMMA InitIInv == Init => IInv
<1> SUFFICES ASSUME Init PROVE IInv
  OBVIOUS
<1>1. TypeOK
  BY InitType
<1>2. CoreHasJob
  BY DEF Init, IdleCore, CoreHasJob, Busy
<1>3. JobInv
  <2> SUFFICES ASSUME NEW k \in Jobs PROVE JobOK(k)
    BY DEF JobInv
  <2>1. /\ jobs[k] = AbsentJob("none") /\ projects[k] = 0
        /\ \A n \in AttemptNumbers : attempts[k][n] = NoAttempt
    BY DEF Init
  <2> QED
    BY <2>1 DEF AbsentJob, NoAttempt, JobOK
<1> QED
  BY <1>1, <1>2, <1>3 DEF IInv

\* The budget part of the invariant is what types the number of a new attempt.
LEMMA InvBudget == ASSUME JobInv PROVE RetryBudget
BY DEF JobInv, JobOK, RetryBudget

LEMMA RequesterIInv == ASSUME IInv, Requester PROVE IInv'
<1> USE DEF IInv
<1>0. ASSUME UNCHANGED core PROVE CoreHasJob'
  BY <1>0 DEF CoreHasJob, Busy
<1>1. ASSUME NEW j \in Jobs, NEW t \in Nows, SubmitJob(j, t) PROVE IInv'
  BY <1>0, <1>1, SubmitType, SubmitInv DEF SubmitJob
<1>2. ASSUME NEW j \in Jobs, NEW i \in Inputs, StorePreparedInput(j, i) PROVE IInv'
  BY <1>0, <1>2, PrepareType, PrepareInv DEF StorePreparedInput
<1>3. ASSUME NEW j \in Jobs, FailPreparation(j) PROVE IInv'
  BY <1>0, <1>3, FailPreparationType, FailPreparationInv DEF FailPreparation
<1>4. ASSUME NEW j \in Jobs, CancelJob(j) PROVE IInv'
  BY <1>0, <1>4, CancelType, CancelInv DEF CancelJob
<1> QED
  BY <1>1, <1>2, <1>3, <1>4 DEF Requester

LEMMA WorkerIInv == ASSUME IInv, Worker PROVE IInv'
<1> USE DEF IInv
<1>0. ASSUME UNCHANGED core PROVE CoreHasJob'
  BY <1>0 DEF CoreHasJob, Busy
<1>1. ASSUME NEW j \in Jobs, NEW t \in Nows, ClaimJob(j, t) PROVE IInv'
  BY <1>0, <1>1, InvBudget, ClaimType, ClaimInv DEF ClaimJob
<1>2. ASSUME NEW j \in Jobs, NEW k \in Jobs, NEW t \in Nows, ReuseResult(j, k, t)
      PROVE IInv'
  BY <1>0, <1>2, ReuseType, ReuseInv DEF ReuseResult
<1>3. ASSUME NEW j \in Jobs, NEW n \in AttemptNumbers, NEW t \in Nows,
             HeartbeatClaim(j, n, t)
      PROVE IInv'
  BY <1>0, <1>3, HeartbeatType, HeartbeatInv DEF HeartbeatClaim
<1>4. ASSUME NEW j \in Jobs, NEW n \in AttemptNumbers, NEW t \in Nows, NEW r \in Roles,
             CreateArtifactTransfer(j, n, r, t)
      PROVE IInv'
  BY <1>0, <1>4, TicketType, QuietInv DEF CreateArtifactTransfer
<1>5. ASSUME NEW j \in Jobs, NEW n \in AttemptNumbers, NEW t \in Nows, NEW r \in Roles,
             BeginUpload(j, n, r, t)
      PROVE IInv'
  BY <1>0, <1>5, BeginUploadType, QuietInv DEF BeginUpload
<1>6. ASSUME NEW j \in Jobs, NEW n \in AttemptNumbers, NEW r \in Roles,
             StoreUpload(j, n, r)
      PROVE IInv'
  BY <1>0, <1>6, StoreUploadType, QuietInv DEF StoreUpload
<1>7. ASSUME NEW j \in Jobs, NEW n \in AttemptNumbers, NEW t \in Nows,
             CompleteClaim(j, n, t)
      PROVE IInv'
  BY <1>0, <1>7, CompleteType, CompleteInv DEF CompleteClaim
<1>8. ASSUME NEW j \in Jobs, NEW n \in AttemptNumbers, NEW t \in Nows,
             NEW retryable \in BOOLEAN, FailClaim(j, n, retryable, t)
      PROVE IInv'
  BY <1>0, <1>8, FailType, CloseInv DEF FailClaim
<1>9. ASSUME NEW j \in Jobs, NEW n \in AttemptNumbers, NEW t \in Nows,
             ReleaseClaim(j, n, t)
      PROVE IInv'
  BY <1>0, <1>9, ReleaseType, CloseInv DEF ReleaseClaim
<1> QED
  BY <1>1, <1>2, <1>3, <1>4, <1>5, <1>6, <1>7, <1>8, <1>9 DEF Worker

LEMMA CoreIInv == ASSUME IInv, NEW c \in Cores, Maintain(c) \/ MaintenanceFails(c) \/ Abandon(c) PROVE IInv'
<1> USE DEF IInv
<1>0. CoreHasJob'
  BY MaintainCoreHasJob
<1>1. ASSUME NEW t \in Nows, Sweep(c, t) PROVE IInv'
  BY <1>0, <1>1, SweepType, SweepInv
<1>2. ASSUME DeleteRetained(c) PROVE IInv'
  BY <1>0, <1>2, DeleteType, DeleteInv
<1>3. ASSUME NEW j \in Jobs, NEW t \in Nows, AcquireFinalizationLease(c, j, t)
      PROVE IInv'
  BY <1>0, <1>3, AcquireType, AcquireInv
<1>4. ASSUME NEW t \in Nows, Rest(c, t) PROVE IInv'
  BY <1>0, <1>4, RestType, QuietInv DEF Rest
<1>5. ASSUME LoadStagedArtifacts(c) PROVE IInv'
  BY <1>0, <1>5, LoadType, QuietInv DEF LoadStagedArtifacts
<1>6. ASSUME ValidateFinalization(c) PROVE IInv'
  BY <1>0, <1>6, ValidateType, QuietInv DEF ValidateFinalization
<1>7. ASSUME NEW t \in Nows, Publish(c, t) PROVE IInv'
  BY <1>0, <1>7, PublishType, PublishInv
<1>8. ASSUME NEW t \in Nows, Reject(c, t) PROVE IInv'
  BY <1>0, <1>8, RejectType, RejectInv
<1>9. ASSUME Abandon(c) PROVE IInv'
  BY <1>0, <1>9, AbandonType, QuietInv DEF Abandon
<1>10. ASSUME MaintenanceFails(c) PROVE IInv'
  BY <1>0, <1>10, MaintenanceFailsType, QuietInv DEF MaintenanceFails
<1> QED
  BY <1>1, <1>2, <1>3, <1>4, <1>5, <1>6, <1>7, <1>8, <1>9, <1>10 DEF Maintain

LEMMA StepIInv == IInv /\ [Next]_vars => IInv'
<1> SUFFICES ASSUME IInv, [Next]_vars PROVE IInv'
  OBVIOUS
<1>1. ASSUME Tick PROVE IInv'
  BY <1>1, QuietInv DEF Tick, IInv, TypeOK, CoreHasJob, Busy
<1>2. ASSUME UNCHANGED vars PROVE IInv'
  BY <1>2, QuietInv DEF vars, IInv, TypeOK, CoreHasJob, Busy
<1> QED
  BY <1>1, <1>2, RequesterIInv, WorkerIInv, CoreIInv DEF Next

\* The inductive invariant holds in every reachable state.
THEOREM Invariance == Spec => []IInv
BY InitIInv, StepIInv, PTL DEF Spec

\* Every row keeps its columns' types, in particular the attempt numbers that
\* try_claim hands out stay within max_attempts.
THEOREM TypeCorrectness == Spec => []TypeOK
<1>1. IInv => TypeOK
  BY DEF IInv
<1> QED
  BY <1>1, Invariance, PTL

\* A running job is fenced by exactly one claim (heartbeat_claim, complete_claim,
\* mutate_failed_claim and maintain_lifecycle against try_claim).
THEOREM ClaimsAreFenced == Spec => []ClaimFence
<1>1. IInv => ClaimFence
  BY DEF IInv, JobInv, JobOK, ClaimFence
<1> QED
  BY <1>1, Invariance, PTL

\* An accepted cancellation is never overtaken by a delivery or a requeue.
THEOREM CancellationIsKept == Spec => []CancellationWins
<1>1. IInv => CancellationWins
  BY DEF IInv, JobInv, JobOK, CancellationWins
<1> QED
  BY <1>1, Invariance, PTL

\* A queued job has an attempt left.
THEOREM BudgetIsKept == Spec => []RetryBudget
<1>1. IInv => RetryBudget
  BY InvBudget DEF IInv
<1> QED
  BY <1>1, Invariance, PTL

\* The result of a job is published once, however many Core processes finalize.
THEOREM ResultIsPublishedOnce == Spec => []PublishedOnce
<1>1. IInv => PublishedOnce
  BY DEF IInv, JobInv, JobOK, PublishedOnce
<1> QED
  BY <1>1, Invariance, PTL

-----------------------------------------------------------------------------
(***************************************************************************)
(* The result: what a Core process holds in memory, what a job reuses and  *)
(* what is published.                                                      *)
(***************************************************************************)

\* Core owns the job, or owned it.
Late == {"finalizing"} \cup Terminal

\* S is what one attempt made of the input of job j: its own, and then the
\* attempt that delivered, or that of a job whose result was published before.
OneDelivery(j, S) ==
  /\ \A a, b \in S : a.blob = b.blob /\ (a.role = b.role => a = b)
  /\ \A a \in S :
       /\ a.blob.input = jobs[j].input
       /\ \/ /\ a.blob.job = j /\ a.blob.attempt = jobs[j].count
             /\ attempts[j][jobs[j].count].state = "delivered"
          \/ a.blob.job # j /\ jobs[a.blob.job].state \in {"succeeded", "deleted"}

\* What the memory m of a maintenance loop says of the rows: the jobs it is about
\* to delete are settled, the job it finalizes is with Core, and what it staged
\* is one delivery.
MemoryOK(m) ==
  /\ \A j \in m.doomed : jobs[j].state \in Terminal \cup {"deleted"}
  /\ m.pc \in Busy => jobs[m.job].state \in Late \cup {"deleted"}
  /\ m.pc \in {"loaded", "publishing", "rejecting"} /\ jobs[m.job].state = "finalizing" =>
       OneDelivery(m.job, m.staged)
  /\ m.pc = "publishing" => Required \subseteq {a.role : a \in m.staged}

\* A job that reuses a result names a job that succeeded with the same input.
SourceOK(k) ==
  jobs[k].source # None =>
    /\ jobs[k].state \in Late
    /\ jobs[jobs[k].source].state = "succeeded"
    /\ jobs[jobs[k].source].input = jobs[k].input

ArtifactsOK(k) ==
  /\ artifacts[k] # {} => jobs[k].state = "succeeded"
  /\ jobs[k].state = "succeeded" =>
       /\ Required \subseteq {a.role : a \in artifacts[k]}
       /\ OneDelivery(k, artifacts[k])

ResultInv ==
  /\ \A c \in Cores : MemoryOK(core[c])
  /\ \A k \in Jobs : SourceOK(k) /\ ArtifactsOK(k)

\* What a step may do to a job that is with Core: leave what it is made of
\* alone, settle it for good, or delete it.
Kept(k) ==
  /\ jobs[k].state \in Late =>
       \/ jobs'[k].state = "deleted"
       \/ /\ jobs'[k].state \in Late
          /\ jobs[k].state \in Terminal => jobs'[k].state = jobs[k].state
          /\ jobs'[k].input = jobs[k].input /\ jobs'[k].count = jobs[k].count
          /\ \A n \in AttemptNumbers : attempts'[k][n].state = attempts[k][n].state
  /\ jobs[k].state = "deleted" => jobs'[k].state = "deleted"

\* One delivery stays one while its job is with Core.
LEMMA DeliveryKept ==
  ASSUME \A k \in Jobs : Kept(k), NEW j \in Jobs, NEW S \in SUBSET Artifact, OneDelivery(j, S),
         jobs[j].state \in Late, jobs'[j].state # "deleted"
  PROVE  OneDelivery(j, S)'
<1>1. /\ jobs'[j].input = jobs[j].input /\ jobs'[j].count = jobs[j].count
      /\ \A n \in AttemptNumbers : attempts'[j][n].state = attempts[j][n].state
  BY DEF Kept
<1>2. ASSUME NEW a \in S
      PROVE  /\ a.blob.input = jobs'[j].input
             /\ \/ /\ a.blob.job = j /\ a.blob.attempt = jobs'[j].count
                   /\ attempts'[j][jobs'[j].count].state = "delivered"
                \/ a.blob.job # j /\ jobs'[a.blob.job].state \in {"succeeded", "deleted"}
  <2>1. a.blob \in Blob /\ a.blob.job \in Jobs /\ a.blob.attempt \in AttemptNumbers
    BY <1>2 DEF Artifact, Blob
  <2>2. jobs[a.blob.job].state \in {"succeeded", "deleted"} =>
          jobs'[a.blob.job].state \in {"succeeded", "deleted"}
    BY <2>1 DEF Kept, Late
  <2> QED
    BY <1>1, <1>2, <2>1, <2>2 DEF OneDelivery
<1> QED
  BY <1>2 DEF OneDelivery

\* So does what a maintenance loop knows.
LEMMA MemoryKept ==
  ASSUME \A k \in Jobs : Kept(k), NEW m \in CoreState, m.pc \in Busy => m.job \in Jobs, MemoryOK(m)
  PROVE  MemoryOK(m)'
<1>1. m.doomed \subseteq Jobs /\ m.staged \in SUBSET Artifact
  BY DEF CoreState
<1>2. \A j \in m.doomed : jobs'[j].state \in Terminal \cup {"deleted"}
  BY <1>1 DEF MemoryOK, Kept, Late
<1>3. m.pc \in Busy => jobs'[m.job].state \in Late \cup {"deleted"}
  BY DEF MemoryOK, Kept
<1>4. ASSUME m.pc \in {"loaded", "publishing", "rejecting"}, jobs'[m.job].state = "finalizing"
      PROVE  OneDelivery(m.job, m.staged)'
  <2>1. m.job \in Jobs /\ m.pc \in Busy
    BY <1>4 DEF Busy
  <2>2. jobs[m.job].state = "finalizing"
    BY <1>4, <2>1 DEF MemoryOK, Kept, Late
  <2> QED
    BY <1>1, <1>4, <2>1, <2>2, DeliveryKept DEF MemoryOK, Late
<1> QED
  BY <1>2, <1>3, <1>4 DEF MemoryOK, Busy

\* So do the artifacts of a job that keeps them.
LEMMA ArtifactsKept ==
  ASSUME TypeOK, \A i \in Jobs : Kept(i), NEW k \in Jobs, ArtifactsOK(k),
         artifacts'[k] = artifacts[k],
         jobs'[k].state = "deleted" => jobs[k].state = "deleted",
         jobs'[k].state = "succeeded" => jobs[k].state = "succeeded"
  PROVE  ArtifactsOK(k)'
<1>1. PICK S \in SUBSET Artifact : S = artifacts[k] /\ S = artifacts'[k]
  BY DEF TypeOK
<1>2. S # {} => jobs'[k].state = "succeeded"
  BY <1>1 DEF ArtifactsOK, Kept, Late
<1>3. ASSUME jobs'[k].state = "succeeded" PROVE OneDelivery(k, S)'
  BY <1>1, <1>3, DeliveryKept DEF ArtifactsOK, Late
<1> QED
  BY <1>1, <1>2, <1>3 DEF ArtifactsOK

\* The source of a job stays one while neither is deleted.
LEMMA SourceKept ==
  ASSUME TypeOK, \A i \in Jobs : Kept(i), NEW k \in Jobs, SourceOK(k),
         jobs'[k].source \in {jobs[k].source, None},
         jobs'[k].source # None =>
           jobs'[k].state # "deleted" /\ jobs'[jobs'[k].source].state # "deleted"
  PROVE  SourceOK(k)'
<1> SUFFICES ASSUME jobs'[k].source # None
             PROVE  /\ jobs'[k].state \in Late
                    /\ jobs'[jobs'[k].source].state = "succeeded"
                    /\ jobs'[jobs'[k].source].input = jobs'[k].input
  BY DEF SourceOK
<1>1. PICK s \in Jobs : s = jobs[k].source /\ s = jobs'[k].source
  BY RowType
<1>2. /\ jobs[k].state \in Late /\ jobs[s].state = "succeeded" /\ jobs[s].input = jobs[k].input
  BY <1>1 DEF SourceOK
<1> QED
  BY <1>1, <1>2 DEF Kept, Late

\* A step that leaves the rows of the jobs alone keeps all of them.
LEMMA QuietKept ==
  ASSUME UNCHANGED <<jobs, attempts>> PROVE \A k \in Jobs : Kept(k)
BY DEF Kept

\* A step of one maintenance loop.
LEMMA CoreMove ==
  ASSUME TypeOK, CoreHasJob, ResultInv, \A k \in Jobs : Kept(k), NEW c \in Cores,
         \A d \in Cores : d # c => core'[d] = core[d], MemoryOK(core[c])'
  PROVE  \A d \in Cores : MemoryOK(core[d])'
<1> SUFFICES ASSUME NEW d \in Cores, d # c PROVE MemoryOK(core[d])'
  OBVIOUS
<1>1. PICK m \in CoreState : m = core[d] /\ m = core'[d]
  BY CoreType
<1>2. MemoryOK(m)'
  BY <1>1, MemoryKept DEF ResultInv, CoreHasJob
<1> QED
  BY <1>1, <1>2

\* A step that only touches a job which is not with Core yet.
LEMMA EarlyResult ==
  ASSUME TypeOK, CoreHasJob, ResultInv, UNCHANGED <<artifacts, core>>, NEW j \in Jobs,
         jobs[j].state \in {"none", "preparing", "queued", "running"},
         \A k \in Jobs : k # j => jobs'[k] = jobs[k] /\ attempts'[k] = attempts[k],
         jobs'[j].state \notin {"succeeded", "deleted"}, SourceOK(j)'
  PROVE  ResultInv'
<1>1. \A k \in Jobs : Kept(k)
  BY DEF Kept, Late
<1>2. ASSUME NEW d \in Cores PROVE MemoryOK(core[d])'
  <2>1. PICK m \in CoreState : m = core[d] /\ m = core'[d]
    BY CoreType
  <2>2. MemoryOK(m)'
    BY <1>1, <2>1, MemoryKept DEF ResultInv, CoreHasJob
  <2> QED
    BY <2>1, <2>2
<1>3. ASSUME NEW k \in Jobs PROVE ArtifactsOK(k)'
  <2>1. ArtifactsOK(k) /\ artifacts'[k] = artifacts[k]
    BY DEF ResultInv
  <2> QED
    BY <1>1, <2>1, ArtifactsKept
<1>4. ASSUME NEW k \in Jobs, k # j PROVE SourceOK(k)'
  <2>1. SourceOK(k) /\ jobs'[k] = jobs[k]
    BY <1>4 DEF ResultInv
  <2>2. ASSUME jobs[k].source # None
        PROVE  jobs'[k].state # "deleted" /\ jobs'[jobs'[k].source].state # "deleted"
    <3>1. PICK s \in Jobs : s = jobs[k].source
      BY <2>2, RowType
    <3>2. jobs[k].state \in Late /\ jobs[s].state = "succeeded"
      BY <2>1, <2>2, <3>1 DEF SourceOK
    <3> QED
      BY <2>1, <3>1, <3>2 DEF Late
  <2> QED
    BY <1>1, <2>1, <2>2, SourceKept
<1> QED
  BY <1>2, <1>3, <1>4 DEF ResultInv

\* A job that is not with Core reuses nothing, and a step that sets no source
\* leaves it so.
LEMMA NoSource ==
  ASSUME ResultInv, NEW j \in Jobs,
         jobs[j].state \in {"none", "preparing", "queued", "running"},
         jobs'[j].source \in {jobs[j].source, None}
  PROVE  SourceOK(j)'
<1>1. jobs[j].source = None
  BY DEF ResultInv, SourceOK, Late
<1> QED
  BY <1>1 DEF SourceOK

\* A step that leaves the rows, the artifacts and what the loops hold alone.
LEMMA QuietResult ==
  ASSUME ResultInv, UNCHANGED <<jobs, attempts, artifacts, core>>
  PROVE  ResultInv'
BY DEF ResultInv, MemoryOK, SourceOK, ArtifactsOK, OneDelivery

\* The requester's calls only touch jobs that are not with Core.
LEMMA RequesterResult == ASSUME IInv, ResultInv, Requester PROVE ResultInv'
<1> USE DEF IInv
<1>1. ASSUME NEW j \in Jobs, NEW t \in Nows, SubmitJob(j, t) PROVE ResultInv'
  <2>1. /\ jobs[j].state = "none" /\ jobs'[j].state = "preparing" /\ jobs'[j].source = None
        /\ \A k \in Jobs : k # j => jobs'[k] = jobs[k] /\ attempts'[k] = attempts[k]
        /\ UNCHANGED <<artifacts, core>>
    BY <1>1 DEF SubmitJob, AbsentJob, TypeOK
  <2> QED
    BY <2>1, NoSource, EarlyResult
<1>2. ASSUME NEW j \in Jobs, NEW i \in Inputs, StorePreparedInput(j, i) PROVE ResultInv'
  <2>1. /\ jobs[j].state = "preparing" /\ jobs'[j].state = "queued"
        /\ jobs'[j].source = jobs[j].source
        /\ \A k \in Jobs : k # j => jobs'[k] = jobs[k] /\ attempts'[k] = attempts[k]
        /\ UNCHANGED <<artifacts, core>>
    BY <1>2 DEF StorePreparedInput, TypeOK, JobRow
  <2> QED
    BY <2>1, NoSource, EarlyResult
<1>3. ASSUME NEW j \in Jobs, FailPreparation(j) PROVE ResultInv'
  <2>1. /\ jobs[j].state = "preparing" /\ jobs'[j].state = "failed"
        /\ jobs'[j].source = jobs[j].source
        /\ \A k \in Jobs : k # j => jobs'[k] = jobs[k] /\ attempts'[k] = attempts[k]
        /\ UNCHANGED <<artifacts, core>>
    BY <1>3 DEF FailPreparation, TypeOK, JobRow
  <2> QED
    BY <2>1, NoSource, EarlyResult
<1>4. ASSUME NEW j \in Jobs, CancelJob(j) PROVE ResultInv'
  <2>1. /\ jobs[j].state \in {"preparing", "queued", "running"}
        /\ jobs'[j].state \in {"cancelled", "running"} /\ jobs'[j].source = jobs[j].source
        /\ \A k \in Jobs : k # j => jobs'[k] = jobs[k] /\ attempts'[k] = attempts[k]
        /\ UNCHANGED <<artifacts, core>>
    <3>1. CASE /\ jobs[j].state \in {"preparing", "queued"}
               /\ jobs' = [jobs EXCEPT ![j] =
                             [@ EXCEPT !.state = "cancelled", !.cancel = TRUE]]
      BY <1>4, <3>1 DEF CancelJob, TypeOK, JobRow
    <3>2. CASE /\ jobs[j].state = "running"
               /\ jobs' = [jobs EXCEPT ![j] = [@ EXCEPT !.cancel = TRUE]]
      BY <1>4, <3>2 DEF CancelJob, TypeOK, JobRow
    <3> QED
      BY <1>4, <3>1, <3>2 DEF CancelJob
  <2> QED
    BY <2>1, NoSource, EarlyResult
<1> QED
  BY <1>1, <1>2, <1>3, <1>4 DEF Requester

\* The workers' calls: only a reuse names a source, one that succeeded.
LEMMA WorkerResult == ASSUME IInv, ResultInv, Worker PROVE ResultInv'
<1> USE DEF IInv
<1>1. ASSUME NEW j \in Jobs, NEW t \in Nows, ClaimJob(j, t) PROVE ResultInv'
  <2>1. /\ jobs[j].state = "queued" /\ jobs'[j].state = "running"
        /\ jobs'[j].source = jobs[j].source
        /\ \A k \in Jobs : k # j => jobs'[k] = jobs[k]
        /\ UNCHANGED <<artifacts, core>>
    BY <1>1 DEF ClaimJob, Claimable, TypeOK, JobRow
  <2>2. \A k \in Jobs : k # j => attempts'[k] = attempts[k]
    BY <1>1 DEF ClaimJob, TypeOK
  <2> QED
    BY <2>1, <2>2, NoSource, EarlyResult
<1>2. ASSUME NEW j \in Jobs, NEW k \in Jobs, NEW t \in Nows, ReuseResult(j, k, t)
      PROVE ResultInv'
  <2>1. /\ jobs[j].state = "queued" /\ jobs'[j].state = "finalizing"
        /\ jobs'[j].source = k /\ jobs'[j].input = jobs[j].input
        /\ \A i \in Jobs : i # j => jobs'[i] = jobs[i] /\ attempts'[i] = attempts[i]
        /\ UNCHANGED <<artifacts, core>>
    BY <1>2 DEF ReuseResult, Claimable, TypeOK, JobRow
  <2>2. k # j /\ jobs[k].state = "succeeded" /\ jobs[k].input = jobs[j].input
    BY <1>2 DEF ReuseResult, CacheSources
  <2>3. SourceOK(j)'
    BY <2>1, <2>2 DEF SourceOK, Late
  <2> QED
    BY <2>1, <2>3, EarlyResult
<1>3. ASSUME NEW j \in Jobs, NEW n \in AttemptNumbers, NEW t \in Nows,
             HeartbeatClaim(j, n, t)
      PROVE ResultInv'
  <2>1. PICK lease :
          /\ attempts' = [attempts EXCEPT ![j][n] =
                            [state |-> "running", lease |-> lease]]
          /\ jobs' = [jobs EXCEPT ![j] = [@ EXCEPT !.claimExp = lease]]
    BY <1>3 DEF HeartbeatClaim
  <2>2. /\ jobs[j].state = "running" /\ jobs'[j].state = "running"
        /\ jobs'[j].source = jobs[j].source
        /\ \A k \in Jobs : k # j => jobs'[k] = jobs[k]
        /\ UNCHANGED <<artifacts, core>>
    BY <1>3, <2>1 DEF HeartbeatClaim, HoldsClaim, TypeOK, JobRow
  <2>3. \A k \in Jobs : k # j => attempts'[k] = attempts[k]
    BY <2>1 DEF TypeOK
  <2> QED
    BY <2>2, <2>3, NoSource, EarlyResult
<1>4. ASSUME UNCHANGED <<jobs, attempts, artifacts, core>> PROVE ResultInv'
  BY <1>4, QuietResult
<1>5. ASSUME NEW j \in Jobs, NEW n \in AttemptNumbers, NEW t \in Nows,
             CompleteClaim(j, n, t)
      PROVE ResultInv'
  <2>1. /\ jobs[j].state = "running" /\ jobs'[j].state = "finalizing"
        /\ jobs'[j].source = jobs[j].source
        /\ \A k \in Jobs : k # j => jobs'[k] = jobs[k]
        /\ UNCHANGED <<artifacts, core>>
    BY <1>5 DEF CompleteClaim, HoldsClaim, TypeOK, JobRow
  <2>2. \A k \in Jobs : k # j => attempts'[k] = attempts[k]
    BY <1>5, ClosedInv DEF CompleteClaim
  <2> QED
    BY <2>1, <2>2, NoSource, EarlyResult
<1>6. ASSUME NEW j \in Jobs, NEW n \in AttemptNumbers, NEW t \in Nows,
             NEW st \in {"failed", "released"}, NEW retryable \in BOOLEAN,
             CloseAttempt(j, n, st, retryable, t), UNCHANGED <<artifacts, core>>
      PROVE ResultInv'
  <2>1. /\ jobs[j].state = "running" /\ jobs'[j].state \in {"cancelled", "queued", "failed"}
        /\ jobs'[j].source = jobs[j].source
        /\ \A k \in Jobs : k # j => jobs'[k] = jobs[k]
    BY <1>6 DEF CloseAttempt, HoldsClaim, TypeOK, JobRow
  <2>2. \A k \in Jobs : k # j => attempts'[k] = attempts[k]
    BY <1>6, ClosedInv DEF CloseAttempt
  <2> QED
    BY <1>6, <2>1, <2>2, NoSource, EarlyResult
<1>7. ASSUME NEW j \in Jobs, NEW n \in AttemptNumbers, NEW t \in Nows,
             NEW retryable \in BOOLEAN, FailClaim(j, n, retryable, t)
      PROVE ResultInv'
  BY <1>6, <1>7 DEF FailClaim
<1>8. ASSUME NEW j \in Jobs, NEW n \in AttemptNumbers, NEW t \in Nows, ReleaseClaim(j, n, t)
      PROVE ResultInv'
  BY <1>6, <1>8 DEF ReleaseClaim
<1>9. ASSUME NEW j \in Jobs, NEW n \in AttemptNumbers, NEW t \in Nows, NEW r \in Roles,
             CreateArtifactTransfer(j, n, r, t) \/ BeginUpload(j, n, r, t)
      PROVE ResultInv'
  BY <1>4, <1>9 DEF CreateArtifactTransfer, BeginUpload
<1>10. ASSUME NEW j \in Jobs, NEW n \in AttemptNumbers, NEW r \in Roles, StoreUpload(j, n, r)
       PROVE ResultInv'
  BY <1>4, <1>10 DEF StoreUpload
<1> QED
  BY <1>1, <1>2, <1>3, <1>5, <1>7, <1>8, <1>9, <1>10 DEF Worker

\* The sweep closes claims and queue entries; what is with Core it leaves.
LEMMA SweepResult ==
  ASSUME IInv, ResultInv, NEW c \in Cores, NEW t \in Nows, Sweep(c, t)
  PROVE  ResultInv'
<1> USE DEF IInv
<1>1. ASSUME NEW k \in Jobs
      PROVE  /\ jobs'[k].source = jobs[k].source /\ jobs'[k].input = jobs[k].input
             /\ jobs'[k].count = jobs[k].count
             /\ \/ jobs'[k].state = jobs[k].state
                \/ /\ jobs[k].state \in {"preparing", "queued", "running"}
                   /\ jobs'[k].state \in {"cancelled", "queued", "expired", "failed"}
  <2>1. jobs'[k] = SweptJob(k, t)
    BY DEF Sweep
  <2>2. CASE ClaimLapsed(k, t)
    <3>1. PICK at : at = IF Recovered(jobs[k], t) = "queued" THEN t + RetryDelay(jobs[k].count)
                         ELSE jobs[k].nextAt
      OBVIOUS
    <3>2. jobs'[k] = [jobs[k] EXCEPT !.state = Recovered(jobs[k], t), !.claim = 0,
                                     !.claimExp = 0, !.nextAt = at]
      BY <2>1, <2>2, <3>1 DEF SweptJob
    <3>3. Recovered(jobs[k], t) \in {"cancelled", "queued", "expired", "failed"}
      BY DEF Recovered
    <3> QED
      BY <2>2, <3>2, <3>3, RowType DEF JobRow, ClaimLapsed
  <2>3. CASE ~ClaimLapsed(k, t)
    BY <2>1, <2>3, RowType DEF SweptJob, JobRow
  <2> QED
    BY <2>2, <2>3
<1>2. \A k \in Jobs : jobs[k].state \in Late =>
         \A n \in AttemptNumbers : attempts'[k][n].state = attempts[k][n].state
  BY DEF Sweep, SweptAttempt, ClaimLapsed, Late
<1>3. \A k \in Jobs : Kept(k)
  BY <1>1, <1>2 DEF Kept, Late
<1>4. MemoryOK(core[c])' /\ \A d \in Cores : d # c => core'[d] = core[d]
  <2>1. /\ core'[c].pc = "retaining" /\ core'[c].doomed = RetentionLapsed(jobs', t)
        /\ \A d \in Cores : d # c => core'[d] = core[d]
    BY DEF Sweep, TypeOK, CoreState
  <2>2. \A j \in core'[c].doomed : jobs'[j].state \in Terminal
    BY <2>1 DEF RetentionLapsed
  <2> QED
    BY <2>1, <2>2 DEF MemoryOK, Busy
<1>5. ASSUME NEW k \in Jobs PROVE SourceOK(k)' /\ ArtifactsOK(k)'
  <2>1. SourceOK(k) /\ ArtifactsOK(k) /\ artifacts'[k] = artifacts[k]
    BY DEF ResultInv, Sweep
  <2>2. ASSUME jobs[k].source # None
        PROVE  jobs'[k].state # "deleted" /\ jobs'[jobs'[k].source].state # "deleted"
    <3>1. PICK s \in Jobs : s = jobs[k].source
      BY <2>2, RowType
    <3>2. jobs[k].state \in Late /\ jobs[s].state = "succeeded"
      BY <2>1, <2>2, <3>1 DEF SourceOK
    <3> QED
      BY <1>1, <3>1, <3>2 DEF Late
  <2>3. SourceOK(k)'
    BY <1>1, <1>3, <2>1, <2>2, SourceKept
  <2> QED
    BY <1>1, <1>3, <2>1, <2>3, ArtifactsKept
<1> QED
  BY <1>3, <1>4, <1>5, CoreMove DEF ResultInv

\* Retention deletes settled jobs with their artifacts, and leaves no source
\* behind that is gone.
LEMMA DeleteResult ==
  ASSUME IInv, ResultInv, NEW c \in Cores, DeleteRetained(c)
  PROVE  ResultInv'
<1> USE DEF IInv
<1>1. PICK gone \in SUBSET Jobs : gone = core[c].doomed
  BY CoreType
<1>2. ASSUME NEW k \in gone
      PROVE  jobs'[k].state = "deleted" /\ jobs'[k].source = None /\ artifacts'[k] = {}
  BY <1>1, <1>2 DEF DeleteRetained, AbsentJob
<1>3. ASSUME NEW k \in Jobs, k \notin gone
      PROVE  /\ jobs'[k].state = jobs[k].state /\ jobs'[k].input = jobs[k].input
             /\ jobs'[k].count = jobs[k].count
             /\ jobs'[k].source = (IF jobs[k].source \in gone THEN None ELSE jobs[k].source)
             /\ attempts'[k] = attempts[k] /\ artifacts'[k] = artifacts[k]
  <2>1. attempts'[k] = attempts[k] /\ artifacts'[k] = artifacts[k]
    BY <1>1, <1>3 DEF DeleteRetained
  <2>2. jobs'[k] = (IF jobs[k].source \in gone THEN [jobs[k] EXCEPT !.source = None] ELSE jobs[k])
    BY <1>1, <1>3 DEF DeleteRetained
  <2> QED
    BY <2>1, <2>2, RowType DEF JobRow
<1>4. \A k \in gone : jobs[k].state \in Terminal \cup {"deleted"}
  BY <1>1 DEF ResultInv, MemoryOK
<1>5. \A k \in Jobs : Kept(k)
  BY <1>2, <1>3, <1>4 DEF Kept, Late
<1>6. MemoryOK(core[c])' /\ \A d \in Cores : d # c => core'[d] = core[d]
  <2>1. /\ core'[c].pc = "maintained" /\ core'[c].doomed = {}
        /\ \A d \in Cores : d # c => core'[d] = core[d]
    BY DEF DeleteRetained, TypeOK, CoreState
  <2> QED
    BY <2>1 DEF MemoryOK, Busy
<1>7. ASSUME NEW k \in Jobs PROVE SourceOK(k)' /\ ArtifactsOK(k)'
  <2>1. CASE k \in gone
    BY <1>2, <2>1 DEF SourceOK, ArtifactsOK
  <2>2. CASE k \notin gone
    <3>1. SourceOK(k) /\ ArtifactsOK(k)
      BY DEF ResultInv
    <3>2. ASSUME jobs'[k].source # None
          PROVE  jobs'[k].state # "deleted" /\ jobs'[jobs'[k].source].state # "deleted"
      <4>1. PICK s \in Jobs : s = jobs[k].source /\ s = jobs'[k].source /\ s \notin gone
        BY <1>3, <2>2, <3>2, RowType
      <4>2. jobs[k].state \in Late /\ jobs[s].state = "succeeded"
        BY <3>1, <4>1, ConstantsAssumption DEF SourceOK
      <4> QED
        BY <1>3, <2>2, <4>1, <4>2 DEF Late
    <3>3. SourceOK(k)'
      BY <1>3, <1>5, <2>2, <3>1, <3>2, SourceKept
    <3> QED
      BY <1>3, <1>5, <2>2, <3>1, <3>3, ArtifactsKept
  <2> QED
    BY <2>1, <2>2
<1> QED
  BY <1>5, <1>6, <1>7, CoreMove DEF ResultInv

\* A step of a loop that changes no job but its own, which is with Core and
\* stays undeleted.
LEMMA FinalizeResult ==
  ASSUME IInv, ResultInv, NEW c \in Cores, \A k \in Jobs : Kept(k),
         \A k \in Jobs : jobs'[k].state = "deleted" => jobs[k].state = "deleted",
         \A k \in Jobs : jobs'[k].source = jobs[k].source,
         \A d \in Cores : d # c => core'[d] = core[d], MemoryOK(core[c])',
         \A k \in Jobs :
            \/ ArtifactsOK(k)'
            \/ /\ artifacts'[k] = artifacts[k]
               /\ jobs'[k].state = "succeeded" => jobs[k].state = "succeeded"
  PROVE  ResultInv'
<1> USE DEF IInv
<1>1. ASSUME NEW k \in Jobs PROVE SourceOK(k)' /\ ArtifactsOK(k)'
  <2>1. SourceOK(k) /\ ArtifactsOK(k)
    BY DEF ResultInv
  <2>2. ASSUME jobs[k].source # None
        PROVE  jobs'[k].state # "deleted" /\ jobs'[jobs'[k].source].state # "deleted"
    <3>1. PICK s \in Jobs : s = jobs[k].source
      BY <2>2, RowType
    <3>2. jobs[k].state \in Late /\ jobs[s].state = "succeeded"
      BY <2>1, <2>2, <3>1 DEF SourceOK
    <3> QED
      BY <3>1, <3>2 DEF Late
  <2>3. SourceOK(k)'
    BY <2>1, <2>2, SourceKept
  <2>4. ArtifactsOK(k)'
    BY <2>1, ArtifactsKept
  <2> QED
    BY <2>3, <2>4
<1> QED
  BY <1>1, CoreMove DEF ResultInv

\* The lease of a finalization.
LEMMA AcquireResult ==
  ASSUME IInv, ResultInv, NEW c \in Cores, NEW j \in Jobs, NEW t \in Nows,
         AcquireFinalizationLease(c, j, t)
  PROVE  ResultInv'
<1> USE DEF IInv
<1>1. /\ jobs[j].state = "finalizing" /\ jobs'[j].state = "finalizing"
      /\ jobs'[j].input = jobs[j].input /\ jobs'[j].count = jobs[j].count
      /\ jobs'[j].source = jobs[j].source
      /\ \A k \in Jobs : k # j => jobs'[k] = jobs[k]
      /\ attempts' = attempts /\ artifacts' = artifacts
  BY DEF AcquireFinalizationLease, LeaseFree, TypeOK, JobRow
<1>2. \A k \in Jobs : Kept(k)
  BY <1>1 DEF Kept, Late
<1>3. /\ core'[c].pc = "leased" /\ core'[c].job = j /\ core'[c].doomed = core[c].doomed
      /\ \A d \in Cores : d # c => core'[d] = core[d]
  BY DEF AcquireFinalizationLease, TypeOK, CoreState
<1>4. MemoryOK(core[c])'
  <2>1. \A i \in core[c].doomed : i \in Jobs /\ jobs[i].state \in Terminal \cup {"deleted"}
    BY CoreType DEF ResultInv, MemoryOK
  <2>2. \A i \in core[c].doomed : jobs'[i].state \in Terminal \cup {"deleted"}
    BY <1>1, <2>1
  <2> QED
    BY <1>1, <1>3, <2>2 DEF MemoryOK, Late
<1> QED
  BY <1>1, <1>2, <1>3, <1>4, FinalizeResult

\* What the loader stages is one delivery: the accepted one of the job's last
\* attempt, or the published result it reuses.
LEMMA StagedDelivery ==
  ASSUME IInv, ResultInv, NEW j \in Jobs, jobs[j].state = "finalizing"
  PROVE  /\ OneDelivery(j, {}) /\ OneDelivery(j, DeliveredArtifacts(j))
         /\ \A k \in Jobs : OneDelivery(j, ReusedArtifacts(j, k))
<1> USE DEF IInv
<1>1. OneDelivery(j, {})
  BY DEF OneDelivery
<1>2. OneDelivery(j, DeliveredArtifacts(j))
  <2>1. PICK n, i : n = jobs[j].count /\ i = jobs[j].input
    OBVIOUS
  <2>2. \A a \in DeliveredArtifacts(j) :
          /\ attempts[j][n].state = "delivered"
          /\ \E r \in Roles : a = [role |-> r, blob |-> [job |-> j, attempt |-> n, input |-> i]]
    BY <2>1 DEF DeliveredArtifacts
  <2>3. \A a \in DeliveredArtifacts(j) :
          /\ a.blob = [job |-> j, attempt |-> n, input |-> i]
          /\ a = [role |-> a.role, blob |-> [job |-> j, attempt |-> n, input |-> i]]
    BY <2>2
  <2> QED
    BY <2>1, <2>2, <2>3 DEF OneDelivery
<1>3. ASSUME NEW k \in Jobs PROVE OneDelivery(j, ReusedArtifacts(j, k))
  <2>1. CASE jobs[j].source = k /\ jobs[k].state = "succeeded"
    <3>1. jobs[k].input = jobs[j].input
      BY <2>1, ConstantsAssumption DEF ResultInv, SourceOK
    <3>2. OneDelivery(k, artifacts[k])
      BY <2>1 DEF ResultInv, ArtifactsOK
    <3>3. ASSUME NEW a \in artifacts[k]
          PROVE  /\ a.blob.input = jobs[j].input
                 /\ a.blob.job # j /\ jobs[a.blob.job].state \in {"succeeded", "deleted"}
      BY <2>1, <3>1, <3>2 DEF OneDelivery
    <3> QED
      BY <2>1, <3>2, <3>3 DEF OneDelivery, ReusedArtifacts
  <2>2. CASE ~(jobs[j].source = k /\ jobs[k].state = "succeeded")
    BY <1>1, <2>2 DEF ReusedArtifacts
  <2> QED
    BY <2>1, <2>2
<1> QED
  BY <1>1, <1>2, <1>3

\* load_staged_artifacts keeps what it found for the job it finalizes.
LEMMA LoadResult ==
  ASSUME IInv, ResultInv, NEW c \in Cores, LoadStagedArtifacts(c)
  PROVE  ResultInv'
<1> USE DEF IInv
<1>1. PICK j \in Jobs : j = core[c].job
  BY DEF LoadStagedArtifacts, CoreHasJob, Busy
<1>2. UNCHANGED <<jobs, attempts, artifacts>>
  BY DEF LoadStagedArtifacts
<1>3. PICK found :
        /\ core' = [core EXCEPT ![c] = [@ EXCEPT !.pc = "loaded", !.staged = found]]
        /\ found = IF ~HoldsToken(c) THEN {}
                   ELSE IF core[c].source # None THEN ReusedArtifacts(j, core[c].source)
                   ELSE DeliveredArtifacts(j)
  BY <1>1 DEF LoadStagedArtifacts
<1>4. /\ core'[c].pc = "loaded" /\ core'[c].job = j /\ core'[c].staged = found
      /\ core'[c].doomed = core[c].doomed
      /\ \A d \in Cores : d # c => core'[d] = core[d]
  BY <1>1, <1>3, CoreType DEF TypeOK, CoreState
<1>5. jobs[j].state = "finalizing" => OneDelivery(j, found)
  BY <1>3, StagedDelivery, CoreType
<1>6. OneDelivery(j, found) => OneDelivery(j, found)'
  BY <1>2 DEF OneDelivery
<1>7. MemoryOK(core[c])'
  <2>1. MemoryOK(core[c]) /\ core[c].pc \in Busy
    BY DEF ResultInv, LoadStagedArtifacts, Busy
  <2> QED
    BY <1>1, <1>2, <1>4, <1>5, <1>6, <2>1 DEF MemoryOK, Busy
<1> QED
  BY <1>2, <1>4, <1>7, QuietKept, FinalizeResult

\* validate_finalization lets a result pass that has the required roles.
LEMMA ValidateResult ==
  ASSUME IInv, ResultInv, NEW c \in Cores, ValidateFinalization(c)
  PROVE  ResultInv'
<1> USE DEF IInv
<1>1. PICK verdict \in {"publishing", "rejecting"} :
        /\ verdict = "publishing" => Required \subseteq {a.role : a \in core[c].staged}
        /\ core' = [core EXCEPT ![c] = [@ EXCEPT !.pc = verdict]]
  BY DEF ValidateFinalization
<1>2. UNCHANGED <<jobs, attempts, artifacts>>
  BY DEF ValidateFinalization
<1>3. /\ core'[c].pc = verdict /\ core'[c].job = core[c].job /\ core'[c].staged = core[c].staged
      /\ core'[c].doomed = core[c].doomed
      /\ \A d \in Cores : d # c => core'[d] = core[d]
  BY <1>1, CoreType DEF TypeOK, CoreState
<1>4. PICK j, S : j = core[c].job /\ S = core[c].staged
  OBVIOUS
<1>5. OneDelivery(j, S) => OneDelivery(j, S)'
  BY <1>2 DEF OneDelivery
<1>6. MemoryOK(core[c])'
  <2>1. MemoryOK(core[c]) /\ core[c].pc = "loaded"
    BY DEF ResultInv, ValidateFinalization
  <2> QED
    BY <1>1, <1>2, <1>3, <1>4, <1>5, <2>1 DEF MemoryOK, Busy
<1> QED
  BY <1>2, <1>3, <1>6, QuietKept, FinalizeResult

\* A loop that holds no job knows nothing.
LEMMA SettledMemory ==
  ASSUME TypeOK, NEW c \in Cores, core' = Settled(c)
  PROVE  MemoryOK(core[c])' /\ \A d \in Cores : d # c => core'[d] = core[d]
<1>1. /\ core'[c].pc = "maintained" /\ core'[c].doomed = {}
      /\ \A d \in Cores : d # c => core'[d] = core[d]
  BY DEF Settled, IdleCore, TypeOK
<1> QED
  BY <1>1 DEF MemoryOK, Busy

\* Publication: the job had no artifacts, and what was staged becomes them.
LEMMA PublishResult ==
  ASSUME IInv, ResultInv, NEW c \in Cores, NEW t \in Nows, Publish(c, t)
  PROVE  ResultInv'
<1> USE DEF IInv
<1>1. PICK j \in Jobs : j = core[c].job
  BY DEF Publish, CoreHasJob, Busy
<1>2. core' = Settled(c) /\ attempts' = attempts
  BY DEF Publish
<1>3. CASE ~FinalizationLocked(c, t)
  <2>1. UNCHANGED <<jobs, attempts, artifacts>>
    BY <1>3 DEF Publish
  <2> QED
    BY <1>2, <2>1, SettledMemory, QuietKept, FinalizeResult
<1>4. CASE FinalizationLocked(c, t)
  <2>1. /\ jobs' = [jobs EXCEPT ![j] =
                     [@ EXCEPT !.state = "succeeded", !.token = 0, !.finExp = 0]]
        /\ artifacts' = [artifacts EXCEPT ![j] = PublishedArtifacts(c)]
        /\ jobs[j].state = "finalizing"
    BY <1>1, <1>4 DEF Publish, FinalizationLocked, HoldsToken
  <2>2. /\ jobs'[j].state = "succeeded" /\ jobs'[j].input = jobs[j].input
        /\ jobs'[j].count = jobs[j].count /\ jobs'[j].source = jobs[j].source
        /\ \A k \in Jobs : k # j => jobs'[k] = jobs[k]
    BY <2>1 DEF TypeOK, JobRow
  <2>3. \A k \in Jobs : Kept(k)
    BY <1>2, <2>1, <2>2 DEF Kept, Late
  <2>4. PICK S \in SUBSET Artifact : S = core[c].staged
    BY CoreType
  <2>5. OneDelivery(j, S) /\ Required \subseteq {a.role : a \in S}
    <3>1. MemoryOK(core[c]) /\ core[c].pc = "publishing"
      BY DEF ResultInv, Publish
    <3> QED
      BY <1>1, <2>1, <2>4, <3>1 DEF MemoryOK
  <2>6. artifacts[j] = {}
    BY <2>1 DEF ResultInv, ArtifactsOK
  <2>7. artifacts'[j] = S /\ \A k \in Jobs : k # j => artifacts'[k] = artifacts[k]
    <3>1. PublishedArtifacts(c) = S
      BY <1>1, <2>4, <2>6 DEF PublishedArtifacts
    <3> QED
      BY <2>1, <3>1 DEF TypeOK
  <2>8. OneDelivery(j, S)'
    BY <2>1, <2>2, <2>3, <2>5, DeliveryKept DEF Late
  <2>9. ArtifactsOK(j)'
    BY <2>2, <2>5, <2>7, <2>8 DEF ArtifactsOK
  <2> QED
    BY <1>2, <2>2, <2>3, <2>7, <2>9, SettledMemory, FinalizeResult
<1> QED
  BY <1>3, <1>4

\* reject_artifacts publishes nothing.
LEMMA RejectResult ==
  ASSUME IInv, ResultInv, NEW c \in Cores, NEW t \in Nows, Reject(c, t)
  PROVE  ResultInv'
<1> USE DEF IInv
<1>1. PICK j \in Jobs : j = core[c].job
  BY DEF Reject, CoreHasJob, Busy
<1>2. core' = Settled(c) /\ attempts' = attempts /\ artifacts' = artifacts
  BY DEF Reject
<1>3. CASE ~FinalizationLocked(c, t)
  <2>1. jobs' = jobs
    BY <1>3 DEF Reject
  <2> QED
    BY <1>2, <2>1, SettledMemory, QuietKept, FinalizeResult
<1>4. CASE FinalizationLocked(c, t)
  <2>1. /\ jobs' = [jobs EXCEPT ![j] = [@ EXCEPT !.state = "failed", !.token = 0, !.finExp = 0]]
        /\ jobs[j].state = "finalizing"
    BY <1>1, <1>4 DEF Reject, FinalizationLocked, HoldsToken
  <2>2. /\ jobs'[j].state = "failed" /\ jobs'[j].input = jobs[j].input
        /\ jobs'[j].count = jobs[j].count /\ jobs'[j].source = jobs[j].source
        /\ \A k \in Jobs : k # j => jobs'[k] = jobs[k]
    BY <2>1 DEF TypeOK, JobRow
  <2>3. \A k \in Jobs : Kept(k)
    BY <1>2, <2>1, <2>2 DEF Kept, Late
  <2> QED
    BY <1>2, <2>2, <2>3, SettledMemory, FinalizeResult
<1> QED
  BY <1>3, <1>4

\* The loop sleeps, its maintenance fails, or its process restarts.
LEMMA IdleResult ==
  ASSUME IInv, ResultInv, NEW c \in Cores,
         (\E t \in Nows : Rest(c, t)) \/ MaintenanceFails(c) \/ Abandon(c)
  PROVE  ResultInv'
<1> USE DEF IInv
<1>1. UNCHANGED <<jobs, attempts, artifacts>>
  BY DEF Rest, MaintenanceFails, Abandon
<1>2. /\ core'[c].pc \in {"idle", "maintained"} /\ core'[c].doomed \subseteq core[c].doomed
      /\ \A d \in Cores : d # c => core'[d] = core[d]
  <2>1. CASE Abandon(c)
    BY <2>1 DEF Abandon, IdleCore, TypeOK
  <2>2. CASE ~Abandon(c)
    <3>1. PICK pc \in {"idle", "maintained"} : core' = [core EXCEPT ![c] = [@ EXCEPT !.pc = pc]]
      BY <2>2 DEF Rest, MaintenanceFails
    <3> QED
      BY <3>1, CoreType DEF TypeOK, CoreState
  <2> QED
    BY <2>1, <2>2
<1>3. MemoryOK(core[c])'
  <2>1. MemoryOK(core[c])
    BY DEF ResultInv
  <2> QED
    BY <1>1, <1>2, <2>1 DEF MemoryOK, Busy
<1> QED
  BY <1>1, <1>2, <1>3, QuietKept, FinalizeResult

\* Every step keeps the invariant of the result.
LEMMA StepResult == ASSUME IInv, ResultInv, [Next]_vars PROVE ResultInv'
<1>1. ASSUME Tick \/ UNCHANGED vars PROVE ResultInv'
  BY <1>1, QuietResult DEF Tick, vars
<1>2. ASSUME NEW c \in Cores, Maintain(c) \/ MaintenanceFails(c) \/ Abandon(c) PROVE ResultInv'
  BY <1>2, SweepResult, DeleteResult, AcquireResult, LoadResult, ValidateResult, PublishResult,
     RejectResult, IdleResult DEF Maintain
<1> QED
  BY <1>1, <1>2, RequesterResult, WorkerResult DEF Next

\* Nothing is published, staged or reused at the start.
LEMMA InitResult == Init => ResultInv
<1> SUFFICES ASSUME Init PROVE ResultInv
  OBVIOUS
<1>1. \A k \in Jobs : jobs[k].source = None /\ jobs[k].state = "none" /\ artifacts[k] = {}
  BY DEF Init, AbsentJob
<1>2. \A c \in Cores : core[c].pc = "idle" /\ core[c].doomed = {}
  BY DEF Init, IdleCore
<1> QED
  BY <1>1, <1>2 DEF ResultInv, MemoryOK, SourceOK, ArtifactsOK, Busy

\* The invariant of the result holds in every reachable state.
THEOREM ResultInvariance == Spec => []ResultInv
<1>1. IInv /\ ResultInv /\ [Next]_vars => ResultInv'
  BY StepResult
<1> QED
  BY <1>1, InitResult, Invariance, PTL DEF Spec

\* What is visible of a job is one whole result: that of its own last attempt,
\* whose delivery was accepted, or one that was published before for the same
\* input (load_staged_artifacts, publish_staged_artifacts, try_claim).
THEOREM ResultIsWhole == Spec => []ResultIsOneDelivery
<1>1. ResultInv => ResultIsOneDelivery
  <2> SUFFICES ASSUME ResultInv, NEW j \in Jobs
               PROVE  /\ artifacts[j] # {} => jobs[j].state = "succeeded"
                      /\ jobs[j].state = "succeeded" =>
                           /\ Required \subseteq {a.role : a \in artifacts[j]}
                           /\ \A a, b \in artifacts[j] :
                                a.blob = b.blob /\ (a.role = b.role => a = b)
                           /\ \A a \in artifacts[j] :
                                /\ a.blob.input = jobs[j].input
                                /\ a.blob.job = j =>
                                     /\ a.blob.attempt = jobs[j].count
                                     /\ attempts[j][jobs[j].count].state = "delivered"
    BY DEF ResultIsOneDelivery
  <2> QED
    BY DEF ResultInv, ArtifactsOK, OneDelivery
<1> QED
  BY <1>1, ResultInvariance, PTL

-----------------------------------------------------------------------------
(***************************************************************************)
(* The lifecycle that the API promises.                                    *)
(***************************************************************************)

\* A step of the lifecycle, and the moves it is made of, read off the rows.
Lives(k) == Lifecycle!Step(k) \/ Lifecycle!Stay(k)
Moves(k, from, to) ==
  /\ jobs[k].state \in from /\ jobs'[k].state = to
  /\ jobs'[k].cancel = jobs[k].cancel /\ projects'[k] = projects[k]

\* The lifecycle's own move is the same.
LEMMA LifeRead ==
  ASSUME NEW k \in Jobs, NEW from, NEW to
  PROVE  /\ Lifecycle!Move(k, from, to) <=> Moves(k, from, to)
         /\ Lifecycle!Stay(k) <=> Moves(k, {jobs[k].state}, jobs[k].state)
BY DEF Lifecycle!Stay, Lifecycle!Move, Moves

\* What the steps of the lifecycle say of the row of job k.
LEMMA LifeMoves ==
  ASSUME NEW k \in Jobs
  PROVE  /\ Moves(k, {jobs[k].state}, jobs[k].state) => Lives(k)
         /\ Moves(k, {"none"}, "preparing") => Lives(k)
         /\ Moves(k, {"preparing"}, "queued") => Lives(k)
         /\ Moves(k, {"queued"}, "running") => Lives(k)
         /\ ~jobs[k].cancel /\ Moves(k, {"running"}, "queued") => Lives(k)
         /\ ~jobs[k].cancel /\ Moves(k, {"queued", "running"}, "finalizing") => Lives(k)
         /\ ~jobs[k].cancel /\ Moves(k, {"preparing", "running", "finalizing"}, "failed") => Lives(k)
         /\ ~jobs[k].cancel /\ Moves(k, {"preparing", "queued", "running"}, "expired") => Lives(k)
         /\ jobs[k].cancel /\ Moves(k, {"running"}, "cancelled") => Lives(k)
<1>1. [i \in Jobs |-> jobs[i].cancel][k] = jobs[k].cancel
  OBVIOUS
<1> QED
  BY <1>1, LifeRead
     DEF Lives, Lifecycle!Step, Lifecycle!Submit, Lifecycle!Enqueue, Lifecycle!Start,
         Lifecycle!Retry, Lifecycle!Accept, Lifecycle!Fail, Lifecycle!Expire,
         Lifecycle!CloseCancelled

\* The steps that do more than move a job: a publication, a cancellation and a
\* deletion.
Publishes(k) ==
  /\ jobs[k].state = "finalizing" /\ jobs'[k].state = "succeeded"
  /\ jobs'[k].cancel = jobs[k].cancel /\ projects[k] = 0 /\ projects'[k] = 1
Cancels(k) ==
  /\ \/ jobs[k].state \in {"preparing", "queued"} /\ jobs'[k].state = "cancelled"
     \/ jobs[k].state = "running" /\ jobs'[k].state = "running"
  /\ jobs'[k].cancel = TRUE /\ projects'[k] = projects[k]
Deletes(k) ==
  /\ jobs[k].state \in Terminal /\ jobs'[k].state = "deleted"
  /\ jobs'[k].cancel = FALSE /\ projects'[k] = projects[k]

\* They are the lifecycle's.
LEMMA LifeChanges ==
  ASSUME NEW k \in Jobs, Publishes(k) \/ Cancels(k) \/ Deletes(k) PROVE Lives(k)
<1>1. Publishes(k) => Lifecycle!Publish(k)
  BY DEF Publishes, Lifecycle!Publish
<1>2. Cancels(k) => Lifecycle!Cancel(k)
  BY DEF Cancels, Lifecycle!Cancel
<1>3. Deletes(k) => Lifecycle!Delete(k)
  BY DEF Deletes, Lifecycle!Delete
<1> QED
  BY <1>1, <1>2, <1>3 DEF Lives, Lifecycle!Step

\* A step that touches one job.
LEMMA OneLives ==
  ASSUME NEW j \in Jobs, Lives(j),
         \A k \in Jobs : k # j => jobs'[k] = jobs[k] /\ projects'[k] = projects[k]
  PROVE  \A k \in Jobs : Lives(k)
<1>1. ASSUME NEW k \in Jobs, k # j PROVE Moves(k, {jobs[k].state}, jobs[k].state)
  BY <1>1 DEF Moves
<1> QED
  BY <1>1, LifeMoves

\* A step that touches none.
LEMMA NoneLives ==
  ASSUME UNCHANGED <<jobs, projects>> PROVE \A k \in Jobs : Lives(k)
<1>1. ASSUME NEW k \in Jobs PROVE Moves(k, {jobs[k].state}, jobs[k].state)
  BY DEF Moves
<1> QED
  BY <1>1, LifeMoves

\* The requester's calls follow the lifecycle.
LEMMA RequesterLives == ASSUME IInv, Requester PROVE \A k \in Jobs : Lives(k)
<1> USE DEF IInv
<1>1. ASSUME NEW j \in Jobs, NEW t \in Nows, SubmitJob(j, t) PROVE \A k \in Jobs : Lives(k)
  <2>1. jobs[j].cancel = FALSE
    BY <1>1, RowType DEF SubmitJob, JobInv, JobOK
  <2>2. Moves(j, {"none"}, "preparing") /\ \A k \in Jobs : k # j => jobs'[k] = jobs[k]
    BY <1>1, <2>1 DEF SubmitJob, Moves, AbsentJob, TypeOK
  <2> QED
    BY <1>1, <2>2, LifeMoves, OneLives DEF SubmitJob
<1>2. ASSUME NEW j \in Jobs, NEW i \in Inputs, StorePreparedInput(j, i)
      PROVE  \A k \in Jobs : Lives(k)
  <2>1. Moves(j, {"preparing"}, "queued") /\ \A k \in Jobs : k # j => jobs'[k] = jobs[k]
    BY <1>2 DEF StorePreparedInput, Moves, TypeOK, JobRow
  <2> QED
    BY <1>2, <2>1, LifeMoves, OneLives DEF StorePreparedInput
<1>3. ASSUME NEW j \in Jobs, FailPreparation(j) PROVE \A k \in Jobs : Lives(k)
  <2>1. /\ Moves(j, {"preparing", "running", "finalizing"}, "failed")
        /\ \A k \in Jobs : k # j => jobs'[k] = jobs[k]
    BY <1>3 DEF FailPreparation, Moves, TypeOK, JobRow
  <2>2. ~jobs[j].cancel
    BY <1>3 DEF FailPreparation, JobInv, JobOK
  <2> QED
    BY <1>3, <2>1, <2>2, LifeMoves, OneLives DEF FailPreparation
<1>4. ASSUME NEW j \in Jobs, CancelJob(j) PROVE \A k \in Jobs : Lives(k)
  <2>1. Cancels(j) /\ \A k \in Jobs : k # j => jobs'[k] = jobs[k]
    <3>1. CASE /\ jobs[j].state \in {"preparing", "queued"}
               /\ jobs' = [jobs EXCEPT ![j] =
                             [@ EXCEPT !.state = "cancelled", !.cancel = TRUE]]
      BY <1>4, <3>1 DEF CancelJob, Cancels, TypeOK, JobRow
    <3>2. CASE /\ jobs[j].state = "running"
               /\ jobs' = [jobs EXCEPT ![j] = [@ EXCEPT !.cancel = TRUE]]
      BY <1>4, <3>2 DEF CancelJob, Cancels, TypeOK, JobRow
    <3> QED
      BY <1>4, <3>1, <3>2 DEF CancelJob
  <2> QED
    BY <1>4, <2>1, LifeChanges, OneLives DEF CancelJob
<1> QED
  BY <1>1, <1>2, <1>3, <1>4 DEF Requester

\* So do the workers'.
LEMMA WorkerLives == ASSUME IInv, Worker PROVE \A k \in Jobs : Lives(k)
<1> USE DEF IInv
<1>1. ASSUME NEW j \in Jobs, NEW t \in Nows, ClaimJob(j, t) PROVE \A k \in Jobs : Lives(k)
  <2>1. Moves(j, {"queued"}, "running") /\ \A k \in Jobs : k # j => jobs'[k] = jobs[k]
    BY <1>1 DEF ClaimJob, Claimable, Moves, TypeOK, JobRow
  <2> QED
    BY <1>1, <2>1, LifeMoves, OneLives DEF ClaimJob
<1>2. ASSUME NEW j \in Jobs, NEW m \in Jobs, NEW t \in Nows, ReuseResult(j, m, t)
      PROVE  \A k \in Jobs : Lives(k)
  <2>1. /\ Moves(j, {"queued", "running"}, "finalizing") /\ ~jobs[j].cancel
        /\ \A k \in Jobs : k # j => jobs'[k] = jobs[k]
    BY <1>2 DEF ReuseResult, Claimable, Moves, TypeOK, JobRow
  <2> QED
    BY <1>2, <2>1, LifeMoves, OneLives DEF ReuseResult
<1>3. ASSUME NEW j \in Jobs, NEW n \in AttemptNumbers, NEW t \in Nows,
             HeartbeatClaim(j, n, t)
      PROVE  \A k \in Jobs : Lives(k)
  <2>1. PICK lease : jobs' = [jobs EXCEPT ![j] = [@ EXCEPT !.claimExp = lease]]
    BY <1>3 DEF HeartbeatClaim
  <2>2. /\ Moves(j, {jobs[j].state}, jobs[j].state)
        /\ \A k \in Jobs : k # j => jobs'[k] = jobs[k]
    BY <1>3, <2>1 DEF HeartbeatClaim, Moves, TypeOK, JobRow
  <2> QED
    BY <1>3, <2>2, LifeMoves, OneLives DEF HeartbeatClaim
<1>4. ASSUME NEW j \in Jobs, NEW n \in AttemptNumbers, NEW t \in Nows,
             CompleteClaim(j, n, t)
      PROVE  \A k \in Jobs : Lives(k)
  <2>1. /\ Moves(j, {"queued", "running"}, "finalizing") /\ ~jobs[j].cancel
        /\ \A k \in Jobs : k # j => jobs'[k] = jobs[k]
    BY <1>4 DEF CompleteClaim, HoldsClaim, Moves, TypeOK, JobRow
  <2> QED
    BY <1>4, <2>1, LifeMoves, OneLives DEF CompleteClaim
<1>5. ASSUME NEW j \in Jobs, NEW n \in AttemptNumbers, NEW t \in Nows, NEW st,
             NEW retryable \in BOOLEAN, CloseAttempt(j, n, st, retryable, t), UNCHANGED projects
      PROVE  \A k \in Jobs : Lives(k)
  <2>1. /\ \/ jobs[j].cancel /\ Moves(j, {"running"}, "cancelled")
           \/ ~jobs[j].cancel /\ Moves(j, {"running"}, "queued")
           \/ ~jobs[j].cancel /\ Moves(j, {"preparing", "running", "finalizing"}, "failed")
        /\ \A k \in Jobs : k # j => jobs'[k] = jobs[k]
    BY <1>5, RowType DEF CloseAttempt, HoldsClaim, Moves, TypeOK, JobRow
  <2> QED
    BY <1>5, <2>1, LifeMoves, OneLives
<1>6. ASSUME NEW j \in Jobs, NEW n \in AttemptNumbers, NEW t \in Nows,
             NEW retryable \in BOOLEAN, FailClaim(j, n, retryable, t) \/ ReleaseClaim(j, n, t)
      PROVE  \A k \in Jobs : Lives(k)
  BY <1>5, <1>6 DEF FailClaim, ReleaseClaim
<1>7. ASSUME NEW j \in Jobs, NEW n \in AttemptNumbers, NEW t \in Nows, NEW r \in Roles,
             CreateArtifactTransfer(j, n, r, t) \/ BeginUpload(j, n, r, t)
      PROVE  \A k \in Jobs : Lives(k)
  BY <1>7, NoneLives DEF CreateArtifactTransfer, BeginUpload
<1>8. ASSUME NEW j \in Jobs, NEW n \in AttemptNumbers, NEW r \in Roles, StoreUpload(j, n, r)
      PROVE  \A k \in Jobs : Lives(k)
  BY <1>8, NoneLives DEF StoreUpload
<1> QED
  BY <1>1, <1>2, <1>3, <1>4, <1>6, <1>7, <1>8 DEF Worker

\* A pass of maintenance: lapsed claims and queue entries, and retention, which
\* deletes only what is settled, however long its statement waited.
LEMMA MaintenanceLives ==
  ASSUME IInv, ResultInv, NEW c \in Cores,
         (\E t \in Nows : Sweep(c, t)) \/ DeleteRetained(c)
  PROVE  \A k \in Jobs : Lives(k)
<1> USE DEF IInv
<1>1. ASSUME NEW t \in Nows, Sweep(c, t), NEW k \in Jobs PROVE Lives(k)
  <2>1. jobs'[k] = SweptJob(k, t) /\ projects' = projects
    BY <1>1 DEF Sweep
  <2>2. CASE ClaimLapsed(k, t)
    <3>1. PICK at : at = IF Recovered(jobs[k], t) = "queued" THEN t + RetryDelay(jobs[k].count)
                         ELSE jobs[k].nextAt
      OBVIOUS
    <3>2. jobs'[k] = [jobs[k] EXCEPT !.state = Recovered(jobs[k], t), !.claim = 0,
                                     !.claimExp = 0, !.nextAt = at]
      BY <2>1, <2>2, <3>1 DEF SweptJob
    <3>3. Moves(k, {"running"}, Recovered(jobs[k], t))
      BY <2>1, <2>2, <3>2, RowType DEF Moves, ClaimLapsed, JobRow
    <3>4. \/ jobs[k].cancel /\ Recovered(jobs[k], t) = "cancelled"
          \/ ~jobs[k].cancel /\ Recovered(jobs[k], t) \in {"queued", "expired", "failed"}
      BY DEF Recovered
    <3> QED
      BY <3>3, <3>4, LifeMoves DEF Moves
  <2>3. CASE ~ClaimLapsed(k, t) /\ jobs[k].state \in {"preparing", "queued"} /\ jobs[k].queueExp <= t
    <3>1. Moves(k, {"preparing", "queued", "running"}, "expired") /\ ~jobs[k].cancel
      BY <2>1, <2>3, RowType DEF SweptJob, Moves, JobRow, JobInv, JobOK
    <3> QED
      BY <3>1, LifeMoves
  <2>4. CASE ~ClaimLapsed(k, t) /\ ~(jobs[k].state \in {"preparing", "queued"} /\ jobs[k].queueExp <= t)
    <3>1. Moves(k, {jobs[k].state}, jobs[k].state)
      BY <2>1, <2>4 DEF SweptJob, Moves
    <3> QED
      BY <3>1, LifeMoves
  <2> QED
    BY <2>2, <2>3, <2>4
<1>2. ASSUME DeleteRetained(c), NEW k \in Jobs PROVE Lives(k)
  <2>1. projects' = projects
    BY <1>2 DEF DeleteRetained
  <2>2. CASE k \in core[c].doomed
    <3>1. jobs'[k].state = "deleted" /\ jobs'[k].cancel = FALSE
      BY <1>2, <2>2 DEF DeleteRetained, AbsentJob
    <3>2. jobs[k].state \in Terminal \cup {"deleted"}
      BY <2>2 DEF ResultInv, MemoryOK
    <3>3. jobs[k].state = "deleted" => jobs[k].cancel = FALSE
      BY RowType DEF JobInv, JobOK
    <3>4. Deletes(k) \/ Moves(k, {jobs[k].state}, jobs[k].state)
      BY <2>1, <3>1, <3>2, <3>3 DEF Deletes, Moves
    <3> QED
      BY <3>4, LifeMoves, LifeChanges
  <2>3. CASE k \notin core[c].doomed
    <3>1. Moves(k, {jobs[k].state}, jobs[k].state)
      BY <1>2, <2>1, <2>3, RowType DEF DeleteRetained, Moves, JobRow
    <3> QED
      BY <3>1, LifeMoves
  <2> QED
    BY <2>2, <2>3
<1> QED
  BY <1>1, <1>2

\* Finalization: the result appears with the state succeeded, in one step.
LEMMA FinalizationLives ==
  ASSUME IInv, NEW c \in Cores, NEW t \in Nows, Publish(c, t) \/ Reject(c, t)
  PROVE  \A k \in Jobs : Lives(k)
<1> USE DEF IInv
<1>1. PICK j \in Jobs : j = core[c].job
  BY DEF Publish, Reject, CoreHasJob, Busy
<1>2. CASE ~FinalizationLocked(c, t)
  BY <1>2, NoneLives DEF Publish, Reject
<1>3. CASE FinalizationLocked(c, t)
  <2>1. jobs[j].state = "finalizing" /\ projects[j] = 0 /\ ~jobs[j].cancel
    BY <1>1, <1>3 DEF FinalizationLocked, HoldsToken, JobInv, JobOK
  <2>2. CASE Publish(c, t)
    <3>1. /\ jobs' = [jobs EXCEPT ![j] =
                       [@ EXCEPT !.state = "succeeded", !.token = 0, !.finExp = 0]]
          /\ projects' = [projects EXCEPT ![j] = @ + 1]
      BY <1>1, <1>3, <2>2 DEF Publish
    <3>2. Publishes(j)
      BY <2>1, <3>1 DEF Publishes, TypeOK, JobRow
    <3>3. \A k \in Jobs : k # j => jobs'[k] = jobs[k] /\ projects'[k] = projects[k]
      BY <3>1 DEF TypeOK
    <3> QED
      BY <3>2, <3>3, LifeChanges, OneLives
  <2>3. CASE Reject(c, t)
    <3>1. /\ jobs' = [jobs EXCEPT ![j] = [@ EXCEPT !.state = "failed", !.token = 0, !.finExp = 0]]
          /\ projects' = projects
      BY <1>1, <1>3, <2>3 DEF Reject
    <3>2. /\ Moves(j, {"preparing", "running", "finalizing"}, "failed")
          /\ \A k \in Jobs : k # j => jobs'[k] = jobs[k]
      BY <2>1, <3>1 DEF Moves, TypeOK, JobRow
    <3> QED
      BY <2>1, <3>1, <3>2, LifeMoves, OneLives
  <2> QED
    BY <2>2, <2>3
<1> QED
  BY <1>2, <1>3

\* Every step follows the lifecycle.
LEMMA StepLives == ASSUME IInv, ResultInv, [Next]_vars PROVE \A k \in Jobs : Lives(k)
<1>1. ASSUME Tick \/ UNCHANGED vars PROVE \A k \in Jobs : Lives(k)
  BY <1>1, NoneLives DEF Tick, vars
<1>2. ASSUME NEW c \in Cores, NEW j \in Jobs, NEW t \in Nows, AcquireFinalizationLease(c, j, t)
      PROVE  \A k \in Jobs : Lives(k)
  <2>1. /\ Moves(j, {jobs[j].state}, jobs[j].state)
        /\ \A k \in Jobs : k # j => jobs'[k] = jobs[k]
    BY <1>2 DEF AcquireFinalizationLease, Moves, IInv, TypeOK, JobRow
  <2> QED
    BY <1>2, <2>1, LifeMoves, OneLives DEF AcquireFinalizationLease
<1>3. ASSUME NEW c \in Cores, NEW t \in Nows,
             \/ Rest(c, t) \/ LoadStagedArtifacts(c) \/ ValidateFinalization(c)
             \/ MaintenanceFails(c) \/ Abandon(c)
      PROVE  \A k \in Jobs : Lives(k)
  BY <1>3, NoneLives
     DEF Rest, LoadStagedArtifacts, ValidateFinalization, MaintenanceFails, Abandon
<1>4. \E t : t \in Nows
  <2>1. clock \in Nows
    BY ConstantsAssumption DEF Nows, IInv, TypeOK
  <2> QED
    BY <2>1
<1>5. ASSUME NEW c \in Cores, Maintain(c) \/ MaintenanceFails(c) \/ Abandon(c)
      PROVE  \A k \in Jobs : Lives(k)
  BY <1>2, <1>3, <1>4, <1>5, MaintenanceLives, FinalizationLives DEF Maintain
<1> QED
  BY <1>1, <1>5, RequesterLives, WorkerLives DEF Next

\* The handlers and the maintenance loops implement the lifecycle that the API
\* promises: every step moves each job as ProcessingJobState allows or not at
\* all, an accepted cancellation is never followed by a delivery or a requeue,
\* and the one result appears in the step that makes the job succeeded.
THEOREM ImplementsLifecycle == Spec => FollowsLifecycle
<1>1. Init => Lifecycle!Init
  BY DEF Init, Lifecycle!Init, AbsentJob
<1>2. IInv /\ ResultInv /\ [Next]_vars => [Lifecycle!Next]_(Lifecycle!vars)
  BY StepLives DEF Lives, Lifecycle!Next
<1> QED
  BY <1>1, <1>2, Invariance, ResultInvariance, PTL DEF Spec, FollowsLifecycle, Lifecycle!Spec

\* A settled job never leaves its state but by retention, never comes back after
\* that, and the artifacts a client can download stay the same as long as it exists.
ResultIsFinal ==
  [][\A j \in Jobs :
       /\ jobs[j].state \in Terminal => jobs'[j].state \in {jobs[j].state, "deleted"}
       /\ jobs[j].state = "deleted" => jobs'[j].state = "deleted"
       /\ jobs[j].state \in Terminal /\ jobs'[j].state # "deleted" =>
            artifacts'[j] = artifacts[j]]_vars

\* Only a publication and retention touch artifacts: what publish_artifacts adds
\* belongs to a job whose finalization token it still holds.
LEMMA ArtifactsChange ==
  ASSUME IInv, Next, NEW j \in Jobs, artifacts'[j] # artifacts[j]
  PROVE  jobs[j].state = "finalizing" \/ jobs'[j].state = "deleted"
<1>0. artifacts = [k \in Jobs |-> artifacts[k]] /\ TypeOK /\ CoreHasJob
  BY DEF IInv, TypeOK
<1>1. PICK c \in Cores : DeleteRetained(c) \/ \E t \in Nows : Publish(c, t)
  <2>1. ASSUME Tick \/ Requester PROVE artifacts' = artifacts
    BY <2>1, Zenon DEF Tick, Requester, SubmitJob, StorePreparedInput, FailPreparation, CancelJob
  <2>2. ASSUME NEW k \in Jobs, NEW t \in Nows,
               ClaimJob(k, t) \/ \E i \in Jobs : ReuseResult(k, i, t)
        PROVE  artifacts' = artifacts
    BY <2>2, Zenon DEF ClaimJob, ReuseResult
  <2>3. ASSUME NEW k \in Jobs, NEW n \in AttemptNumbers, NEW r \in Roles, NEW t \in Nows,
               CreateArtifactTransfer(k, n, r, t) \/ BeginUpload(k, n, r, t)
        PROVE  artifacts' = artifacts
    BY <2>3, Zenon DEF CreateArtifactTransfer, BeginUpload
  <2>4. ASSUME NEW k \in Jobs, NEW n \in AttemptNumbers, NEW t \in Nows,
               \/ HeartbeatClaim(k, n, t) \/ CompleteClaim(k, n, t) \/ ReleaseClaim(k, n, t)
               \/ \E retryable \in BOOLEAN : FailClaim(k, n, retryable, t)
        PROVE  artifacts' = artifacts
    BY <2>4, Zenon DEF HeartbeatClaim, CompleteClaim, FailClaim, ReleaseClaim, CloseAttempt
  <2>5. ASSUME NEW k \in Jobs, NEW n \in AttemptNumbers, NEW r \in Roles, StoreUpload(k, n, r)
        PROVE  artifacts' = artifacts
    BY <2>5, Zenon DEF StoreUpload
  <2>6. ASSUME Worker PROVE artifacts' = artifacts
    BY <2>2, <2>3, <2>4, <2>5, <2>6, Zenon DEF Worker
  <2>7. ASSUME NEW c \in Cores, MaintenanceFails(c) \/ Abandon(c) PROVE artifacts' = artifacts
    BY <2>7, Zenon DEF MaintenanceFails, Abandon
  <2>8. ASSUME NEW c \in Cores, NEW t \in Nows, Sweep(c, t) \/ Rest(c, t) \/ Reject(c, t)
        PROVE  artifacts' = artifacts
    BY <2>8, Zenon DEF Sweep, Rest, Reject
  <2>9. ASSUME NEW c \in Cores,
               \/ LoadStagedArtifacts(c) \/ ValidateFinalization(c)
               \/ \E k \in Jobs, t \in Nows : AcquireFinalizationLease(c, k, t)
        PROVE  artifacts' = artifacts
    BY <2>9, Zenon DEF LoadStagedArtifacts, ValidateFinalization, AcquireFinalizationLease
  <2>10. artifacts' # artifacts
    OBVIOUS
  <2> QED
    BY <2>1, <2>6, <2>7, <2>8, <2>9, <2>10, Zenon DEF Next, Maintain
<1>2. CASE DeleteRetained(c)
  BY <1>0, <1>2 DEF DeleteRetained, AbsentJob
<1>3. CASE \E t \in Nows : Publish(c, t)
  <2>1. PICK t \in Nows : Publish(c, t)
    BY <1>3
  <2>2. core[c].job = j /\ FinalizationLocked(c, t)
    BY <1>0, <2>1 DEF Publish
  <2> QED
    BY <2>2 DEF FinalizationLocked, HoldsToken
<1> QED
  BY <1>1, <1>2, <1>3

\* However late a finalizer, a worker or a sweep is, it does not change a settled
\* job or its result (lock_finalization, on conflict do nothing).
THEOREM ResultsStay == Spec => ResultIsFinal
<1>1. ASSUME IInv, ResultInv, Next, NEW j \in Jobs
      PROVE  /\ jobs[j].state \in Terminal => jobs'[j].state \in {jobs[j].state, "deleted"}
             /\ jobs[j].state = "deleted" => jobs'[j].state = "deleted"
             /\ jobs[j].state \in Terminal /\ jobs'[j].state # "deleted" =>
                  artifacts'[j] = artifacts[j]
  <2>1. Lives(j)
    BY <1>1, StepLives
  <2>2. /\ jobs[j].state \in Terminal => jobs'[j].state \in {jobs[j].state, "deleted"}
        /\ jobs[j].state = "deleted" => jobs'[j].state = "deleted"
    BY <2>1 DEF Lives, Terminal, Lifecycle!Step, Lifecycle!Stay, Lifecycle!Move,
       Lifecycle!Submit, Lifecycle!Enqueue, Lifecycle!Start, Lifecycle!Retry, Lifecycle!Accept,
       Lifecycle!Publish, Lifecycle!Fail, Lifecycle!Expire, Lifecycle!Cancel,
       Lifecycle!CloseCancelled, Lifecycle!Delete
  <2> QED
    BY <1>1, <2>2, ArtifactsChange DEF Terminal
<1>2. IInv /\ ResultInv /\ [Next]_vars =>
        [\A j \in Jobs :
           /\ jobs[j].state \in Terminal => jobs'[j].state \in {jobs[j].state, "deleted"}
           /\ jobs[j].state = "deleted" => jobs'[j].state = "deleted"
           /\ jobs[j].state \in Terminal /\ jobs'[j].state # "deleted" =>
                artifacts'[j] = artifacts[j]]_vars
  BY <1>1
<1> QED
  BY <1>2, Invariance, ResultInvariance, PTL DEF Spec, ResultIsFinal
=============================================================================
