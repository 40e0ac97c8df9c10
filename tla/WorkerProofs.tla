---------------------------- MODULE WorkerProofs ----------------------------
(***************************************************************************)
(* Theorems about the three models of the worker side: WorkerAgent, one    *)
(* claim in the SDK; WorkerRequests, the replay records; WorkerSessions,   *)
(* the slots of a session.  They share Core's clock (WorkerCommon).        *)
(***************************************************************************)
EXTENDS WorkerAgent, WorkerRequests, WorkerSessions, FiniteSetTheorems, TLAPS

-----------------------------------------------------------------------------
(***************************************************************************)
(* WorkerAgent: what the lease guard guarantees for every lease, margin,   *)
(* timeout and clock skew.  The sandbox outlives the confirmed lease, and  *)
(* runs beside another worker of the same job, only by as much as the      *)
(* answer of Core was late, or the worker's clock behind, beyond the       *)
(* margin.                                                                 *)
(***************************************************************************)
\* The timer fires a head start before the lease it stands for, counted from the
\* arrival of the answer, and has not fired unless the guard ended; a guard that
\* ended told the task, or was stopped by it.
GuardInv ==
  /\ guard.pc # "ended" =>
       clock <= guard.stopAt /\ guard.stopAt <= guard.confirmed + guard.late - HeadStart
  /\ guard.pc = "ended" => cancelled \/ task = "done"
  /\ task = "processing" => clock <= guard.confirmed + guard.late - HeadStart

\* A lease that was reported is one that Core still grants, unless the job is
\* cancelled; a job is granted again only after its claim closed or lapsed.
LeaseInv ==
  /\ wire.kind = "active" => wire.lease = wire.at + Lease /\ wire.at <= clock
  /\ claim.lease <= clock + Lease
  /\ ~claim.cancel => guard.confirmed <= claim.lease
  /\ ~claim.cancel /\ wire.kind = "active" => wire.lease <= claim.lease
  /\ claim.state = "lost" => claim.lease <= clock
  /\ claim.state \in {"failed", "released"} => task = "done"
  /\ claim.again => ~claim.cancel /\ claim.state \in {"failed", "released", "lost"}

AgentIInv == AgentTypeOK /\ GuardInv /\ LeaseInv

-----------------------------------------------------------------------------
\* Duration arithmetic stays in the naturals.
LEMMA RemainingType ==
  ASSUME NEW a \in Int, NEW b \in Int
  PROVE  /\ a >= 0 /\ b >= 0 => Remaining(a, b) \in Nat
         /\ a > b => Remaining(a, b) = a - b
         /\ a <= b => Remaining(a, b) = 0
  BY DEF Remaining

\* A guard starts with a timer that is late by no more than the answer or the
\* worker's clock.
LEMMA AgentInitInv ==
  ASSUME AgentInit
  PROVE  AgentIInv
<1> USE AgentAssumption
<1>1. PICK skew \in Skews :
        guard = [pc |-> "waiting",
                 stopAt |-> clock + Remaining(Remaining(Lease, clock + skew), Margin),
                 confirmed |-> Lease,
                 late |-> IF clock < -skew THEN -skew ELSE clock]
  BY DEF AgentInit
<1>2. clock \in Nat /\ skew \in Int
  BY DEF AgentInit
<1>3. guard.late \in Int /\ clock <= guard.late /\ -skew <= guard.late
  BY <1>1, <1>2
<1>4. /\ Remaining(Remaining(Lease, clock + skew), Margin) \in Nat
      /\ clock + Remaining(Remaining(Lease, clock + skew), Margin) <= Lease + guard.late - HeadStart
  BY <1>2, <1>3 DEF Remaining, HeadStart
<1>5. AgentTypeOK
  <2>1. guard \in Guard
    BY <1>1, <1>2, <1>3, <1>4 DEF Guard
  <2>2. claim \in Claim /\ wire \in Wire
    BY DEF AgentInit, Claim, ClaimStates, Wire, Silent, Answers
  <2>3. left \in 0..Artifacts
    BY DEF AgentInit
  <2>4. cancelled \in BOOLEAN /\ task \in Tasks
    BY DEF AgentInit, Tasks
  <2> QED
    BY <1>2, <2>1, <2>2, <2>3, <2>4 DEF AgentTypeOK
<1>6. GuardInv
  BY <1>1, <1>2, <1>4 DEF AgentInit, GuardInv
<1>7. LeaseInv
  BY <1>1, <1>2 DEF AgentInit, LeaseInv, Silent
<1> QED
  BY <1>5, <1>6, <1>7 DEF AgentIInv

\* Every action keeps the types.
LEMMA AgentTypeStep ==
  ASSUME AgentTypeOK, AgentNext
  PROVE  AgentTypeOK'
<1> USE AgentAssumption
<1>0. /\ clock \in Nat /\ claim \in Claim /\ guard \in Guard /\ wire \in Wire
      /\ cancelled \in BOOLEAN /\ task \in Tasks /\ left \in 0..Artifacts
  BY DEF AgentTypeOK
<1>1. clock' \in Nat
  BY <1>0 DEF AgentNext, AgentTick, Ticks, GuardStep, GuardExpires, HeartbeatSend, HeartbeatAnswered,
     HeartbeatFails, GuardStops, CoreStep, CoreHeartbeat, RequestCancellation, CoreSweep,
     CoreGrantsAgain, TaskStep, Downloaded, Processed, UploadNext, CompleteClaim,
     ReportFailure, ReleaseCancelled, CloseWith
<1>2. claim' \in Claim
  <2>1. CASE CoreHeartbeat
    <3>1. claim' = claim \/ \E l \in Nat : claim' = [claim EXCEPT !.lease = l]
      BY <1>0, <2>1 DEF CoreHeartbeat, Claim
    <3> QED
      BY <1>0, <3>1 DEF Claim
  <2>2. CASE \E st \in ClaimStates : claim' = [claim EXCEPT !.state = st]
    BY <1>0, <2>2 DEF Claim
  <2>3. CASE RequestCancellation \/ CoreGrantsAgain
    BY <1>0, <2>3 DEF RequestCancellation, CoreGrantsAgain, Claim
  <2>4. CASE UNCHANGED claim
    BY <1>0, <2>4
  <2> QED
    BY <2>1, <2>2, <2>3, <2>4 DEF AgentNext, AgentTick, Ticks, GuardStep, GuardExpires, HeartbeatSend,
       HeartbeatAnswered, HeartbeatFails, GuardStops, CoreStep, CoreSweep, TaskStep,
       Downloaded, Processed, UploadNext, CompleteClaim, ReportFailure,
       ReleaseCancelled, CloseWith, ClaimStates
<1>3. guard' \in Guard
  <2>1. CASE \E p \in {"waiting", "asking", "ended"} : guard' = [guard EXCEPT !.pc = p]
    BY <1>0, <2>1 DEF Guard
  <2>2. CASE HeartbeatAnswered /\ wire.kind = "active"
    <3>1. wire.lease \in Nat /\ wire.at \in Nat
      BY <1>0 DEF Wire
    <3>2. clock + Remaining(wire.lease - wire.at, Margin) \in Nat
      BY <1>0, <3>1 DEF Remaining
    <3> QED
      BY <1>0, <2>2, <3>1, <3>2 DEF HeartbeatAnswered, Guard
  <2>3. CASE UNCHANGED guard
    BY <1>0, <2>3
  <2> QED
    BY <2>1, <2>2, <2>3 DEF AgentNext, AgentTick, Ticks, GuardStep, GuardExpires, HeartbeatSend,
       HeartbeatAnswered, HeartbeatFails, GuardStops, CoreStep, CoreHeartbeat,
       RequestCancellation, CoreSweep, CoreGrantsAgain, TaskStep, Downloaded,
       Processed, UploadNext, CompleteClaim, ReportFailure, ReleaseCancelled, CloseWith
<1>4. wire' \in Wire
  <2>1. CASE HeartbeatSend
    BY <1>0, <2>1 DEF HeartbeatSend, Wire
  <2>2. CASE CoreHeartbeat
    <3>1. claim.lease \in Nat
      BY <1>0 DEF Claim
    <3>2. \E k \in Answers, l \in Nat : wire' = [kind |-> k, at |-> clock, lease |-> l]
      BY <1>0, <2>2, <3>1 DEF CoreHeartbeat, Answers
    <3> QED
      BY <1>0, <3>2 DEF Wire
  <2>3. CASE wire' = wire \/ wire' = Silent
    BY <1>0, <2>3 DEF Wire, Silent
  <2> QED
    BY <2>1, <2>2, <2>3 DEF AgentNext, AgentTick, Ticks, GuardStep, GuardExpires, HeartbeatAnswered,
       HeartbeatFails, GuardStops, CoreStep, RequestCancellation, CoreSweep,
       CoreGrantsAgain, TaskStep, Downloaded, Processed, UploadNext, CompleteClaim,
       ReportFailure, ReleaseCancelled, CloseWith
<1>5. cancelled' \in BOOLEAN /\ task' \in Tasks
  BY <1>0 DEF AgentNext, AgentTick, Ticks, GuardStep, GuardExpires, HeartbeatSend, HeartbeatAnswered,
     HeartbeatFails, GuardStops, CoreStep, CoreHeartbeat, RequestCancellation, CoreSweep,
     CoreGrantsAgain, TaskStep, Downloaded, Processed, UploadNext, CompleteClaim,
     ReportFailure, ReleaseCancelled, CloseWith, Tasks, Checked
<1>6. left' \in 0..Artifacts
  BY <1>0 DEF AgentNext, AgentTick, Ticks, GuardStep, GuardExpires, HeartbeatSend, HeartbeatAnswered,
     HeartbeatFails, GuardStops, CoreStep, CoreHeartbeat, RequestCancellation, CoreSweep,
     CoreGrantsAgain, TaskStep, Downloaded, Processed, UploadNext, CompleteClaim,
     ReportFailure, ReleaseCancelled, CloseWith
<1> QED
  BY <1>1, <1>2, <1>3, <1>4, <1>5, <1>6 DEF AgentTypeOK

\* The types of the fields, for the steps below.
LEMMA AgentFields ==
  ASSUME AgentTypeOK
  PROVE  /\ clock \in Nat
         /\ claim.lease \in Nat /\ claim.state \in ClaimStates
         /\ guard.stopAt \in Nat /\ guard.confirmed \in Nat /\ guard.late \in Int
         /\ guard.pc \in {"waiting", "asking", "ended"}
         /\ wire.at \in Nat /\ wire.lease \in Nat
         /\ wire.kind \in {"none", "request"} \cup Answers
  BY DEF AgentTypeOK, Claim, Guard, Wire

\* The guard: only its timer and its task end it, and a renewed timer fires a
\* head start before the renewed lease, but for the time the answer took.
LEMMA GuardStepInv ==
  ASSUME AgentIInv, AgentTypeOK', GuardStep
  PROVE  GuardInv' /\ LeaseInv'
<1> USE AgentAssumption
<1>0. AgentTypeOK /\ GuardInv /\ LeaseInv
  BY DEF AgentIInv
<1>1. CASE GuardExpires \/ GuardStops \/ HeartbeatSend
  <2>1. /\ UNCHANGED <<clock, claim, task>>
        /\ guard'.stopAt = guard.stopAt /\ guard'.confirmed = guard.confirmed
        /\ guard'.late = guard.late
        /\ cancelled => cancelled'
    BY <1>0, <1>1 DEF GuardExpires, GuardStops, HeartbeatSend, AgentTypeOK, Guard
  <2>2. \/ guard'.pc = "ended" /\ (cancelled' \/ task' = "done") /\ UNCHANGED wire
        \/ guard.pc = "waiting" /\ guard'.pc = "asking" /\ wire'.kind = "request"
    BY <1>0, <1>1 DEF GuardExpires, GuardStops, HeartbeatSend, AgentTypeOK, Guard
  <2> QED
    BY <1>0, <2>1, <2>2, AgentFields DEF GuardInv, LeaseInv
<1>2. CASE HeartbeatAnswered
  <2>1. CASE wire.kind = "active"
    <3>1. /\ guard'.stopAt = clock + Remaining(wire.lease - wire.at, Margin)
          /\ guard'.confirmed = wire.lease /\ guard'.pc = "waiting"
          /\ guard'.late = clock - wire.at /\ wire'.kind = "none"
          /\ UNCHANGED <<clock, claim, task, cancelled>>
      BY <1>2, <2>1 DEF HeartbeatAnswered, Silent
    <3>2. wire.lease = wire.at + Lease /\ wire.at <= clock
      BY <1>0, <2>1 DEF LeaseInv
    <3>3. /\ Remaining(wire.lease - wire.at, Margin) \in Nat
          /\ Remaining(wire.lease - wire.at, Margin) = Lease - HeadStart
      BY <3>2, AgentFields, <1>0 DEF Remaining, HeadStart
    <3>4. /\ clock <= guard'.stopAt
          /\ guard'.stopAt <= guard'.confirmed + guard'.late - HeadStart
      BY <3>1, <3>2, <3>3, AgentFields, <1>0 DEF HeadStart
    <3>5. ~claim.cancel => guard'.confirmed <= claim.lease
      BY <1>0, <2>1, <3>1 DEF LeaseInv
    <3>6. clock <= guard'.confirmed + guard'.late - HeadStart
      BY <3>1, <3>2, <3>3, AgentFields, <1>0 DEF HeadStart
    <3>7. GuardInv'
      BY <3>1, <3>4, <3>6 DEF GuardInv
    <3>8. LeaseInv'
      BY <1>0, <3>1, <3>5 DEF LeaseInv
    <3> QED
      BY <3>7, <3>8
  <2>2. CASE wire.kind # "active"
    <3>1. /\ guard'.pc = "ended" /\ guard'.confirmed = guard.confirmed /\ cancelled'
          /\ guard'.late = guard.late
          /\ wire'.kind = "none" /\ UNCHANGED <<clock, claim, task>>
      BY <1>0, <1>2, <2>2 DEF HeartbeatAnswered, Silent, AgentTypeOK, Guard
    <3> QED
      BY <1>0, <3>1 DEF GuardInv, LeaseInv
  <2> QED
    BY <2>1, <2>2
<1>3. CASE HeartbeatFails
  <2>1. /\ guard'.pc = "waiting" /\ guard.pc = "asking"
        /\ guard'.stopAt = guard.stopAt /\ guard'.confirmed = guard.confirmed
        /\ guard'.late = guard.late
        /\ UNCHANGED <<clock, claim, task, cancelled>>
    BY <1>0, <1>3 DEF HeartbeatFails, AgentTypeOK, Guard
  <2>2. wire' = wire \/ wire'.kind = "none"
    BY <1>3 DEF HeartbeatFails, Silent
  <2> QED
    BY <1>0, <2>1, <2>2 DEF GuardInv, LeaseInv
<1> QED
  BY <1>1, <1>2, <1>3 DEF GuardStep

\* Core: a lease never shrinks unless the job is cancelled, and the job is
\* granted again only when the attempt closed.
LEMMA CoreStepInv ==
  ASSUME AgentIInv, AgentTypeOK', CoreStep
  PROVE  GuardInv' /\ LeaseInv'
<1> USE AgentAssumption
<1>0. AgentTypeOK /\ GuardInv /\ LeaseInv
  BY DEF AgentIInv
<1>1. UNCHANGED <<clock, guard, cancelled, task>>
  BY DEF CoreStep, CoreHeartbeat, RequestCancellation, CoreSweep, CoreGrantsAgain
<1>2. GuardInv'
  BY <1>0, <1>1 DEF GuardInv
<1>3. CASE CoreHeartbeat
  <2>1. CASE ~Holds
    <3>1. claim' = claim /\ wire'.kind = "lost"
      BY <1>3, <2>1 DEF CoreHeartbeat
    <3> QED
      BY <1>0, <1>1, <1>2, <3>1 DEF LeaseInv
  <2>2. CASE Holds /\ ~claim.cancel
    <3>1. /\ claim' = [claim EXCEPT !.lease = clock + Lease]
          /\ wire' = [kind |-> "active", at |-> clock, lease |-> clock + Lease]
      BY <1>3, <2>2 DEF CoreHeartbeat
    <3>2. /\ claim'.lease = clock + Lease /\ claim'.state = claim.state
          /\ claim'.cancel = claim.cancel /\ claim'.again = claim.again
          /\ claim.state = "running"
      BY <1>0, <2>2, <3>1 DEF AgentTypeOK, Claim, Holds
    <3>3. wire'.at = clock /\ wire'.lease = clock + Lease
      BY <3>1
    <3> QED
      BY <1>0, <1>1, <1>2, <3>2, <3>3, AgentFields DEF LeaseInv
  <2>3. CASE Holds /\ claim.cancel
    <3>1. wire'.kind = "cancel"
      BY <1>3, <2>3 DEF CoreHeartbeat
    <3>2. \E l \in Nat : l <= claim.lease /\ claim' = [claim EXCEPT !.lease = l]
      BY <1>0, <1>3, <2>3, AgentFields DEF CoreHeartbeat
    <3>3. /\ claim'.lease \in Nat /\ claim'.lease <= claim.lease
          /\ claim'.state = claim.state /\ claim'.cancel /\ claim'.again = claim.again
      BY <1>0, <2>3, <3>2 DEF AgentTypeOK, Claim
    <3>4. claim.state = "running" /\ ~claim.again
      BY <1>0, <2>3 DEF LeaseInv, Holds
    <3>5. ~claim'.again /\ claim'.lease <= clock + Lease
      BY <1>0, <3>3, <3>4, AgentFields DEF LeaseInv
    <3> QED
      BY <1>1, <1>2, <3>1, <3>3, <3>4, <3>5 DEF LeaseInv
  <2> QED
    BY <2>1, <2>2, <2>3
<1>4. CASE RequestCancellation
  <2>1. /\ claim'.lease = claim.lease /\ claim'.state = claim.state
        /\ claim'.cancel /\ claim'.again = claim.again /\ wire' = wire
        /\ claim.state = "running"
    BY <1>0, <1>4 DEF RequestCancellation, AgentTypeOK, Claim
  <2> QED
    BY <1>0, <1>1, <1>2, <2>1 DEF LeaseInv
<1>5. CASE CoreSweep
  <2>1. /\ claim'.lease = claim.lease /\ claim'.state = "lost" /\ claim.lease <= clock
        /\ claim'.cancel = claim.cancel /\ claim'.again = claim.again /\ wire' = wire
        /\ claim.state = "running"
    BY <1>0, <1>5 DEF CoreSweep, AgentTypeOK, Claim
  <2> QED
    BY <1>0, <1>1, <1>2, <2>1 DEF LeaseInv
<1>6. CASE CoreGrantsAgain
  <2>1. /\ claim'.lease = claim.lease /\ claim'.state = claim.state
        /\ claim'.cancel = claim.cancel /\ ~claim.cancel /\ wire' = wire
        /\ claim.state \in {"failed", "released", "lost"}
    BY <1>0, <1>6 DEF CoreGrantsAgain, AgentTypeOK, Claim
  <2> QED
    BY <1>0, <1>1, <1>2, <2>1 DEF LeaseInv
<1> QED
  BY <1>3, <1>4, <1>5, <1>6 DEF CoreStep

\* The task: it enters the sandbox only if the guard has not told it to stop.
LEMMA TaskStepInv ==
  ASSUME AgentIInv, AgentTypeOK', TaskStep
  PROVE  GuardInv' /\ LeaseInv'
<1> USE AgentAssumption
<1>0. AgentTypeOK /\ GuardInv /\ LeaseInv
  BY DEF AgentIInv
<1>1. UNCHANGED <<clock, guard, wire, cancelled>> /\ task # "done"
  BY DEF TaskStep, Downloaded, Processed, UploadNext, CompleteClaim, ReportFailure,
     ReleaseCancelled, CloseWith
<1>2. task' = "processing" => task = "downloading" /\ ~cancelled
  BY DEF TaskStep, Downloaded, Processed, UploadNext, CompleteClaim, ReportFailure,
     ReleaseCancelled, CloseWith, Checked
<1>3. GuardInv'
  BY <1>0, <1>1, <1>2, AgentFields DEF GuardInv, HeadStart
<1>4. CASE Downloaded \/ Processed \/ UploadNext
  <2>1. claim' = claim
    BY <1>4 DEF Downloaded, Processed, UploadNext
  <2> QED
    BY <1>0, <1>1, <1>3, <2>1 DEF LeaseInv
<1>5. CASE CompleteClaim \/ ReportFailure \/ ReleaseCancelled
  <2>1. task' = "done"
    BY <1>5 DEF CompleteClaim, ReportFailure, ReleaseCancelled, CloseWith
  <2>2. \/ claim' = claim
        \/ claim.state = "running" /\ \E st \in {"delivered", "failed", "released"} :
                                       claim' = [claim EXCEPT !.state = st]
    BY <1>5 DEF CompleteClaim, ReportFailure, ReleaseCancelled, CloseWith, Holds
  <2>3. CASE claim' = claim
    BY <1>0, <1>1, <1>3, <2>1, <2>3 DEF LeaseInv
  <2>4. CASE claim' # claim
    <3>1. /\ claim'.lease = claim.lease /\ claim'.state # "lost"
          /\ claim'.cancel = claim.cancel /\ claim'.again = claim.again
          /\ claim.state = "running"
      BY <1>0, <2>2, <2>4 DEF AgentTypeOK, Claim
    <3> QED
      BY <1>0, <1>1, <1>3, <2>1, <3>1 DEF LeaseInv
  <2> QED
    BY <2>3, <2>4
<1> QED
  BY <1>4, <1>5 DEF TaskStep

\* Time passes only while no timer is due and no sandbox is being killed.
LEMMA TickInv ==
  ASSUME AgentIInv, AgentTypeOK', AgentTick
  PROVE  GuardInv' /\ LeaseInv'
<1> USE AgentAssumption
<1>0. AgentTypeOK /\ GuardInv /\ LeaseInv
  BY DEF AgentIInv
<1>1. /\ clock' = clock + 1 /\ UNCHANGED <<claim, guard, wire, cancelled, task>>
      /\ guard.pc # "ended" => ~(clock >= guard.stopAt)
      /\ task = "processing" => ~cancelled
  BY DEF AgentTick, Ticks, Expired, Killing
<1>2. GuardInv'
  BY <1>0, <1>1, AgentFields DEF GuardInv, HeadStart
<1>3. LeaseInv'
  BY <1>0, <1>1, AgentFields DEF LeaseInv
<1> QED
  BY <1>2, <1>3

-----------------------------------------------------------------------------
\* The inductive invariant of the guard, the task and the claim in Core.
THEOREM AgentInvariance == AgentSpec => []AgentIInv
<1>1. AgentInit => AgentIInv
  BY AgentInitInv
<1>2. AgentIInv /\ [AgentNext]_agentVars => AgentIInv'
  <2> SUFFICES ASSUME AgentIInv, [AgentNext]_agentVars PROVE AgentIInv'
    OBVIOUS
  <2>1. CASE UNCHANGED agentVars
    BY <2>1 DEF agentVars, AgentIInv, AgentTypeOK, GuardInv, LeaseInv
  <2>2. CASE AgentNext
    <3>1. AgentTypeOK'
      BY <2>2, AgentTypeStep DEF AgentIInv
    <3> QED
      BY <2>2, <3>1, TickInv, GuardStepInv, CoreStepInv, TaskStepInv DEF AgentNext, AgentIInv
  <2> QED
    BY <2>1, <2>2
<1> QED
  BY <1>1, <1>2, PTL DEF AgentSpec

\* However heartbeats of claim_heartbeat_loop are lost or delayed, and whatever
\* the host's clock says, the sandbox runs past the last lease that Core confirmed
\* by no more than the accepted answer was late beyond the margin.
THEOREM SandboxStopsInTime == AgentSpec => []StopsBeforeConfirmedLease
<1>1. AgentIInv => StopsBeforeConfirmedLease
  BY DEF AgentIInv, GuardInv, StopsBeforeConfirmedLease
<1> QED
  BY <1>1, AgentInvariance, PTL

\* When try_claim hands the job to another worker, the sandbox of the lost claim
\* has ended, unless the answer that set its timer was late by the margin or more.
THEOREM WorkIsExclusive == AgentSpec => []ExclusiveWork
<1>1. AgentIInv => ExclusiveWork
  <2> SUFFICES ASSUME AgentIInv, claim.again, task = "processing"
               PROVE  guard.late >= HeadStart
    BY DEF ExclusiveWork
  <2>1. claim.state = "lost" /\ ~claim.cancel
    BY DEF AgentIInv, LeaseInv
  <2>2. guard.confirmed <= clock
    BY <2>1, AgentFields DEF AgentIInv, LeaseInv
  <2>3. clock <= guard.confirmed + guard.late - HeadStart
    BY DEF AgentIInv, GuardInv
  <2> QED
    BY <2>2, <2>3, AgentFields, AgentAssumption DEF AgentIInv, HeadStart
<1> QED
  BY <1>1, AgentInvariance, PTL

-----------------------------------------------------------------------------
(***************************************************************************)
(* WorkerRequests: what the replay records guarantee for any number of     *)
(* identifiers, payloads and concurrent calls, if a handler ends within    *)
(* the pending fence of its reservation: one answer per identifier and     *)
(* replay window, and no second effect within the fence but after a commit *)
(* that was reported as failed.                                            *)
(***************************************************************************)
\* A handler ends before its reservation lapses (seconds against ten minutes),
\* and a stored response is kept for longer than that (a day).
RequestsTimely == MaxRun < PendingTTL /\ PendingTTL <= ReplayTTL

\* A handler that is still running owns the record of its identifier.
CallInv ==
  \A c \in Calls : Live(c) =>
    /\ calls[c].id \in Ids
    /\ calls[c].since <= clock /\ clock <= calls[c].since + MaxRun
    /\ rows[calls[c].id].state = "pending"
    /\ rows[calls[c].id].payload = calls[c].payload
    /\ rows[calls[c].id].expires = calls[c].since + PendingTTL
    /\ calls[c].pc = "answered" => calls[c].reply # 0

\* No two handlers run under one identifier.
OneCall ==
  \A c, d \in Calls :
    Live(c) /\ Live(d) /\ calls[c].id = calls[d].id => c = d

\* As long as the window of the first answer lasts, its record is there.
FirstInv ==
  \A r \in Ids :
    /\ rows[r].state = "done" => rows[r].reply # 0
    /\ first[r].reply = 0 => first[r].until = 0
    /\ clock < first[r].until =>
         /\ rows[r].state = "done" /\ rows[r].reply = first[r].reply
         /\ rows[r].expires = first[r].until

HeardInv ==
  heard.id # None => heard.at <= clock /\ first[heard.id].reply # 0

\* The record of a mutation that took effect keeps other executions away.
EffectInv ==
  \A r \in Ids : effects[r].count > 0 /\ effects[r].known =>
    /\ effects[r].at <= clock
    /\ \/ clock >= effects[r].at + (PendingTTL - MaxRun)
       \/ /\ rows[r].state # "none"
          /\ rows[r].expires >= effects[r].at + (PendingTTL - MaxRun)
          /\ \A c \in Calls : Live(c) /\ calls[c].id = r => calls[c].pc = "answered"

RequestsIInv == RequestsTypeOK /\ CallInv /\ OneCall /\ FirstInv /\ HeardInv /\ AnswerIsStable

-----------------------------------------------------------------------------
\* The fields of the records have the types of the columns.
LEMMA RequestsFields ==
  ASSUME RequestsTypeOK
  PROVE  /\ clock \in Nat
         /\ \A r \in Ids : /\ rows[r] \in Row
                           /\ rows[r].payload \in Payloads \cup {None}
                           /\ rows[r].reply \in Nat /\ rows[r].expires \in Nat
                           /\ runs[r] \in Nat
                           /\ effects[r].count \in Nat /\ effects[r].at \in Nat
                           /\ first[r].reply \in Nat /\ first[r].until \in Nat
         /\ \A c \in Calls : /\ calls[c].id \in Ids \cup {None}
                             /\ calls[c].payload \in Payloads \cup {None}
                             /\ calls[c].reply \in Nat /\ calls[c].since \in Nat
         /\ heard.id \in Ids \cup {None} /\ heard.reply \in Nat /\ heard.at \in Nat
<1>1. \A r \in Ids : rows[r] \in Row
  BY DEF RequestsTypeOK
<1>2. \A c \in Calls : calls[c] \in Call
  BY DEF RequestsTypeOK
<1>3. \A r \in Ids : first[r] \in [reply: Nat, until: Nat] /\ effects[r] \in [count: Nat, at: Nat, known: BOOLEAN]
  BY DEF RequestsTypeOK
<1>4. heard \in Heard /\ clock \in Nat /\ \A r \in Ids : runs[r] \in Nat
  BY DEF RequestsTypeOK
<1> QED
  BY <1>1, <1>2, <1>3, <1>4 DEF Row, Call, Heard

\* An answer that reaches the worker is recorded with its types.
LEMMA AnswerType ==
  ASSUME RequestsTypeOK, NEW r \in Ids, NEW asked \in Payloads \cup {None},
         NEW made \in Payloads \cup {None}, NEW reply \in Nat, NEW until \in Nat,
         Answer(r, asked, made, reply, until)
  PROVE  first' \in [Ids -> [reply: Nat, until: Nat]] /\ heard' \in Heard
<1>1. first \in [Ids -> [reply: Nat, until: Nat]] /\ heard \in Heard /\ clock \in Nat
  BY DEF RequestsTypeOK
<1>2. [reply |-> reply, until |-> until] \in [reply: Nat, until: Nat]
  OBVIOUS
<1>3. heard' \in Heard
  BY <1>1 DEF Answer, Heard
<1>4. first' = first \/ first' = [first EXCEPT ![r] = [reply |-> reply, until |-> until]]
  BY DEF Answer
<1> QED
  BY <1>1, <1>2, <1>3, <1>4

\* Every action keeps the types.
LEMMA RequestsTypeStep ==
  ASSUME RequestsTypeOK, CallInv, [RequestsNext]_requestsVars
  PROVE  RequestsTypeOK'
<1> USE RequestsAssumption
<1>0. /\ clock \in Nat /\ rows \in [Ids -> Row] /\ calls \in [Calls -> Call]
      /\ runs \in [Ids -> Nat] /\ effects \in [Ids -> [count: Nat, at: Nat, known: BOOLEAN]]
      /\ first \in [Ids -> [reply: Nat, until: Nat]] /\ heard \in Heard
  BY DEF RequestsTypeOK
<1>00. NoRow \in Row /\ NoCall \in Call
  BY DEF Row, Call, NoRow, NoCall
<1>a. \A c \in Calls : Live(c) => calls[c].id \in Ids
  BY DEF CallInv
<1>b. \A r \in Ids, known \in BOOLEAN :
        Executed(r, known) => effects' \in [Ids -> [count: Nat, at: Nat, known: BOOLEAN]]
  <2> SUFFICES ASSUME NEW r \in Ids, NEW known \in BOOLEAN, Executed(r, known)
               PROVE  effects' \in [Ids -> [count: Nat, at: Nat, known: BOOLEAN]]
    OBVIOUS
  <2>1. [count |-> effects[r].count + 1, at |-> clock, known |-> known]
          \in [count: Nat, at: Nat, known: BOOLEAN]
    BY <1>0, RequestsFields
  <2> QED
    BY <1>0, <2>1 DEF Executed
<1>1. CASE RequestsTick
  BY <1>0, <1>1 DEF RequestsTick, Ticks, RequestsTypeOK
<1>2. ASSUME NEW r \in Ids, NEW p \in Payloads, Replay(r, p)
      PROVE  RequestsTypeOK'
  <2>1. Answer(r, p, rows[r].payload, rows[r].reply, rows[r].expires)
    BY <1>2 DEF Replay
  <2>2. first' \in [Ids -> [reply: Nat, until: Nat]] /\ heard' \in Heard
    BY <2>1, AnswerType, RequestsFields
  <2> QED
    BY <1>0, <1>2, <2>2 DEF Replay, RequestsTypeOK
<1>3. ASSUME NEW r \in Ids, NEW p \in Payloads, NEW c \in Calls, Reserve(c, r, p)
      PROVE  RequestsTypeOK'
  <2>1. [state |-> "pending", payload |-> p, reply |-> 0, expires |-> clock + PendingTTL] \in Row
    BY <1>0 DEF Row
  <2>2. [pc |-> "running", id |-> r, payload |-> p, reply |-> 0, since |-> clock] \in Call
    BY <1>0 DEF Call
  <2> QED
    BY <1>0, <1>3, <2>1, <2>2 DEF Reserve, RequestsTypeOK
<1>4. ASSUME NEW c \in Calls, ActionAnswers(c)
      PROVE  RequestsTypeOK'
  <2>1. calls[c].id \in Ids
    BY <1>4, <1>a DEF ActionAnswers, Live
  <2>2. [calls[c] EXCEPT !.pc = "answered", !.reply = runs[calls[c].id] + 1] \in Call
    <3>1. runs[calls[c].id] + 1 \in Nat
      BY <1>0, <2>1
    <3>2. calls[c] \in Call
      BY <1>0
    <3> HIDE <2>1
    <3> QED
      BY <3>1, <3>2 DEF Call
  <2>3. effects' \in [Ids -> [count: Nat, at: Nat, known: BOOLEAN]]
    BY <1>4, <1>b, <1>0, <2>1 DEF ActionAnswers
  <2>4. calls' \in [Calls -> Call] /\ runs' \in [Ids -> Nat]
    BY <1>0, <1>4, <2>1, <2>2 DEF ActionAnswers
  <2> QED
    BY <1>0, <1>4, <2>3, <2>4 DEF ActionAnswers, RequestsTypeOK
<1>5. ASSUME NEW c \in Calls, ActionFails(c)
      PROVE  RequestsTypeOK'
  <2>1. calls[c].id \in Ids
    BY <1>5, <1>a DEF ActionFails, Live
  <2>2. [calls[c] EXCEPT !.pc = "failed"] \in Call
    BY <1>0 DEF Call
  <2>3. effects' \in [Ids -> [count: Nat, at: Nat, known: BOOLEAN]]
    BY <1>5, <1>b, <1>0, <2>1 DEF ActionFails
  <2> QED
    BY <1>0, <1>5, <2>2, <2>3 DEF ActionFails, RequestsTypeOK
<1>6. ASSUME NEW c \in Calls, Finish(c)
      PROVE  RequestsTypeOK'
  <2>1. calls[c].id \in Ids
    BY <1>6, <1>a DEF Finish, Live
  <2>2. calls' \in [Calls -> Call]
    BY <1>0, <1>00, <1>6 DEF Finish
  <2>3. CASE Reserved(c)
    <3>1. [state |-> "done", payload |-> calls[c].payload,
           reply |-> calls[c].reply, expires |-> clock + ReplayTTL] \in Row
      BY <1>0, RequestsFields DEF Row
    <3>2. rows' \in [Ids -> Row]
      BY <1>0, <1>6, <2>3, <3>1 DEF Finish
    <3>3. Answer(calls[c].id, calls[c].payload, calls[c].payload, calls[c].reply, clock + ReplayTTL)
      BY <1>6, <2>3 DEF Finish
    <3>4. first' \in [Ids -> [reply: Nat, until: Nat]] /\ heard' \in Heard
      <4>1. clock + ReplayTTL \in Nat
        BY <1>0
      <4> QED
        BY <2>1, <3>3, <4>1, AnswerType, RequestsFields
    <3> QED
      BY <1>0, <1>6, <2>2, <3>2, <3>4 DEF Finish, RequestsTypeOK
  <2>4. CASE ~Reserved(c)
    BY <1>0, <1>6, <2>2, <2>4 DEF Finish, RequestsTypeOK
  <2> QED
    BY <2>3, <2>4
<1>7. ASSUME NEW c \in Calls, Abort(c)
      PROVE  RequestsTypeOK'
  BY <1>0, <1>00, <1>7 DEF Abort, RequestsTypeOK
<1>8. ASSUME NEW c \in Calls, Vanish(c)
      PROVE  RequestsTypeOK'
  BY <1>0, <1>00, <1>8 DEF Vanish, RequestsTypeOK
<1>9. CASE Purge
  BY <1>0, <1>00, <1>9 DEF Purge, RequestsTypeOK
<1>10. CASE UNCHANGED requestsVars
  BY <1>0, <1>10 DEF requestsVars, RequestsTypeOK
<1> QED
  BY <1>1, <1>2, <1>3, <1>4, <1>5, <1>6, <1>7, <1>8, <1>9, <1>10 DEF RequestsNext

-----------------------------------------------------------------------------
\* Initially there are no records and no calls.
LEMMA RequestsInitInv ==
  ASSUME RequestsInit
  PROVE  RequestsIInv /\ EffectInv
<1> USE RequestsAssumption
<1>1. RequestsTypeOK
  BY DEF RequestsInit, RequestsTypeOK, Row, Call, Heard, NoRow, NoCall
<1>2. CallInv /\ OneCall
  BY DEF RequestsInit, CallInv, OneCall, Live, NoCall
<1>3. FirstInv /\ HeardInv /\ AnswerIsStable /\ EffectInv
  BY DEF RequestsInit, FirstInv, HeardInv, AnswerIsStable, EffectInv, NoRow
<1> QED
  BY <1>1, <1>2, <1>3 DEF RequestsIInv

\* A call can only begin once the calls before it under the identifier are over:
\* while one runs, its record is pending and has not lapsed.
LEMMA FreeHasNoCall ==
  ASSUME RequestsTimely, RequestsTypeOK, CallInv, NEW r \in Ids, Free(r), NEW c \in Calls, Live(c)
  PROVE  calls[c].id # r
<1>1. SUFFICES ASSUME calls[c].id = r
               PROVE  FALSE
  OBVIOUS
<1>2. /\ rows[r].state = "pending" /\ rows[r].expires = calls[c].since + PendingTTL
      /\ clock <= calls[c].since + MaxRun
  BY <1>1 DEF CallInv
<1>3. rows[r].expires <= clock
  BY <1>2 DEF Free
<1> QED
  BY <1>2, <1>3, RequestsFields, RequestsAssumption DEF RequestsTimely

\* A running handler keeps the record it reserved.
LEMMA CallStep ==
  ASSUME RequestsTimely, RequestsTypeOK, CallInv, OneCall, [RequestsNext]_requestsVars
  PROVE  CallInv'
<1> USE RequestsAssumption
<1>0. /\ rows \in [Ids -> Row] /\ calls \in [Calls -> Call] /\ clock \in Nat
  BY DEF RequestsTypeOK
<1>1. CASE RequestsTick
  <2> SUFFICES ASSUME NEW d \in Calls, Live(d)
               PROVE  /\ calls[d].since <= clock + 1 /\ clock + 1 <= calls[d].since + MaxRun
    BY <1>1 DEF RequestsTick, Ticks, CallInv, Live
  <2>1. clock - calls[d].since < MaxRun /\ calls[d].since <= clock
    BY <1>1 DEF RequestsTick, Ticks, CallInv
  <2> QED
    BY <2>1, RequestsFields
<1>2. ASSUME NEW r \in Ids, NEW p \in Payloads, Replay(r, p)
      PROVE  CallInv'
  BY <1>2 DEF Replay, CallInv, Live
<1>3. ASSUME NEW r \in Ids, NEW p \in Payloads, NEW c \in Calls, Reserve(c, r, p)
      PROVE  CallInv'
  <2> SUFFICES ASSUME NEW d \in Calls, Live(d)'
               PROVE  (/\ calls[d].id \in Ids
                       /\ calls[d].since <= clock /\ clock <= calls[d].since + MaxRun
                       /\ rows[calls[d].id].state = "pending"
                       /\ rows[calls[d].id].payload = calls[d].payload
                       /\ rows[calls[d].id].expires = calls[d].since + PendingTTL
                       /\ calls[d].pc = "answered" => calls[d].reply # 0)'
    BY DEF CallInv
  <2>1. CASE d = c
    <3>1. calls'[c] = [pc |-> "running", id |-> r, payload |-> p, reply |-> 0, since |-> clock]
      BY <1>0, <1>3 DEF Reserve
    <3>2. rows'[r] = [state |-> "pending", payload |-> p, reply |-> 0,
                      expires |-> clock + PendingTTL]
      BY <1>0, <1>3 DEF Reserve
    <3>3. clock' = clock
      BY <1>3 DEF Reserve
    <3> QED
      BY <1>0, <2>1, <3>1, <3>2, <3>3
  <2>2. CASE d # c
    <3>1. calls'[d] = calls[d] /\ Live(d)
      BY <1>0, <1>3, <2>2 DEF Reserve, Live
    <3>2. calls[d].id # r
      BY <1>3, <3>1, FreeHasNoCall DEF Reserve
    <3>3. rows'[calls[d].id] = rows[calls[d].id] /\ clock' = clock
      BY <1>0, <1>3, <3>1, <3>2 DEF Reserve, CallInv
    <3> QED
      BY <3>1, <3>3 DEF CallInv
  <2> QED
    BY <2>1, <2>2
<1>4. ASSUME NEW c \in Calls, ActionAnswers(c)
      PROVE  CallInv'
  <2>1. calls[c].id \in Ids /\ runs[calls[c].id] \in Nat /\ calls[c] \in Call
    BY <1>0, <1>4, RequestsFields DEF ActionAnswers, Live, CallInv
  <2>2. calls'[c] = [calls[c] EXCEPT !.pc = "answered", !.reply = runs[calls[c].id] + 1]
    BY <1>0, <1>4 DEF ActionAnswers
  <2>3. /\ calls'[c].pc = "answered" /\ calls'[c].reply # 0
        /\ calls'[c].id = calls[c].id /\ calls'[c].payload = calls[c].payload
        /\ calls'[c].since = calls[c].since
    BY <2>1, <2>2 DEF Call
  <2>4. \A d \in Calls : d # c => calls'[d] = calls[d]
    BY <1>0, <1>4 DEF ActionAnswers
  <2>5. rows' = rows /\ clock' = clock /\ Live(c)
    BY <1>4 DEF ActionAnswers, Live
  <2> QED
    BY <2>3, <2>4, <2>5 DEF CallInv, Live
<1>5. ASSUME NEW c \in Calls, ActionFails(c)
      PROVE  CallInv'
  <2>1. calls[c] \in Call /\ calls'[c] = [calls[c] EXCEPT !.pc = "failed"]
    BY <1>0, <1>5 DEF ActionFails
  <2>2. /\ calls'[c].pc = "failed"
        /\ calls'[c].id = calls[c].id /\ calls'[c].payload = calls[c].payload
        /\ calls'[c].since = calls[c].since
    BY <2>1 DEF Call
  <2>3. \A d \in Calls : d # c => calls'[d] = calls[d]
    BY <1>0, <1>5 DEF ActionFails
  <2>4. rows' = rows /\ clock' = clock /\ Live(c)
    BY <1>5 DEF ActionFails, Live
  <2> QED
    BY <2>2, <2>3, <2>4 DEF CallInv, Live
<1>6. ASSUME NEW c \in Calls, Finish(c) \/ Abort(c) \/ Vanish(c)
      PROVE  CallInv'
  <2> SUFFICES ASSUME NEW d \in Calls, Live(d)'
               PROVE  d # c /\ Live(d) /\ UNCHANGED <<calls[d], rows[calls[d].id], clock>>
    BY DEF CallInv, Live
  <2>1. Live(c) /\ calls' = [calls EXCEPT ![c] = NoCall] /\ clock' = clock
    BY <1>6 DEF Finish, Abort, Vanish, Live
  <2>2. d # c /\ calls'[d] = calls[d] /\ Live(d)
    BY <1>0, <2>1 DEF Live, NoCall
  <2>3. calls[d].id # calls[c].id /\ calls[d].id \in Ids
    BY <2>1, <2>2 DEF OneCall, CallInv
  <2>4. rows' = rows \/ \E row : rows' = [rows EXCEPT ![calls[c].id] = row]
    BY <1>6 DEF Finish, Abort, Vanish
  <2>5. rows'[calls[d].id] = rows[calls[d].id]
    BY <1>0, <2>3, <2>4
  <2> QED
    BY <2>1, <2>2, <2>5
<1>9. CASE Purge
  <2> SUFFICES ASSUME NEW d \in Calls, Live(d)
               PROVE  rows'[calls[d].id] = rows[calls[d].id]
    BY <1>9 DEF Purge, CallInv, Live
  <2>1. /\ calls[d].id \in Ids /\ clock <= calls[d].since + MaxRun
        /\ rows[calls[d].id].expires = calls[d].since + PendingTTL
    BY DEF CallInv
  <2>2. ~(rows[calls[d].id].expires <= clock)
    BY <2>1, RequestsFields DEF RequestsTimely
  <2> QED
    BY <1>9, <2>1, <2>2 DEF Purge
<1>10. CASE UNCHANGED requestsVars
  BY <1>10 DEF requestsVars, CallInv, Live
<1> QED
  BY <1>1, <1>2, <1>3, <1>4, <1>5, <1>6, <1>9, <1>10 DEF RequestsNext

\* A second call under an identifier begins only when the first is over.
LEMMA OneCallStep ==
  ASSUME RequestsTimely, RequestsTypeOK, CallInv, OneCall, [RequestsNext]_requestsVars
  PROVE  OneCall'
<1>0. calls \in [Calls -> Call]
  BY DEF RequestsTypeOK
<1>1. CASE UNCHANGED calls
  BY <1>1 DEF OneCall, Live
<1>2. ASSUME NEW r \in Ids, NEW p \in Payloads, NEW c \in Calls, Reserve(c, r, p)
      PROVE  OneCall'
  <2>1. \A d \in Calls : d # c => calls'[d] = calls[d]
    BY <1>0, <1>2 DEF Reserve
  <2>2. calls'[c].id = r
    BY <1>0, <1>2 DEF Reserve
  <2>3. \A d \in Calls : Live(d) => calls[d].id # r
    BY <1>2, FreeHasNoCall DEF Reserve
  <2> QED
    BY <2>1, <2>2, <2>3 DEF OneCall, Live
<1>3. ASSUME NEW c \in Calls, ActionAnswers(c) \/ ActionFails(c)
      PROVE  OneCall'
  <2>1. calls[c] \in Call /\ Live(c)
    BY <1>0, <1>3 DEF ActionAnswers, ActionFails, Live
  <2>2. calls'[c].id = calls[c].id
    BY <1>0, <1>3, <2>1 DEF ActionAnswers, ActionFails, Call
  <2>3. \A d \in Calls : d # c => calls'[d] = calls[d]
    BY <1>0, <1>3 DEF ActionAnswers, ActionFails
  <2> QED
    BY <2>1, <2>2, <2>3 DEF OneCall, Live
<1>4. ASSUME NEW c \in Calls, calls' = [calls EXCEPT ![c] = NoCall]
      PROVE  OneCall'
  BY <1>0, <1>4 DEF OneCall, Live, NoCall
<1> QED
  BY <1>1, <1>2, <1>3, <1>4 DEF RequestsNext, RequestsTick, Ticks, Replay, Finish, Abort, Vanish, Purge, requestsVars

\* The first answer under an identifier is never replaced.
LEMMA AnswerFirst ==
  ASSUME RequestsTypeOK, NEW r \in Ids, NEW asked, NEW made, NEW reply \in Nat, NEW until \in Nat,
         Answer(r, asked, made, reply, until)
  PROVE  /\ \A s \in Ids : s # r \/ first[s].reply # 0 => first'[s] = first[s]
         /\ \/ first'[r] = first[r]
            \/ first'[r].reply = reply /\ first'[r].until = until
         /\ \/ heard' = heard /\ first' = first
            \/ /\ heard' = [id |-> r, asked |-> asked, made |-> made,
                            reply |-> reply, at |-> clock]
               /\ first[r].reply = 0 =>
                    first'[r].reply = reply /\ first'[r].until = until
<1>1. first \in [Ids -> [reply: Nat, until: Nat]]
  BY DEF RequestsTypeOK
<1>2. CASE UNCHANGED <<first, heard>>
  BY <1>2
<1>3. CASE /\ first[r].reply = 0
           /\ heard' = [id |-> r, asked |-> asked, made |-> made, reply |-> reply, at |-> clock]
           /\ first' = [first EXCEPT ![r] = [reply |-> reply, until |-> until]]
  <2>1. first'[r] = [reply |-> reply, until |-> until]
    BY <1>1, <1>3
  <2>2. first'[r].reply = reply /\ first'[r].until = until
    BY <2>1
  <2>3. \A s \in Ids : s # r => first'[s] = first[s]
    BY <1>1, <1>3
  <2> QED
    BY <1>3, <2>2, <2>3
<1>4. CASE /\ first[r].reply # 0
           /\ heard' = [id |-> r, asked |-> asked, made |-> made, reply |-> reply, at |-> clock]
           /\ first' = first
  BY <1>4
<1> QED
  BY <1>2, <1>3, <1>4 DEF Answer

\* While the window of the first answer lasts its record stays as it is: it is
\* not lapsed, so neither a reservation nor the purge takes it, and not pending,
\* so no handler ends on it.
LEMMA FirstStep ==
  ASSUME RequestsTimely, RequestsTypeOK, CallInv, FirstInv, [RequestsNext]_requestsVars
  PROVE  FirstInv'
<1> USE RequestsAssumption
<1>0. /\ rows \in [Ids -> Row] /\ clock \in Nat
      /\ \A r \in Ids : /\ first[r].reply \in Nat /\ first[r].until \in Nat
                        /\ rows[r].reply \in Nat /\ rows[r].expires \in Nat
  BY RequestsFields DEF RequestsTypeOK
<1>1. CASE RequestsTick
  <2>1. rows' = rows /\ first' = first /\ clock' = clock + 1
    BY <1>1 DEF RequestsTick, Ticks
  <2>2. \A r \in Ids : clock + 1 < first[r].until => clock < first[r].until
    BY <1>0
  <2> QED
    BY <2>1, <2>2 DEF FirstInv
<1>2. ASSUME NEW r \in Ids, NEW p \in Payloads, Replay(r, p)
      PROVE  FirstInv'
  <2>1. /\ rows' = rows /\ clock' = clock
        /\ rows[r].state = "done" /\ rows[r].expires > clock /\ rows[r].reply # 0
        /\ Answer(r, p, rows[r].payload, rows[r].reply, rows[r].expires)
    BY <1>2 DEF Replay, FirstInv
  <2>2. /\ \A s \in Ids : s # r \/ first[s].reply # 0 => first'[s] = first[s]
        /\ \/ first'[r] = first[r]
           \/ first'[r].reply = rows[r].reply /\ first'[r].until = rows[r].expires
    <3> DEFINE reply == rows[r].reply
               until == rows[r].expires
               made == rows[r].payload
    <3>1. reply \in Nat /\ until \in Nat
      BY <1>0
    <3>2. Answer(r, p, made, reply, until)
      BY <2>1
    <3> HIDE DEF reply, until, made
    <3>3. /\ \A s \in Ids : s # r \/ first[s].reply # 0 => first'[s] = first[s]
          /\ \/ first'[r] = first[r]
             \/ first'[r].reply = reply /\ first'[r].until = until
      BY <3>1, <3>2, AnswerFirst
    <3> QED
      BY <3>3 DEF reply, until
  <2> SUFFICES ASSUME NEW s \in Ids
               PROVE  (/\ rows[s].state = "done" => rows[s].reply # 0
                       /\ first[s].reply = 0 => first[s].until = 0
                       /\ clock < first[s].until =>
                            /\ rows[s].state = "done" /\ rows[s].reply = first[s].reply
                            /\ rows[s].expires = first[s].until)'
    BY DEF FirstInv
  <2>3. CASE first'[s] = first[s]
    BY <2>1, <2>3 DEF FirstInv
  <2>4. CASE s = r /\ first'[r].reply = rows[r].reply /\ first'[r].until = rows[r].expires
    BY <2>1, <2>4
  <2> QED
    BY <2>2, <2>3, <2>4
<1>3. ASSUME NEW r \in Ids, NEW p \in Payloads, NEW c \in Calls, Reserve(c, r, p)
      PROVE  FirstInv'
  <2>1. first' = first /\ clock' = clock /\ rows'[r].state = "pending"
    BY <1>0, <1>3 DEF Reserve
  <2>2. \A s \in Ids : s # r => rows'[s] = rows[s]
    BY <1>0, <1>3 DEF Reserve
  <2>3. Free(r)
    BY <1>3 DEF Reserve
  <2>4. ~(clock < first[r].until)
    BY <1>0, <2>3 DEF FirstInv, Free
  <2> QED
    BY <2>1, <2>2, <2>4 DEF FirstInv
<1>4. ASSUME NEW c \in Calls, Finish(c), Reserved(c)
      PROVE  FirstInv'
  <2> DEFINE r == calls[c].id
  <2>1. r \in Ids /\ calls[c].reply \in Nat /\ calls[c].reply # 0
    BY <1>4, RequestsFields DEF Finish, CallInv, Live
  <2>2. rows[r].state = "pending"
    BY <1>4 DEF Reserved
  <2>3. /\ rows' = [rows EXCEPT ![r] = [state |-> "done", payload |-> calls[c].payload,
                                         reply |-> calls[c].reply, expires |-> clock + ReplayTTL]]
        /\ Answer(r, calls[c].payload, calls[c].payload, calls[c].reply, clock + ReplayTTL)
        /\ clock' = clock
    BY <1>4 DEF Finish
  <2>4. rows'[r] = [state |-> "done", payload |-> calls[c].payload,
                    reply |-> calls[c].reply, expires |-> clock + ReplayTTL]
    BY <1>0, <2>1, <2>3
  <2>5. /\ rows'[r].state = "done" /\ rows'[r].reply = calls[c].reply
        /\ rows'[r].expires = clock + ReplayTTL
    BY <2>4
  <2>6. \A s \in Ids : s # r => rows'[s] = rows[s]
    BY <1>0, <2>3
  <2>7. clock + ReplayTTL \in Nat
    BY <1>0
  <2>8. /\ \A s \in Ids : s # r \/ first[s].reply # 0 => first'[s] = first[s]
        /\ \/ first'[r] = first[r]
           \/ first'[r].reply = calls[c].reply /\ first'[r].until = clock + ReplayTTL
    BY <2>1, <2>3, <2>7, AnswerFirst
  <2>9. ~(clock < first[r].until)
    BY <2>1, <2>2 DEF FirstInv
  <2> HIDE DEF r
  <2> SUFFICES ASSUME NEW s \in Ids
               PROVE  (/\ rows[s].state = "done" => rows[s].reply # 0
                       /\ first[s].reply = 0 => first[s].until = 0
                       /\ clock < first[s].until =>
                            /\ rows[s].state = "done" /\ rows[s].reply = first[s].reply
                            /\ rows[s].expires = first[s].until)'
    BY DEF FirstInv
  <2>a. CASE s # r
    BY <2>3, <2>6, <2>8, <2>a DEF FirstInv
  <2>b. CASE s = r /\ first'[r] = first[r]
    BY <2>1, <2>3, <2>5, <2>9, <2>b DEF FirstInv
  <2>c. CASE s = r /\ first'[r].reply = calls[c].reply /\ first'[r].until = clock + ReplayTTL
    BY <2>1, <2>5, <2>c
  <2> QED
    BY <2>8, <2>a, <2>b, <2>c
<1>5. ASSUME NEW c \in Calls, Abort(c), Reserved(c)
      PROVE  FirstInv'
  <2>1. calls[c].id \in Ids /\ rows[calls[c].id].state = "pending"
    BY <1>5 DEF Abort, CallInv, Live
  <2>2. first' = first /\ clock' = clock /\ rows' = [rows EXCEPT ![calls[c].id] = NoRow]
    BY <1>5 DEF Abort
  <2> QED
    BY <1>0, <2>1, <2>2 DEF FirstInv, NoRow
<1>6. CASE Purge
  <2>1. first' = first /\ clock' = clock
    BY <1>6 DEF Purge
  <2>2. \A s \in Ids : rows'[s] = IF rows[s].expires <= clock THEN NoRow ELSE rows[s]
    BY <1>6 DEF Purge
  <2> QED
    BY <1>0, <2>1, <2>2 DEF FirstInv, NoRow
<1>7. CASE UNCHANGED <<clock, rows, first>>
  BY <1>7 DEF FirstInv
<1> QED
  BY <1>1, <1>2, <1>3, <1>4, <1>5, <1>6, <1>7
     DEF RequestsNext, ActionAnswers, ActionFails, Finish, Abort, Vanish, requestsVars

\* What reaches the worker now is its first answer under the identifier, or is
\* replayed from the record that holds that answer.
LEMMA HeardStep ==
  ASSUME RequestsTimely, RequestsTypeOK, CallInv, FirstInv, HeardInv, AnswerIsStable, [RequestsNext]_requestsVars
  PROVE  HeardInv' /\ AnswerIsStable'
<1> USE RequestsAssumption
<1>0. /\ clock \in Nat /\ heard \in Heard
      /\ heard.id \in Ids \cup {None} /\ heard.at \in Nat
      /\ \A r \in Ids : first[r].reply \in Nat /\ first[r].until \in Nat
  BY RequestsFields DEF RequestsTypeOK
<1>1. CASE RequestsTick
  <2>1. heard' = heard /\ first' = first /\ clock' = clock + 1
    BY <1>1 DEF RequestsTick, Ticks
  <2> QED
    BY <1>0, <2>1 DEF HeardInv, AnswerIsStable
<1>2. ASSUME NEW r \in Ids, NEW p, NEW reply \in Nat, NEW until \in Nat,
             Answer(r, p, p, reply, until), reply # 0, clock' = clock,
             clock < first[r].until => reply = first[r].reply
      PROVE  HeardInv' /\ AnswerIsStable'
  <2>1. \A s \in Ids : s # r \/ first[s].reply # 0 => first'[s] = first[s]
    BY <1>2, AnswerFirst
  <2>2. CASE heard' = heard /\ first' = first
    BY <1>2, <2>2 DEF HeardInv, AnswerIsStable
  <2>3. CASE /\ heard' = [id |-> r, asked |-> p, made |-> p, reply |-> reply, at |-> clock]
             /\ first[r].reply = 0 => first'[r].reply = reply /\ first'[r].until = until
    <3>1. /\ heard'.id = r /\ heard'.asked = p /\ heard'.made = p
          /\ heard'.reply = reply /\ heard'.at = clock
      BY <2>3
    <3>2. first'[r].reply # 0
      BY <1>2, <2>1, <2>3
    <3>3. clock < first'[r].until => reply = first'[r].reply
      BY <1>2, <2>1, <2>3
    <3> QED
      BY <1>0, <1>2, <3>1, <3>2, <3>3 DEF HeardInv, AnswerIsStable
  <2> QED
    BY <1>2, <2>2, <2>3, AnswerFirst
<1>3. ASSUME NEW r \in Ids, NEW p \in Payloads, Replay(r, p)
      PROVE  HeardInv' /\ AnswerIsStable'
  <2>1. /\ Answer(r, p, p, rows[r].reply, rows[r].expires)
        /\ rows[r].reply # 0 /\ clock' = clock
        /\ clock < first[r].until => rows[r].reply = first[r].reply
    BY <1>3 DEF Replay, FirstInv
  <2>2. rows[r].reply \in Nat /\ rows[r].expires \in Nat
    BY RequestsFields
  <2> QED
    BY <1>2, <2>1, <2>2
<1>4. ASSUME NEW c \in Calls, Finish(c), Reserved(c)
      PROVE  HeardInv' /\ AnswerIsStable'
  <2>1. calls[c].id \in Ids /\ calls[c].reply \in Nat /\ calls[c].reply # 0
    BY <1>4, RequestsFields DEF Finish, CallInv, Live
  <2>2. ~(clock < first[calls[c].id].until)
    BY <1>4, <2>1 DEF Reserved, FirstInv
  <2>3. /\ Answer(calls[c].id, calls[c].payload, calls[c].payload, calls[c].reply,
                  clock + ReplayTTL)
        /\ clock' = clock
    BY <1>4 DEF Finish
  <2>4. clock + ReplayTTL \in Nat
    BY <1>0
  <2> QED
    BY <1>2, <2>1, <2>2, <2>3, <2>4
<1>5. CASE UNCHANGED <<clock, first, heard>>
  BY <1>5 DEF HeardInv, AnswerIsStable
<1> QED
  BY <1>1, <1>3, <1>4, <1>5
     DEF RequestsNext, Reserve, ActionAnswers, ActionFails, Finish, Abort, Vanish, Purge, requestsVars

-----------------------------------------------------------------------------
\* The record of an effect keeps other executions away until the fence passed:
\* a handler that has not answered yet cannot be there, so the record is only
\* made to last longer.
LEMMA EffectStep ==
  ASSUME RequestsTimely, RequestsTypeOK, CallInv, OneCall, EffectInv, [RequestsNext]_requestsVars
  PROVE  EffectInv'
<1> USE RequestsAssumption DEF RequestsTimely
<1> DEFINE Fence(r) == effects[r].at + (PendingTTL - MaxRun)
           Kept(r) == /\ rows[r].state # "none" /\ rows[r].expires >= Fence(r)
                      /\ \A c \in Calls : Live(c) /\ calls[c].id = r => calls[c].pc = "answered"
           Fenced(r) == effects[r].count > 0 /\ effects[r].known =>
                          /\ effects[r].at <= clock
                          /\ clock >= Fence(r) \/ Kept(r)
<1>0. /\ rows \in [Ids -> Row] /\ calls \in [Calls -> Call] /\ clock \in Nat
      /\ effects \in [Ids -> [count: Nat, at: Nat, known: BOOLEAN]]
      /\ \A r \in Ids : rows[r].expires \in Nat /\ effects[r].at \in Nat /\ effects[r].count \in Nat
      /\ \A c \in Calls : calls[c].since \in Nat
  BY RequestsFields DEF RequestsTypeOK
<1> SUFFICES ASSUME NEW r \in Ids
             PROVE  Fenced(r)'
  BY DEF EffectInv
<1>i. Fenced(r)
  BY DEF EffectInv
<1>1. CASE RequestsTick
  <2>1. UNCHANGED <<effects, rows, calls>> /\ clock' = clock + 1
    BY <1>1 DEF RequestsTick, Ticks
  <2> QED
    BY <1>0, <1>i, <2>1 DEF Live
<1>2. ASSUME NEW s \in Ids, NEW p \in Payloads, NEW c \in Calls, Reserve(c, s, p)
      PROVE  Fenced(r)'
  <2>1. UNCHANGED <<effects, clock>> /\ Free(s)
    BY <1>2 DEF Reserve
  <2>2. CASE r = s
    BY <1>0, <1>i, <2>1, <2>2 DEF Free
  <2>3. CASE r # s
    <3>1. rows'[r] = rows[r]
      BY <1>0, <1>2, <2>3 DEF Reserve
    <3>2. calls'[c].id = s /\ \A d \in Calls : d # c => calls'[d] = calls[d]
      BY <1>0, <1>2 DEF Reserve
    <3>3. Kept(r) => Kept(r)'
      BY <2>1, <2>3, <3>1, <3>2 DEF Live
    <3> QED
      BY <1>i, <2>1, <3>3
  <2> QED
    BY <2>2, <2>3
<1>3. ASSUME NEW c \in Calls, ActionAnswers(c)
      PROVE  Fenced(r)'
  <2>1. /\ UNCHANGED <<clock, rows>> /\ calls[c] \in Call /\ Live(c)
        /\ effects' = effects \/ Executed(calls[c].id, TRUE)
    BY <1>0, <1>3 DEF ActionAnswers, Live
  <2>2. calls[c].id \in Ids
    BY <2>1 DEF CallInv
  <2>3. /\ calls'[c].pc = "answered" /\ calls'[c].id = calls[c].id
        /\ \A d \in Calls : d # c => calls'[d] = calls[d]
    <3>1. calls'[c] = [calls[c] EXCEPT !.pc = "answered", !.reply = runs[calls[c].id] + 1]
      BY <1>0, <1>3 DEF ActionAnswers
    <3> QED
      BY <1>0, <1>3, <2>1, <3>1 DEF ActionAnswers, Call
  <2>4. CASE effects'[r] = effects[r]
    <3>1. Kept(r) => Kept(r)'
      BY <2>1, <2>3, <2>4 DEF Live
    <3> QED
      BY <1>i, <2>1, <2>4, <3>1
  <2>5. CASE r = calls[c].id /\ Executed(r, TRUE)
    <3>1. effects'[r] = [count |-> effects[r].count + 1, at |-> clock, known |-> TRUE]
      BY <1>0, <2>5 DEF Executed
    <3>2. effects'[r].at = clock
      BY <3>1
    <3>3. /\ rows[r].state = "pending" /\ rows[r].expires = calls[c].since + PendingTTL
          /\ clock <= calls[c].since + MaxRun
      BY <2>1, <2>5 DEF CallInv
    <3>4. rows[r].expires >= clock + (PendingTTL - MaxRun)
      BY <1>0, <3>3
    <3>5. \A d \in Calls : Live(d)' /\ calls'[d].id = r => calls'[d].pc = "answered"
      BY <2>1, <2>3, <2>5 DEF OneCall, Live
    <3> QED
      BY <1>0, <2>1, <3>2, <3>3, <3>4, <3>5
  <2> QED
    BY <1>0, <2>1, <2>2, <2>4, <2>5 DEF Executed
<1>4. ASSUME NEW c \in Calls, ActionFails(c)
      PROVE  Fenced(r)'
  <2>1. /\ UNCHANGED <<clock, rows>> /\ Live(c) /\ calls[c] \in Call
        /\ effects' = effects \/ Executed(calls[c].id, FALSE)
    BY <1>0, <1>4 DEF ActionFails, Live
  <2>2. calls'[c].id = calls[c].id /\ \A d \in Calls : d # c => calls'[d] = calls[d]
    BY <1>0, <1>4, <2>1 DEF ActionFails, Call
  <2>3. calls[c].pc # "answered"
    BY <1>4 DEF ActionFails
  <2>4. CASE effects'[r] = effects[r]
    <3>1. Kept(r) => Kept(r)'
      BY <2>1, <2>2, <2>3, <2>4 DEF Live
    <3> QED
      BY <1>i, <2>1, <2>4, <3>1
  <2>5. CASE effects'[r] # effects[r]
    <3>1. effects'[r] = [count |-> effects[r].count + 1, at |-> clock, known |-> FALSE]
      BY <1>0, <2>1, <2>5 DEF Executed
    <3> QED
      BY <3>1
  <2> QED
    BY <2>4, <2>5
<1>5. ASSUME NEW c \in Calls, Finish(c) \/ Vanish(c)
      PROVE  Fenced(r)'
  <2>1. UNCHANGED <<clock, effects>> /\ \A d \in Calls : Live(d)' => calls'[d] = calls[d] /\ Live(d)
    BY <1>0, <1>5 DEF Finish, Vanish, Live, NoCall
  <2>2. CASE rows'[r] = rows[r]
    <3>1. Kept(r) => Kept(r)'
      BY <2>1, <2>2
    <3> QED
      BY <1>i, <2>1, <3>1
  <2>3. CASE /\ r = calls[c].id
             /\ rows'[r] = [state |-> "done", payload |-> calls[c].payload,
                            reply |-> calls[c].reply, expires |-> clock + ReplayTTL]
    <3>1. rows'[r].state = "done" /\ rows'[r].expires = clock + ReplayTTL
      BY <2>3
    <3>2. effects[r].at <= clock => clock + ReplayTTL >= Fence(r)
      BY <1>0
    <3>3. effects[r].at <= clock /\ Kept(r) => Kept(r)'
      BY <2>1, <3>1, <3>2
    <3> QED
      BY <1>i, <2>1, <3>3
  <2> QED
    BY <1>0, <1>5, <2>2, <2>3 DEF Finish, Vanish
<1>6. ASSUME NEW c \in Calls, Abort(c)
      PROVE  Fenced(r)'
  <2>1. /\ UNCHANGED <<clock, effects>> /\ Live(c) /\ calls[c].pc = "failed"
        /\ \A d \in Calls : Live(d)' => calls'[d] = calls[d] /\ Live(d)
    BY <1>0, <1>6 DEF Abort, Live, NoCall
  <2>2. CASE r = calls[c].id
    BY <1>i, <2>1, <2>2
  <2>3. CASE r # calls[c].id
    <3>1. rows'[r] = rows[r]
      BY <1>0, <1>6, <2>3 DEF Abort
    <3>2. Kept(r) => Kept(r)'
      BY <2>1, <3>1
    <3> QED
      BY <1>i, <2>1, <3>2
  <2> QED
    BY <2>2, <2>3
<1>7. CASE Purge
  <2>1. UNCHANGED <<clock, effects, calls>>
    BY <1>7 DEF Purge
  <2>2. rows'[r] = IF rows[r].expires <= clock THEN NoRow ELSE rows[r]
    BY <1>7 DEF Purge
  <2> QED
    BY <1>0, <1>i, <2>1, <2>2 DEF Live
<1>8. CASE UNCHANGED <<clock, rows, calls, effects>>
  BY <1>8, <1>i DEF Live
<1> QED
  BY <1>1, <1>2, <1>3, <1>4, <1>5, <1>6, <1>7, <1>8 DEF RequestsNext, Replay, requestsVars

-----------------------------------------------------------------------------
\* A handler owns the record of its identifier while it runs, no two handlers
\* run under one identifier, and a first answer keeps its record.
THEOREM RequestsInvariance ==
  ASSUME RequestsTimely
  PROVE  RequestsSpec => []RequestsIInv
<1>1. RequestsInit => RequestsIInv
  BY RequestsInitInv
<1>2. RequestsIInv /\ [RequestsNext]_requestsVars => RequestsIInv'
  BY RequestsTypeStep, CallStep, OneCallStep, FirstStep, HeardStep DEF RequestsIInv
<1> QED
  BY <1>1, <1>2, PTL DEF RequestsSpec

\* with_worker_request: if a handler ends within the pending fence, whatever
\* calls, retries, crashes and lost responses there are, a worker hears the
\* answer to its own payload, and within the replay window of the first answer
\* it hears only that one.
THEOREM AnswersAreStable ==
  ASSUME RequestsTimely
  PROVE  RequestsSpec => []AnswerIsStable
<1>1. RequestsIInv => AnswerIsStable
  BY DEF RequestsIInv
<1> QED
  BY <1>1, RequestsInvariance, PTL

\* with_worker_request: whatever calls, retries, crashes and lost responses there
\* are, the mutation of an identifier takes effect again only after the fence,
\* unless its last commit was reported as a server error.
THEOREM EffectsAreFenced ==
  ASSUME RequestsTimely
  PROVE  RequestsSpec => EffectIsFenced
<1>1. RequestsInit => EffectInv
  BY RequestsInitInv
<1>2. RequestsIInv /\ EffectInv /\ [RequestsNext]_requestsVars => EffectInv'
  BY EffectStep DEF RequestsIInv
<1>3. ASSUME RequestsIInv, EffectInv, RequestsNext
      PROVE  \A r \in Ids :
               effects'[r] # effects[r] /\ effects[r].count > 0 /\ effects[r].known =>
                 clock >= effects[r].at + (PendingTTL - MaxRun)
  <2> SUFFICES ASSUME NEW r \in Ids, effects'[r] # effects[r], effects[r].count > 0,
                      effects[r].known
               PROVE  clock >= effects[r].at + (PendingTTL - MaxRun)
    OBVIOUS
  <2>0. effects \in [Ids -> [count: Nat, at: Nat, known: BOOLEAN]]
    BY <1>3 DEF RequestsIInv, RequestsTypeOK
  <2>1. PICK c \in Calls :
          calls[c].pc = "running" /\ \E known \in BOOLEAN : Executed(calls[c].id, known)
    BY <1>3 DEF RequestsNext, RequestsTick, Ticks, Replay, Reserve, ActionAnswers, ActionFails, Finish, Abort,
       Vanish, Purge
  <2>2. calls[c].id = r
    BY <2>0, <2>1 DEF Executed
  <2> QED
    BY <1>3, <2>1, <2>2 DEF EffectInv, Live
<1>4. RequestsIInv /\ EffectInv /\ [RequestsNext]_requestsVars =>
        [\A r \in Ids : effects'[r] # effects[r] /\ effects[r].count > 0 /\ effects[r].known =>
           clock >= effects[r].at + (PendingTTL - MaxRun)]_requestsVars
  BY <1>3
<1> QED
  BY <1>1, <1>2, <1>4, RequestsInvariance, PTL DEF RequestsSpec, EffectIsFenced

-----------------------------------------------------------------------------
(***************************************************************************)
(* WorkerSessions: for any number of sessions, jobs and slots and any age  *)
(* of a handler's clock, a session keeps to its slots in Core, its agent   *)
(* keeps to its permits, and a graceful exit leaves no claim behind.       *)
(***************************************************************************)
\* The semaphore: an agent that waits for an answer holds one more permit.
PermitsKept ==
  \A s \in Sessions :
    /\ Cardinality(agents[s].tasks) <= Slots
    /\ agents[s].pc = "acquiring" => Cardinality(agents[s].tasks) < Slots

\* An agent none of whose calls failed knows of every claim that Core runs for
\* it: it works on the claim, or waits for the answer that grants it.
HeldInv ==
  \A s \in Sessions : agents[s].clean =>
    /\ agents[s].failures = 0
    /\ ~polls[s].orphan
    /\ polls[s].state # "none" => agents[s].pc = "acquiring"
    /\ \A j \in Running(s) :
         \/ j \in agents[s].tasks
         \/ polls[s].state = "answered" /\ polls[s].job = j

\* A process that exited works on nothing.
ExitInv == \A s \in Sessions : agents[s].pc = "exited" => agents[s].tasks = {}

SessionsIInv == SessionsTypeOK /\ SlotCeiling /\ PermitsKept /\ HeldInv /\ ExitInv

-----------------------------------------------------------------------------
\* The types of the rows and of their fields, for the steps below.
LEMMA SessionsFields ==
  ASSUME SessionsTypeOK
  PROVE  /\ \A s \in Sessions :
              /\ sessions[s] \in SessionRow /\ agents[s] \in Agent /\ polls[s] \in Poll
              /\ sessions[s].state \in {"none", "active", "draining", "expired"}
              /\ sessions[s].expires \in Nat
              /\ agents[s].pc \in AgentSteps /\ agents[s].tasks \subseteq Jobs
              /\ agents[s].stopping \in BOOLEAN /\ agents[s].clean \in BOOLEAN
              /\ agents[s].failures \in 0..MaxFailures
              /\ polls[s].state \in {"none", "open", "answered", "refused"}
              /\ polls[s].job \in Jobs \cup {None} /\ polls[s].orphan \in BOOLEAN
         /\ \A j \in Jobs :
              /\ claims[j] \in ClaimRow /\ claims[j].lease \in Nat
              /\ claims[j].session \in Sessions \cup {None} /\ claims[j].late \in BOOLEAN
  BY DEF SessionsTypeOK, SessionRow, Agent, Poll, ClaimRow

\* What a handler reads of the clock is a time that has come.
LEMMA NowsAreNat ==
  ASSUME SessionsTypeOK, NEW t \in Nows
  PROVE  t \in Nat /\ t <= clock
  BY DEF SessionsTypeOK, Nows

\* A set of jobs is finite, and a part of it is no larger.
LEMMA JobSets ==
  ASSUME NEW S, S \subseteq Jobs, NEW R, R \subseteq S
  PROVE  /\ IsFiniteSet(S) /\ IsFiniteSet(R)
         /\ Cardinality(S) \in Nat /\ Cardinality(R) \in Nat
         /\ Cardinality(R) <= Cardinality(S)
<1>1. IsFiniteSet(Jobs)
  BY SessionsAssumption
<1>2. IsFiniteSet(S)
  BY <1>1, FS_Subset
<1>3. IsFiniteSet(R) /\ Cardinality(R) <= Cardinality(S)
  BY <1>2, FS_Subset
<1> QED
  BY <1>2, <1>3, FS_CardinalityType

\* Core's steps keep the types.
LEMMA SessionsCoreType ==
  ASSUME SessionsTypeOK, SessionsCore
  PROVE  SessionsTypeOK'
<1> USE SessionsAssumption
<1>1. ASSUME NEW t \in Nows, SweepSessions(t)
      PROVE  SessionsTypeOK'
  <2>1. [state |-> "expired", expires |-> 0] \in SessionRow
    BY DEF SessionRow
  <2>2. sessions' \in [Sessions -> SessionRow]
    BY <1>1, <2>1 DEF SweepSessions, SessionsTypeOK
  <2> QED
    BY <1>1, <2>2 DEF SweepSessions, SessionsTypeOK
<1>2. ASSUME NEW t \in Nows, SweepClaims(t)
      PROVE  SessionsTypeOK'
  <2>1. NoClaim \in ClaimRow
    BY DEF ClaimRow, NoClaim
  <2>2. claims' \in [Jobs -> ClaimRow]
    BY <1>2, <2>1 DEF SweepClaims, SessionsTypeOK
  <2> QED
    BY <1>2, <2>2 DEF SweepClaims, SessionsTypeOK
<1>3. ASSUME NEW s \in Sessions, NEW state \in {"answered", "refused"},
             NEW j \in Jobs \cup {None}, PollAnswered(s, state, j)
      PROVE  polls' \in [Sessions -> Poll]
  <2>1. polls[s] \in Poll
    BY SessionsFields
  <2>2. [polls[s] EXCEPT !.state = state, !.job = j] \in Poll
    BY <2>1 DEF Poll
  <2>3. [polls[s] EXCEPT !.orphan = FALSE] \in Poll
    BY <2>1 DEF Poll
  <2> QED
    BY <1>3, <2>2, <2>3 DEF PollAnswered, SessionsTypeOK
<1>4. ASSUME NEW s \in Sessions, NEW t \in Nows, PollEnds(s, t)
      PROVE  SessionsTypeOK'
  BY <1>3, <1>4 DEF PollEnds, SessionsTypeOK
<1>5. ASSUME NEW s \in Sessions, NEW t \in Nows, NEW j \in Jobs, TryClaim(s, j, t)
      PROVE  SessionsTypeOK'
  <2>1. Granted(s, t) \in ClaimRow
    BY NowsAreNat DEF Granted, ClaimRow
  <2>2. claims' \in [Jobs -> ClaimRow]
    BY <1>5, <2>1 DEF TryClaim, SessionsTypeOK
  <2> QED
    BY <1>3, <1>5, <2>2 DEF TryClaim, SessionsTypeOK
<1> QED
  BY <1>1, <1>2, <1>4, <1>5 DEF SessionsCore, Maintain

\* The agent's steps keep the types.
LEMMA AgentStepType ==
  ASSUME SessionsTypeOK, NEW s \in Sessions, AgentStep(s)
  PROVE  SessionsTypeOK'
<1> USE SessionsAssumption
<1>0. /\ sessions[s] \in SessionRow /\ agents[s] \in Agent /\ polls[s] \in Poll
      /\ agents[s].failures \in 0..MaxFailures /\ agents[s].clean \in BOOLEAN
      /\ agents[s].tasks \subseteq Jobs /\ sessions[s].expires \in Nat
  BY SessionsFields
<1>1. ASSUME NEW t \in Nows, RegisterSession(s, t) \/ HeartbeatSession(s, t)
      PROVE  SessionsTypeOK'
  <2>1. t \in Nat
    BY NowsAreNat
  <2>2. HeartbeatRow(s, t) \in SessionRow
    BY <1>0, <2>1 DEF HeartbeatRow, SessionRow
  <2>3. sessions' \in [Sessions -> SessionRow]
    BY <1>1, <2>1, <2>2 DEF RegisterSession, HeartbeatSession, SessionsTypeOK, SessionRow
  <2>4. agents' \in [Sessions -> Agent]
    <3>1. CASE RegisterSession(s, t)
      BY <1>0, <3>1 DEF RegisterSession, SessionsTypeOK, Agent, AgentSteps
    <3>2. CASE HeartbeatSession(s, t)
      <4>1. agents[s].failures + 1 \in 0..MaxFailures /\ 0 \in 0..MaxFailures
        BY <1>0, <3>2 DEF HeartbeatSession
      <4>2. PICK n \in 0..MaxFailures, b \in BOOLEAN :
              agents' = [agents EXCEPT ![s] = [agents[s] EXCEPT !.failures = n, !.clean = b]]
        BY <3>2, <4>1, Zenon DEF HeartbeatSession
      <4>3. [agents[s] EXCEPT !.failures = n, !.clean = b] \in Agent
        BY <1>0 DEF Agent
      <4> QED
        BY <4>2, <4>3 DEF SessionsTypeOK
    <3> QED
      BY <1>1, <3>1, <3>2
  <2> QED
    BY <1>1, <2>3, <2>4 DEF RegisterSession, HeartbeatSession, SessionsTypeOK
<1>2. ASSUME NEW j \in Jobs, NEW t \in Nows, HeartbeatClaim(s, j, t)
      PROVE  SessionsTypeOK'
  <2>1. PICK b \in BOOLEAN : claims' = [claims EXCEPT ![j] = [Granted(s, t) EXCEPT !.late = b]]
    BY <1>2, Zenon DEF HeartbeatClaim
  <2>2. [Granted(s, t) EXCEPT !.late = b] \in ClaimRow
    BY NowsAreNat DEF Granted, ClaimRow
  <2>3. claims' \in [Jobs -> ClaimRow]
    BY <2>1, <2>2 DEF SessionsTypeOK
  <2> QED
    BY <1>2, <2>3 DEF HeartbeatClaim, SessionsTypeOK
<1>3. ASSUME NEW j \in Jobs, NEW closed \in BOOLEAN, TaskEnds(s, j, closed)
      PROVE  SessionsTypeOK'
  <2>1. NoClaim \in ClaimRow
    BY DEF ClaimRow, NoClaim
  <2>2. claims' \in [Jobs -> ClaimRow]
    BY <1>3, <2>1 DEF TaskEnds, SessionsTypeOK
  <2>3. agents' \in [Sessions -> Agent]
    <3>1. PICK b \in BOOLEAN :
            agents' = [agents EXCEPT ![s] = [agents[s] EXCEPT !.tasks = @ \ {j}, !.clean = b]]
      BY <1>3, Zenon DEF TaskEnds
    <3>2. [agents[s] EXCEPT !.tasks = @ \ {j}, !.clean = b] \in Agent
      BY <1>0 DEF Agent
    <3> QED
      BY <3>1, <3>2 DEF SessionsTypeOK
  <2> QED
    BY <1>3, <2>2, <2>3 DEF TaskEnds, SessionsTypeOK
<1>4. CASE Acquire(s)
  BY <1>0, <1>4 DEF Acquire, SessionsTypeOK, Agent, AgentSteps, Poll
<1>5. CASE Acquired(s)
  <2>1. agents' \in [Sessions -> Agent]
    <3>1. polls[s].job # None => polls[s].job \in Jobs
      BY SessionsFields
    <3>2. PICK pc \in AgentSteps, S \in SUBSET Jobs :
            agents' = [agents EXCEPT ![s] = [agents[s] EXCEPT !.pc = pc, !.tasks = S]]
      BY <1>0, <1>5, <3>1, Zenon DEF Acquired, AgentSteps
    <3>3. [agents[s] EXCEPT !.pc = pc, !.tasks = S] \in Agent
      BY <1>0 DEF Agent
    <3> QED
      BY <3>2, <3>3 DEF SessionsTypeOK
  <2>2. polls' \in [Sessions -> Poll]
    BY <1>0, <1>5 DEF Acquired, SessionsTypeOK, Poll
  <2> QED
    BY <1>5, <2>1, <2>2 DEF Acquired, SessionsTypeOK
<1>6. CASE AcquireFails(s)
  <2>1. agents' \in [Sessions -> Agent]
    BY <1>0, <1>6 DEF AcquireFails, SessionsTypeOK, Agent, AgentSteps
  <2>2. polls' \in [Sessions -> Poll]
    <3>1. PICK b \in BOOLEAN :
            polls' = [polls EXCEPT ![s] =
              [polls[s] EXCEPT !.state = "none", !.job = None, !.orphan = b]]
      BY <1>6, Zenon DEF AcquireFails
    <3>2. [polls[s] EXCEPT !.state = "none", !.job = None, !.orphan = b] \in Poll
      BY <1>0 DEF Poll
    <3> QED
      BY <3>1, <3>2 DEF SessionsTypeOK
  <2> QED
    BY <1>6, <2>1, <2>2 DEF AcquireFails, SessionsTypeOK
<1>7. CASE Shutdown(s) \/ SessionLost(s) \/ DrainSession(s) \/ Exit(s)
  <2>1. Drained[s] \in SessionRow
    BY <1>0 DEF Drained, SessionRow
  <2>2. sessions' \in [Sessions -> SessionRow]
    BY <1>7, <2>1 DEF Shutdown, SessionLost, DrainSession, Exit, SessionsTypeOK
  <2>3. agents' \in [Sessions -> Agent]
    <3>1. /\ [agents[s] EXCEPT !.pc = "closing"] \in Agent
          /\ [agents[s] EXCEPT !.pc = "leaving"] \in Agent
          /\ [agents[s] EXCEPT !.pc = "exited"] \in Agent
          /\ [agents[s] EXCEPT !.stopping = TRUE] \in Agent
          /\ [agents[s] EXCEPT !.pc = "closing", !.stopping = TRUE] \in Agent
          /\ [agents[s] EXCEPT !.pc = "closing", !.stopping = TRUE, !.clean = FALSE] \in Agent
      BY <1>0 DEF Agent, AgentSteps
    <3>2. PICK a \in Agent : agents' = [agents EXCEPT ![s] = a]
      BY <1>7, <3>1, Zenon DEF Shutdown, SessionLost, DrainSession, Exit
    <3> QED
      BY <3>2 DEF SessionsTypeOK
  <2> QED
    BY <1>7, <2>2, <2>3 DEF Shutdown, SessionLost, DrainSession, Exit, SessionsTypeOK
<1> QED
  BY <1>1, <1>2, <1>3, <1>4, <1>5, <1>6, <1>7 DEF AgentStep

\* A claim that is not granted now occupies a slot only if it did before.
LEMMA OccupiedShrinks ==
  ASSUME SessionsTypeOK, NEW s \in Sessions, clock' = clock \/ clock' = clock + 1,
         \A j \in Jobs :
           \/ claims'[j] = claims[j]
           \/ claims'[j] = NoClaim
           \/ /\ claims'[j].session = claims[j].session
              /\ ~claims'[j].late => ~claims[j].late /\ claims[j].lease > clock
  PROVE  Occupied(s)' \subseteq Occupied(s)
<1>1. None # s
  BY SessionsAssumption
<1>2. SUFFICES ASSUME NEW j \in Jobs, claims'[j].session = s, claims'[j].lease > clock',
                      ~claims'[j].late
               PROVE  claims[j].session = s /\ claims[j].lease > clock /\ ~claims[j].late
  BY DEF Occupied, Counted, Running
<1>3. claims'[j] # NoClaim
  BY <1>1, <1>2 DEF NoClaim
<1>4. clock \in Nat /\ claims[j].lease \in Nat
  BY SessionsFields DEF SessionsTypeOK
<1> QED
  BY <1>2, <1>3, <1>4

\* The slots: only try_claim fills one, and it counted at least what is counted
\* now, because its clock is not ahead.
LEMMA SlotStep ==
  ASSUME SessionsTypeOK, SlotCeiling, SessionsNext
  PROVE  SlotCeiling'
<1>0. clock \in Nat /\ Slots \in Nat
  BY SessionsAssumption DEF SessionsTypeOK
<1>1. ASSUME \A s \in Sessions : Occupied(s)' \subseteq Occupied(s)
      PROVE  SlotCeiling'
  <2>1. ASSUME NEW s \in Sessions
        PROVE  Cardinality(Occupied(s)') <= Slots
    <3>1. Occupied(s) \subseteq Jobs /\ Occupied(s)' \subseteq Occupied(s)
      BY <1>1 DEF Occupied, Counted, Running
    <3>2. /\ Cardinality(Occupied(s)') <= Cardinality(Occupied(s))
          /\ Cardinality(Occupied(s)') \in Nat /\ Cardinality(Occupied(s)) \in Nat
      BY <3>1, JobSets
    <3>3. Cardinality(Occupied(s)) <= Slots
      BY DEF SlotCeiling
    <3> QED
      BY <1>0, <3>2, <3>3
  <2> QED
    BY <2>1 DEF SlotCeiling
<1>2. ASSUME NEW s \in Sessions, NEW t \in Nows, NEW j \in Jobs, TryClaim(s, j, t)
      PROVE  SlotCeiling'
  <2>1. /\ claims' = [claims EXCEPT ![j] = Granted(s, t)] /\ UNCHANGED clock
        /\ claims \in [Jobs -> ClaimRow] /\ t \in Nat /\ t <= clock
        /\ claims[j].session = None
    BY <1>2, NowsAreNat DEF TryClaim, SessionsTypeOK
  <2>2. \A k \in Jobs : k # j => claims'[k] = claims[k]
    BY <2>1
  <2>3. claims'[j].session = s
    BY <2>1 DEF Granted
  <2>4. ASSUME NEW r \in Sessions, r # s
        PROVE  Occupied(r)' \subseteq Occupied(r)
    BY <2>1, <2>2, <2>3, <2>4 DEF Occupied, Counted, Running
  <2>5. Occupied(s)' \subseteq Counted(s, t) \cup {j}
    <3> SUFFICES ASSUME NEW k \in Jobs, k # j, claims'[k].session = s, claims'[k].lease > clock'
                 PROVE  claims[k].session = s /\ claims[k].lease > t
      BY DEF Occupied, Counted, Running
    <3>1. claims[k].lease \in Nat
      BY SessionsFields
    <3> QED
      BY <1>0, <2>1, <2>2, <3>1
  <2>6. Counted(s, t) \subseteq Jobs
    BY DEF Counted, Running
  <2>7. IsFiniteSet(Counted(s, t)) /\ Cardinality(Counted(s, t)) \in Nat
    BY <2>6, JobSets
  <2>8. Cardinality(Counted(s, t) \cup {j}) <= Slots
    <3>1. Cardinality(Counted(s, t)) < Slots
      BY <1>2 DEF TryClaim
    <3>2. Cardinality(Counted(s, t) \cup {j}) \in
            {Cardinality(Counted(s, t)), Cardinality(Counted(s, t)) + 1}
      BY <2>7, FS_AddElement
    <3> QED
      BY <1>0, <2>7, <3>1, <3>2
  <2>9. Cardinality(Occupied(s)') <= Slots
    <3>1. Counted(s, t) \cup {j} \subseteq Jobs
      BY <2>6
    <3>2. /\ Cardinality(Occupied(s)') <= Cardinality(Counted(s, t) \cup {j})
          /\ Cardinality(Occupied(s)') \in Nat
          /\ Cardinality(Counted(s, t) \cup {j}) \in Nat
      BY <2>5, <3>1, JobSets
    <3> QED
      BY <1>0, <2>8, <3>2
  <2>10. ASSUME NEW r \in Sessions, r # s
         PROVE  Cardinality(Occupied(r)') <= Slots
    <3>1. Occupied(r) \subseteq Jobs /\ Occupied(r)' \subseteq Occupied(r)
      BY <2>4, <2>10 DEF Occupied, Counted, Running
    <3>2. /\ Cardinality(Occupied(r)') <= Cardinality(Occupied(r))
          /\ Cardinality(Occupied(r)') \in Nat /\ Cardinality(Occupied(r)) \in Nat
      BY <3>1, JobSets
    <3>3. Cardinality(Occupied(r)) <= Slots
      BY DEF SlotCeiling
    <3> QED
      BY <1>0, <3>2, <3>3
  <2> QED
    BY <2>9, <2>10 DEF SlotCeiling
<1>3. ASSUME UNCHANGED claims, clock' = clock \/ clock' = clock + 1
      PROVE  SlotCeiling'
  BY <1>1, <1>3, OccupiedShrinks
<1>4. CASE SessionsTick
  BY <1>3, <1>4 DEF SessionsTick, Ticks
<1>5. ASSUME NEW t \in Nows, SweepSessions(t) \/ SweepClaims(t)
      PROVE  SlotCeiling'
  <2>1. UNCHANGED clock /\ \A j \in Jobs : claims'[j] = claims[j] \/ claims'[j] = NoClaim
    BY <1>5 DEF SweepSessions, SweepClaims
  <2> QED
    BY <1>1, <2>1, OccupiedShrinks
<1>6. ASSUME NEW s \in Sessions, NEW t \in Nows, PollEnds(s, t)
      PROVE  SlotCeiling'
  BY <1>3, <1>6 DEF PollEnds
<1>7. ASSUME NEW s \in Sessions, NEW j \in Jobs, NEW t \in Nows, HeartbeatClaim(s, j, t)
      PROVE  SlotCeiling'
  <2>1. /\ UNCHANGED clock /\ claims[j].session = s /\ claims \in [Jobs -> ClaimRow]
        /\ claims' = [claims EXCEPT ![j] = [Granted(s, t) EXCEPT
                        !.late = claims[j].late \/ claims[j].lease <= clock]]
    BY <1>7 DEF HeartbeatClaim, SessionsTypeOK
  <2>2. \A k \in Jobs : k # j => claims'[k] = claims[k]
    BY <2>1
  <2>3. claims'[j].session = claims[j].session
    BY <2>1 DEF Granted
  <2>4. claims'[j].late = (claims[j].late \/ claims[j].lease <= clock)
    BY <2>1, Zenon DEF Granted
  <2>5. ~claims'[j].late => ~claims[j].late /\ claims[j].lease > clock
    <3>1. claims[j].lease \in Nat
      BY SessionsFields
    <3>2. ~claims'[j].late => ~claims[j].late /\ ~(claims[j].lease <= clock)
      BY <2>4, Zenon
    <3> QED
      BY <1>0, <3>1, <3>2
  <2> QED
    BY <1>1, <2>1, <2>2, <2>3, <2>5, OccupiedShrinks
<1>8. ASSUME NEW s \in Sessions, NEW j \in Jobs, NEW closed \in BOOLEAN, TaskEnds(s, j, closed)
      PROVE  SlotCeiling'
  <2>1. UNCHANGED clock /\ \A k \in Jobs : claims'[k] = claims[k] \/ claims'[k] = NoClaim
    BY <1>8 DEF TaskEnds, SessionsTypeOK
  <2> QED
    BY <1>1, <2>1, OccupiedShrinks
<1>9. ASSUME NEW s \in Sessions,
             \/ \E t \in Nows : RegisterSession(s, t) \/ HeartbeatSession(s, t)
             \/ Acquire(s) \/ Acquired(s) \/ AcquireFails(s)
             \/ Shutdown(s) \/ SessionLost(s) \/ DrainSession(s) \/ Exit(s)
      PROVE  SlotCeiling'
  <2>1. UNCHANGED <<clock, claims>>
    BY <1>9 DEF RegisterSession, HeartbeatSession, Acquire, Acquired, AcquireFails, Shutdown,
                SessionLost, DrainSession, Exit
  <2> QED
    BY <1>3, <2>1
<1> QED
  BY <1>2, <1>4, <1>5, <1>6, <1>7, <1>8, <1>9
     DEF SessionsNext, SessionsCore, Maintain, AgentStep

\* What a step of the agent of s leaves alone.
LEMMA OtherAgents ==
  ASSUME SessionsTypeOK, NEW s \in Sessions, AgentStep(s), NEW r \in Sessions, r # s
  PROVE  agents'[r] = agents[r] /\ polls'[r] = polls[r]
<1>1. agents \in [Sessions -> Agent] /\ polls \in [Sessions -> Poll]
  BY DEF SessionsTypeOK
<1>2. UNCHANGED agents \/ \E a : agents' = [agents EXCEPT ![s] = a]
  BY Zenon DEF AgentStep, RegisterSession, HeartbeatSession, HeartbeatClaim, TaskEnds, Acquire,
         Acquired, AcquireFails, Shutdown, SessionLost, DrainSession, Exit
<1>3. UNCHANGED polls \/ \E p : polls' = [polls EXCEPT ![s] = p]
  BY Zenon DEF AgentStep, RegisterSession, HeartbeatSession, HeartbeatClaim, TaskEnds, Acquire,
         Acquired, AcquireFails, Shutdown, SessionLost, DrainSession, Exit
<1> QED
  BY <1>1, <1>2, <1>3

\* The permits: a task is started only with the permit the agent offered.
LEMMA PermitStep ==
  ASSUME SessionsTypeOK, PermitsKept, SessionsNext
  PROVE  PermitsKept'
<1>0. Slots \in Nat /\ agents \in [Sessions -> Agent]
  BY SessionsAssumption DEF SessionsTypeOK
<1>1. CASE UNCHANGED agents
  BY <1>1 DEF PermitsKept
<1>2. ASSUME NEW s \in Sessions, AgentStep(s)
      PROVE  PermitsKept'
  <2>1. /\ agents[s].tasks \subseteq Jobs
        /\ Cardinality(agents[s].tasks) \in Nat /\ IsFiniteSet(agents[s].tasks)
        /\ Cardinality(agents[s].tasks) <= Slots
        /\ agents[s].pc = "acquiring" => Cardinality(agents[s].tasks) < Slots
    BY SessionsFields, JobSets DEF PermitsKept
  <2>2. SUFFICES /\ Cardinality(agents'[s].tasks) <= Slots
                 /\ agents'[s].pc = "acquiring" => Cardinality(agents'[s].tasks) < Slots
    BY <1>2, OtherAgents DEF PermitsKept
  <2>3. ASSUME agents'[s].tasks = agents[s].tasks,
               agents'[s].pc = "acquiring" => Cardinality(agents[s].tasks) < Slots
        PROVE  /\ Cardinality(agents'[s].tasks) <= Slots
               /\ agents'[s].pc = "acquiring" => Cardinality(agents'[s].tasks) < Slots
    BY <2>1, <2>3
  <2>4. CASE \E t \in Nows : RegisterSession(s, t) \/ HeartbeatSession(s, t)
    <3>1. CASE \E t \in Nows : RegisterSession(s, t)
      BY <1>0, <2>1, <2>3, <3>1 DEF RegisterSession, Agent
    <3>2. CASE \E t \in Nows : HeartbeatSession(s, t)
      <4>1. PICK n, b : agents' = [agents EXCEPT ![s] =
                                    [agents[s] EXCEPT !.failures = n, !.clean = b]]
        BY <3>2, Zenon DEF HeartbeatSession
      <4>2. agents'[s].tasks = agents[s].tasks /\ agents'[s].pc = agents[s].pc
        BY <1>0, <4>1 DEF Agent
      <4> QED
        BY <2>1, <2>3, <4>2
    <3> QED
      BY <2>4, <3>1, <3>2
  <2>5. CASE \E j \in Jobs, t \in Nows : HeartbeatClaim(s, j, t)
    BY <2>1, <2>3, <2>5 DEF HeartbeatClaim
  <2>6. ASSUME NEW j \in Jobs, NEW closed \in BOOLEAN, TaskEnds(s, j, closed)
        PROVE  /\ Cardinality(agents'[s].tasks) <= Slots
               /\ agents'[s].pc = "acquiring" => Cardinality(agents'[s].tasks) < Slots
    <3>1. agents'[s].tasks = agents[s].tasks \ {j} /\ agents'[s].pc = agents[s].pc
      BY <1>0, <2>6 DEF TaskEnds, Agent
    <3>2. /\ Cardinality(agents[s].tasks \ {j}) <= Cardinality(agents[s].tasks)
          /\ Cardinality(agents[s].tasks \ {j}) \in Nat
      BY <2>1, JobSets
    <3> QED
      BY <1>0, <2>1, <3>1, <3>2
  <2>7. CASE Acquire(s)
    BY <1>0, <2>1, <2>3, <2>7 DEF Acquire, Agent
  <2>8. CASE Acquired(s)
    <3>1. /\ agents[s].pc = "acquiring" /\ agents'[s].pc # "acquiring"
          /\ \/ agents'[s].tasks = agents[s].tasks
             \/ agents'[s].tasks = agents[s].tasks \cup {polls[s].job}
      BY <1>0, <2>8 DEF Acquired, Agent
    <3>2. Cardinality(agents[s].tasks \cup {polls[s].job}) \in
            {Cardinality(agents[s].tasks), Cardinality(agents[s].tasks) + 1}
      BY <2>1, FS_AddElement
    <3> QED
      BY <1>0, <2>1, <3>1, <3>2
  <2>9. CASE AcquireFails(s) \/ SessionLost(s) \/ DrainSession(s) \/ Exit(s)
    BY <1>0, <2>1, <2>3, <2>9 DEF AcquireFails, SessionLost, DrainSession, Exit, Agent
  <2>10. CASE Shutdown(s)
    BY <1>0, <2>1, <2>3, <2>10 DEF Shutdown, Agent
  <2> QED
    BY <1>2, <2>4, <2>5, <2>6, <2>7, <2>8, <2>9, <2>10 DEF AgentStep
<1> QED
  BY <1>1, <1>2 DEF SessionsNext, SessionsTick, SessionsCore, Maintain, SweepSessions, SweepClaims,
                    PollEnds, TryClaim

\* HeldInv for one session, so that a step is judged for its own session and
\* for the others apart.
Held(s) ==
  agents[s].clean =>
    /\ agents[s].failures = 0
    /\ ~polls[s].orphan
    /\ polls[s].state # "none" => agents[s].pc = "acquiring"
    /\ \A j \in Running(s) :
         \/ j \in agents[s].tasks
         \/ polls[s].state = "answered" /\ polls[s].job = j

\* A step that leaves agent and poll alone and grants the session nothing.
LEMMA HeldKept ==
  ASSUME NEW s \in Sessions, Held(s), agents'[s] = agents[s], polls'[s] = polls[s],
         \A j \in Jobs : claims'[j].session = s => claims[j].session = s
  PROVE  Held(s)'
  BY DEF Held, Running

\* Core's steps: the session that is granted a claim has a poll open for it.
LEMMA HeldCore ==
  ASSUME SessionsTypeOK, HeldInv, SessionsCore
  PROVE  HeldInv'
<1>0. /\ claims \in [Jobs -> ClaimRow] /\ polls \in [Sessions -> Poll]
      /\ None \notin Sessions /\ None \notin Jobs
  BY SessionsAssumption DEF SessionsTypeOK
<1>1. \A s \in Sessions : Held(s)
  BY DEF HeldInv, Held
<1>2. SUFFICES ASSUME NEW s \in Sessions PROVE Held(s)'
  BY DEF HeldInv, Held
<1>3. ASSUME NEW t \in Nows, SweepSessions(t) \/ SweepClaims(t)
      PROVE  Held(s)'
  <2>1. \A j \in Jobs : claims'[j] = claims[j] \/ claims'[j] = NoClaim
    BY <1>3 DEF SweepSessions, SweepClaims
  <2>2. \A j \in Jobs : claims'[j].session = s => claims[j].session = s
    BY <1>0, <2>1 DEF NoClaim
  <2>3. UNCHANGED <<agents, polls>>
    BY <1>3 DEF SweepSessions, SweepClaims
  <2> QED
    BY <1>1, <2>2, <2>3, HeldKept
<1>4. ASSUME NEW r \in Sessions, NEW state \in {"answered", "refused"}, NEW j \in Jobs \cup {None},
             PollAnswered(r, state, j), UNCHANGED agents,
             \A k \in Jobs : k # j => claims'[k] = claims[k],
             j # None => claims'[j].session = r /\ state = "answered"
      PROVE  Held(s)'
  <2>1. CASE r # s
    <3>1. polls'[s] = polls[s]
      BY <1>0, <1>4, <2>1 DEF PollAnswered
    <3>2. \A k \in Jobs : claims'[k].session = s => claims[k].session = s
      BY <1>0, <1>4, <2>1
    <3> QED
      BY <1>1, <1>4, <3>1, <3>2, HeldKept
  <2>2. CASE r = s
    <3> SUFFICES ASSUME agents'[s].clean PROVE Held(s)'
      BY DEF Held
    <3>1. /\ agents[s].failures = 0 /\ ~polls[s].orphan
          /\ polls[s].state # "none" => agents[s].pc = "acquiring"
          /\ \A k \in Running(s) :
               k \in agents[s].tasks \/ (polls[s].state = "answered" /\ polls[s].job = k)
      <4>1. agents[s].clean
        BY <1>4
      <4> QED
        BY <1>1, <4>1, Zenon DEF Held
    <3>2. /\ polls[s].state = "open"
          /\ polls' = [polls EXCEPT ![s] = [polls[s] EXCEPT !.state = state, !.job = j]]
      BY <1>4, <2>2, <3>1 DEF PollAnswered
    <3>3. ~polls'[s].orphan /\ polls'[s].state = state /\ polls'[s].job = j
      <4>1. polls'[s] = [polls[s] EXCEPT !.state = state, !.job = j]
        BY <1>0, <3>2
      <4>2. polls[s] \in Poll
        BY <1>0
      <4>3. polls'[s].orphan = polls[s].orphan /\ polls'[s].state = state /\ polls'[s].job = j
        BY <4>1, <4>2 DEF Poll
      <4> QED
        BY <3>1, <4>3
    <3>4. \A k \in Running(s)' : k \in agents[s].tasks \/ (k = j /\ state = "answered")
      BY <1>0, <1>4, <2>2, <3>1, <3>2 DEF Running
    <3> QED
      BY <1>4, <3>1, <3>2, <3>3, <3>4 DEF Held
  <2> QED
    BY <2>1, <2>2
<1>5. ASSUME NEW r \in Sessions, NEW t \in Nows, PollEnds(r, t)
      PROVE  Held(s)'
  BY <1>4, <1>5 DEF PollEnds
<1>6. ASSUME NEW r \in Sessions, NEW t \in Nows, NEW j \in Jobs, TryClaim(r, j, t)
      PROVE  Held(s)'
  <2>1. /\ claims' = [claims EXCEPT ![j] = Granted(r, t)]
        /\ PollAnswered(r, "answered", j) /\ UNCHANGED agents
    BY <1>6 DEF TryClaim
  <2>2. claims'[j].session = r /\ \A k \in Jobs : k # j => claims'[k] = claims[k]
    BY <1>0, <2>1 DEF Granted
  <2> QED
    BY <1>4, <2>1, <2>2
<1> QED
  BY <1>3, <1>5, <1>6 DEF SessionsCore, Maintain

\* The agent's steps: it drops an answer, or gives up, only when a call failed.
LEMMA HeldAgent ==
  ASSUME SessionsTypeOK, HeldInv, NEW s \in Sessions, AgentStep(s)
  PROVE  HeldInv'
<1>0. /\ claims \in [Jobs -> ClaimRow] /\ polls \in [Sessions -> Poll]
      /\ agents \in [Sessions -> Agent] /\ None \notin Sessions /\ None \notin Jobs
      /\ agents[s] \in Agent /\ polls[s] \in Poll /\ MaxFailures \in Nat \ {0}
  BY SessionsAssumption DEF SessionsTypeOK
<1>1. \A r \in Sessions : Held(r)
  BY DEF HeldInv, Held
<1>2. \A j \in Jobs : \/ claims'[j].session = claims[j].session
                      \/ claims'[j].session = None
  <2>1. CASE UNCHANGED claims
    BY <2>1
  <2>2. ASSUME NEW j \in Jobs, NEW t \in Nows, HeartbeatClaim(s, j, t)
        PROVE  \A k \in Jobs : claims'[k].session = claims[k].session
    <3>1. PICK b : claims' = [claims EXCEPT ![j] = [Granted(s, t) EXCEPT !.late = b]]
      BY <2>2, Zenon DEF HeartbeatClaim
    <3>2. claims[j].session = s
      BY <2>2 DEF HeartbeatClaim
    <3> QED
      BY <1>0, <3>1, <3>2 DEF Granted
  <2>3. CASE \E j \in Jobs, closed \in BOOLEAN : TaskEnds(s, j, closed)
    BY <1>0, <2>3 DEF TaskEnds, NoClaim
  <2>4. \/ UNCHANGED claims
        \/ \E j \in Jobs, t \in Nows : HeartbeatClaim(s, j, t)
        \/ \E j \in Jobs, closed \in BOOLEAN : TaskEnds(s, j, closed)
    BY DEF AgentStep, RegisterSession, HeartbeatSession, Acquire, Acquired, AcquireFails,
           Shutdown, SessionLost, DrainSession, Exit
  <2> QED
    BY <2>1, <2>2, <2>3, <2>4
<1>3. \A r \in Sessions, j \in Jobs : claims'[j].session = r => claims[j].session = r
  BY <1>0, <1>2
<1>4. ASSUME NEW r \in Sessions, r # s
      PROVE  Held(r)'
  BY <1>1, <1>3, <1>4, OtherAgents, HeldKept
<1>5. SUFFICES ASSUME agents'[s].clean PROVE Held(s)'
  BY <1>4 DEF HeldInv, Held
<1>6. Running(s)' \subseteq Running(s)
  BY <1>3 DEF Running
<1>7. ASSUME agents[s].clean
      PROVE  /\ agents[s].failures = 0
             /\ ~polls[s].orphan
             /\ polls[s].state # "none" => agents[s].pc = "acquiring"
             /\ \A j \in Running(s) :
                  j \in agents[s].tasks \/ (polls[s].state = "answered" /\ polls[s].job = j)
  BY <1>1, <1>7, Zenon DEF Held
<1>8. ASSUME agents[s].clean, agents'[s].failures = 0, polls'[s] = polls[s],
             agents'[s].tasks = agents[s].tasks,
             \/ agents'[s].pc = agents[s].pc
             \/ agents[s].pc # "acquiring"
      PROVE  Held(s)'
  BY <1>6, <1>7, <1>8 DEF Held
<1>9. ASSUME NEW t \in Nows, RegisterSession(s, t)
      PROVE  Held(s)'
  <2>1. /\ agents' = [agents EXCEPT ![s] = [agents[s] EXCEPT !.pc = "looping"]]
        /\ agents[s].pc = "off" /\ UNCHANGED polls
    BY <1>9 DEF RegisterSession
  <2>2. /\ agents'[s].clean = agents[s].clean /\ agents'[s].failures = agents[s].failures
        /\ agents'[s].tasks = agents[s].tasks
    BY <1>0, <2>1 DEF Agent
  <2> QED
    BY <1>5, <1>7, <1>8, <2>1, <2>2
<1>10. ASSUME NEW t \in Nows, HeartbeatSession(s, t)
       PROVE  Held(s)'
  <2>1. PICK n, b :
          /\ agents' = [agents EXCEPT ![s] = [agents[s] EXCEPT !.failures = n, !.clean = b]]
          /\ b => agents[s].clean /\ n = 0
    BY <1>10, Zenon DEF HeartbeatSession
  <2>2. /\ agents'[s].tasks = agents[s].tasks /\ agents'[s].pc = agents[s].pc
        /\ agents'[s].failures = n /\ agents'[s].clean = b
    BY <1>0, <2>1 DEF Agent
  <2>3. agents[s].clean /\ n = 0
    BY <1>5, <2>1, <2>2
  <2>4. UNCHANGED polls
    BY <1>10 DEF HeartbeatSession
  <2> QED
    BY <1>8, <2>2, <2>3, <2>4
<1>11. ASSUME NEW j \in Jobs, NEW t \in Nows, HeartbeatClaim(s, j, t)
       PROVE  Held(s)'
  <2>1. UNCHANGED <<agents, polls>>
    BY <1>11 DEF HeartbeatClaim
  <2>2. agents'[s] = agents[s] /\ polls'[s] = polls[s]
    BY <2>1
  <2>3. \A k \in Jobs : claims'[k].session = s => claims[k].session = s
    BY <1>3
  <2> QED
    BY <1>1, <2>2, <2>3, HeldKept
<1>12. ASSUME NEW j \in Jobs, NEW closed \in BOOLEAN, TaskEnds(s, j, closed)
       PROVE  Held(s)'
  <2>1. PICK b :
          /\ agents' = [agents EXCEPT ![s] = [agents[s] EXCEPT !.tasks = @ \ {j}, !.clean = b]]
          /\ b => agents[s].clean /\ closed
    BY <1>12, Zenon DEF TaskEnds
  <2>2. /\ agents'[s].tasks = agents[s].tasks \ {j} /\ agents'[s].pc = agents[s].pc
        /\ agents'[s].failures = agents[s].failures /\ agents'[s].clean = b
    BY <1>0, <2>1 DEF Agent
  <2>3. agents[s].clean /\ closed
    BY <1>5, <2>1, <2>2
  <2>4. UNCHANGED polls
    BY <1>12 DEF TaskEnds
  <2>5. j \notin Running(s)'
    BY <1>0, <1>12, <2>3 DEF TaskEnds, Running, NoClaim
  <2> QED
    BY <1>6, <1>7, <2>2, <2>3, <2>4, <2>5 DEF Held
<1>13. CASE Acquire(s)
  <2>1. /\ agents' = [agents EXCEPT ![s] = [agents[s] EXCEPT !.pc = "acquiring"]]
        /\ polls' = [polls EXCEPT ![s] = [polls[s] EXCEPT !.state = "open", !.job = None]]
        /\ agents[s].pc = "looping"
    BY <1>13 DEF Acquire
  <2>2. /\ agents'[s].clean = agents[s].clean /\ agents'[s].failures = agents[s].failures
        /\ agents'[s].tasks = agents[s].tasks /\ agents'[s].pc = "acquiring"
        /\ polls'[s].orphan = polls[s].orphan /\ polls'[s].state = "open"
    BY <1>0, <2>1 DEF Agent, Poll, AgentSteps
  <2> QED
    BY <1>5, <1>6, <1>7, <2>1, <2>2 DEF Held
<1>14. CASE Acquired(s)
  <2>1. PICK pc, S :
          /\ agents' = [agents EXCEPT ![s] = [agents[s] EXCEPT !.pc = pc, !.tasks = S]]
          /\ S = IF polls[s].job # None THEN agents[s].tasks \cup {polls[s].job}
                                        ELSE agents[s].tasks
    BY <1>14, Zenon DEF Acquired
  <2>2. polls' = [polls EXCEPT ![s] = [polls[s] EXCEPT !.state = "none", !.job = None]]
    BY <1>14 DEF Acquired
  <2>3. /\ agents'[s].clean = agents[s].clean /\ agents'[s].failures = agents[s].failures
        /\ agents'[s].tasks = S
        /\ polls'[s].orphan = polls[s].orphan /\ polls'[s].state = "none"
    BY <1>0, <2>1, <2>2 DEF Agent, Poll
  <2>4. \A j \in Running(s) : j # None
    BY <1>0 DEF Running
  <2> QED
    BY <1>5, <1>6, <1>7, <2>1, <2>3, <2>4 DEF Held
<1>15. CASE AcquireFails(s)
  <2>1. ~agents'[s].clean
    BY <1>0, <1>15 DEF AcquireFails, Agent
  <2> QED
    BY <1>5, <2>1
<1>16. CASE Shutdown(s)
  <2>0. UNCHANGED polls
    BY <1>16 DEF Shutdown
  <2>1. CASE /\ agents[s].pc = "looping"
             /\ agents' = [agents EXCEPT ![s] =
                             [agents[s] EXCEPT !.pc = "closing", !.stopping = TRUE]]
    <3>1. /\ agents'[s].clean = agents[s].clean /\ agents'[s].failures = agents[s].failures
          /\ agents'[s].tasks = agents[s].tasks
      BY <1>0, <2>1 DEF Agent
    <3> QED
      BY <1>5, <1>7, <1>8, <2>0, <2>1, <3>1
  <2>2. CASE agents' = [agents EXCEPT ![s] = [agents[s] EXCEPT !.stopping = TRUE]]
    <3>1. /\ agents'[s].clean = agents[s].clean /\ agents'[s].failures = agents[s].failures
          /\ agents'[s].tasks = agents[s].tasks /\ agents'[s].pc = agents[s].pc
      BY <1>0, <2>2 DEF Agent
    <3> QED
      BY <1>5, <1>7, <1>8, <2>0, <3>1
  <2>3. CASE agents' = [agents EXCEPT ![s] = [agents[s] EXCEPT
                          !.pc = "closing", !.stopping = TRUE, !.clean = FALSE]]
    <3>1. ~agents'[s].clean
      BY <1>0, <2>3 DEF Agent
    <3> QED
      BY <1>5, <3>1
  <2> QED
    BY <1>16, <2>1, <2>2, <2>3 DEF Shutdown
<1>17. CASE SessionLost(s)
  <2>1. agents' = [agents EXCEPT ![s] = [agents[s] EXCEPT !.pc = "closing"]]
    BY <1>17 DEF SessionLost
  <2>2. agents'[s].clean = agents[s].clean
    BY <1>0, <2>1 DEF Agent
  <2>3. agents[s].failures # 0
    BY <1>0, <1>17 DEF SessionLost, Lost
  <2> QED
    BY <1>5, <1>7, <2>2, <2>3
<1>18. CASE DrainSession(s) \/ Exit(s)
  <2>1. PICK pc : agents' = [agents EXCEPT ![s] = [agents[s] EXCEPT !.pc = pc]]
    BY <1>18, Zenon DEF DrainSession, Exit
  <2>2. /\ agents'[s].clean = agents[s].clean /\ agents'[s].failures = agents[s].failures
        /\ agents'[s].tasks = agents[s].tasks
    BY <1>0, <2>1 DEF Agent
  <2>3. agents[s].pc # "acquiring" /\ UNCHANGED polls
    BY <1>18 DEF DrainSession, Exit
  <2> QED
    BY <1>5, <1>7, <1>8, <2>2, <2>3
<1> QED
  BY <1>9, <1>10, <1>11, <1>12, <1>13, <1>14, <1>15, <1>16, <1>17, <1>18 DEF AgentStep

LEMMA ExitStep ==
  ASSUME SessionsTypeOK, ExitInv, SessionsNext
  PROVE  ExitInv'
<1>1. CASE SessionsTick \/ SessionsCore
  BY <1>1 DEF SessionsTick, SessionsCore, Maintain, SweepSessions, SweepClaims, PollEnds, TryClaim,
              ExitInv
<1>2. ASSUME NEW s \in Sessions, AgentStep(s)
      PROVE  ExitInv'
  <2>1. \A r \in Sessions \ {s} : agents'[r] = agents[r]
    BY <1>2, OtherAgents
  <2>2. agents[s] \in Agent /\ agents \in [Sessions -> Agent]
    BY DEF SessionsTypeOK
  <2>3. agents'[s].pc = "exited" => agents'[s].tasks = {}
    <3>1. CASE \E t \in Nows : RegisterSession(s, t)
      BY <2>2, <3>1 DEF RegisterSession, Agent
    <3>2. CASE \E t \in Nows : HeartbeatSession(s, t)
      <4>1. PICK f, c : agents' = [agents EXCEPT ![s] =
                           [agents[s] EXCEPT !.failures = f, !.clean = c]]
        BY <3>2, Zenon DEF HeartbeatSession
      <4>2. agents[s].pc # "exited"
        BY <3>2 DEF HeartbeatSession
      <4> QED
        BY <2>2, <4>1, <4>2 DEF Agent
    <3>3. CASE \E j \in Jobs, t \in Nows : HeartbeatClaim(s, j, t)
      BY <3>3 DEF HeartbeatClaim, ExitInv
    <3>4. CASE \E j \in Jobs, closed \in BOOLEAN : TaskEnds(s, j, closed)
      <4>1. agents'[s].pc = agents[s].pc /\ agents'[s].tasks \subseteq agents[s].tasks
        BY <2>2, <3>4 DEF TaskEnds, Agent
      <4> QED
        BY <4>1 DEF ExitInv
    <3>5. CASE Acquire(s) \/ Acquired(s) \/ AcquireFails(s)
      <4>1. agents'[s].pc # "exited"
        <5>1. CASE Acquire(s)
          BY <2>2, <5>1 DEF Acquire, Agent
        <5>2. CASE Acquired(s)
          <6>1. PICK pc, S :
                  /\ agents' = [agents EXCEPT ![s] = [agents[s] EXCEPT !.pc = pc, !.tasks = S]]
                  /\ pc = IF agents[s].stopping THEN "closing" ELSE "looping"
            BY <5>2, Zenon DEF Acquired
          <6> QED
            BY <2>2, <6>1 DEF Agent
        <5>3. CASE AcquireFails(s)
          BY <2>2, <5>3 DEF AcquireFails, Agent
        <5> QED
          BY <3>5, <5>1, <5>2, <5>3
      <4> QED
        BY <4>1
    <3>6. CASE Shutdown(s)
      <4>1. agents'[s].pc # "exited"
        <5>1. CASE agents' = [agents EXCEPT ![s] =
                                [agents[s] EXCEPT !.pc = "closing", !.stopping = TRUE]]
          BY <2>2, <5>1 DEF Agent
        <5>2. CASE /\ agents[s].pc = "acquiring"
                   /\ agents' = [agents EXCEPT ![s] = [agents[s] EXCEPT !.stopping = TRUE]]
          BY <2>2, <5>2 DEF Agent
        <5>3. CASE agents' = [agents EXCEPT ![s] = [agents[s] EXCEPT
                                !.pc = "closing", !.stopping = TRUE, !.clean = FALSE]]
          BY <2>2, <5>3 DEF Agent
        <5> QED
          BY <3>6, <5>1, <5>2, <5>3 DEF Shutdown
      <4> QED
        BY <4>1
    <3>7. CASE SessionLost(s) \/ DrainSession(s)
      <4>1. agents'[s].pc # "exited"
        BY <2>2, <3>7 DEF SessionLost, DrainSession, Agent
      <4> QED
        BY <4>1
    <3>8. CASE Exit(s)
      BY <2>2, <3>8 DEF Exit, Agent
    <3> QED
      BY <1>2, <3>1, <3>2, <3>3, <3>4, <3>5, <3>6, <3>7, <3>8 DEF AgentStep
  <2> QED
    BY <2>1, <2>3 DEF ExitInv
<1> QED
  BY <1>1, <1>2 DEF SessionsNext

LEMMA SessionsInitInv ==
  ASSUME SessionsInit
  PROVE  SessionsIInv
<1> USE SessionsAssumption
<1>1. SessionsTypeOK
  <2>1. NoClaim \in ClaimRow
    BY DEF NoClaim, ClaimRow
  <2>2. NoAgent \in Agent
    BY DEF NoAgent, Agent, AgentSteps
  <2>3. NoPoll \in Poll
    BY DEF NoPoll, Poll
  <2>4. [state |-> "none", expires |-> 0] \in SessionRow
    BY DEF SessionRow
  <2> QED
    BY <2>1, <2>2, <2>3, <2>4, Zenon DEF SessionsInit, SessionsTypeOK
<1>2. \A s \in Sessions : Running(s) = {} /\ Occupied(s) = {}
  BY DEF SessionsInit, Running, Counted, Occupied, NoClaim
<1>3. Cardinality({}) = 0
  BY FS_EmptySet
<1>4. SlotCeiling
  BY <1>2, <1>3 DEF SlotCeiling
<1>5. PermitsKept
  <2>1. \A s \in Sessions : agents[s].tasks = {} /\ agents[s].pc = "off"
    BY DEF SessionsInit, NoAgent
  <2> QED
    BY <1>3, <2>1 DEF PermitsKept
<1>6. HeldInv
  <2> SUFFICES ASSUME NEW s \in Sessions
               PROVE  /\ agents[s].failures = 0
                      /\ polls[s].orphan = FALSE /\ polls[s].state = "none"
    BY <1>2 DEF HeldInv
  <2>1. agents[s] = NoAgent /\ polls[s] = NoPoll
    BY DEF SessionsInit
  <2> QED
    BY <2>1 DEF NoAgent, NoPoll
<1>7. ExitInv
  BY DEF SessionsInit, ExitInv, NoAgent
<1> QED
  BY <1>1, <1>4, <1>5, <1>6, <1>7 DEF SessionsIInv

\* The inductive invariant of the sessions, their claims and their agents.
THEOREM SessionsInvariance == SessionsSpec => []SessionsIInv
<1>1. SessionsInit => SessionsIInv
  BY SessionsInitInv
<1>2. SessionsIInv /\ [SessionsNext]_sessionsVars => SessionsIInv'
  <2> SUFFICES ASSUME SessionsIInv, [SessionsNext]_sessionsVars PROVE SessionsIInv'
    OBVIOUS
  <2>1. CASE UNCHANGED sessionsVars
    BY <2>1 DEF sessionsVars, SessionsIInv, SessionsTypeOK, SlotCeiling, Occupied, Counted, Running,
                PermitsKept, HeldInv, ExitInv
  <2>2. CASE SessionsNext
    <3>1. SessionsTypeOK'
      <4>1. CASE SessionsTick
        BY <4>1 DEF SessionsTick, Ticks, SessionsIInv, SessionsTypeOK
      <4> QED
        BY <2>2, <4>1, SessionsCoreType, AgentStepType DEF SessionsNext, SessionsIInv
    <3>2. SlotCeiling'
      BY <2>2, SlotStep DEF SessionsIInv
    <3>3. PermitsKept'
      BY <2>2, PermitStep DEF SessionsIInv
    <3>4. HeldInv'
      <4>1. CASE SessionsTick
        BY <4>1 DEF SessionsTick, SessionsIInv, HeldInv, Running
      <4> QED
        BY <2>2, <4>1, HeldCore, HeldAgent DEF SessionsNext, SessionsIInv
    <3>5. ExitInv'
      BY <2>2, ExitStep DEF SessionsIInv
    <3> QED
      BY <3>1, <3>2, <3>3, <3>4, <3>5 DEF SessionsIInv
  <2> QED
    BY <2>1, <2>2
<1> QED
  BY <1>1, <1>2, PTL DEF SessionsSpec

\* A session never holds more unexpired claims than its slots, whatever try_claim
\* and heartbeat_claim do at once, apart from claims that were renewed too late.
THEOREM SlotsAreKept == SessionsSpec => []SlotCeiling
<1>1. SessionsIInv => SlotCeiling
  BY DEF SessionsIInv
<1> QED
  BY <1>1, SessionsInvariance, PTL

\* The agent never works on more claims than its semaphore has permits, and
\* never offers one that is in use.
THEOREM TasksFitPermits == SessionsSpec => []PermitsKept
<1>1. SessionsIInv => PermitsKept
  BY DEF SessionsIInv
<1> QED
  BY <1>1, SessionsInvariance, PTL

\* A graceful shutdown of run_agent_with_processors strands no claim.
THEOREM ShutdownStrandsNothing == SessionsSpec => []NothingStranded
<1>1. ASSUME SessionsIInv
      PROVE  NothingStranded
  <2> SUFFICES ASSUME NEW s \in Sessions, agents[s].pc = "exited", agents[s].clean
               PROVE  Running(s) = {}
    BY DEF NothingStranded
  <2>1. agents[s].tasks = {}
    BY <1>1 DEF SessionsIInv, ExitInv
  <2>2. polls[s].state = "none"
    BY <1>1 DEF SessionsIInv, HeldInv
  <2> QED
    BY <1>1, <2>1, <2>2 DEF SessionsIInv, HeldInv
<1> QED
  BY <1>1, SessionsInvariance, PTL

=============================================================================
