----------------------------- MODULE WorkerAgent -----------------------------
(***************************************************************************)
(* One claim as the processing SDK works on it (workers/processing-sdk):   *)
(* the task of execute_claim, its LeaseGuard, the heartbeats between the   *)
(* two and Core, and the claim row in Core that both are about.            *)
(*                                                                         *)
(* The guard knows the lease only from what Core confirmed to it, and the  *)
(* answer took time to arrive: it measures the lease from the arrival and  *)
(* gives up CLAIM_RENEWAL_MARGIN earlier.  An answer may take as long as   *)
(* the HTTP client waits, which is more than the margin, and the first     *)
(* expiry is compared with the host's own clock, however wrong that is.    *)
(* Timers fire and a killed sandbox ends within one unit of time.          *)
(***************************************************************************)
EXTENDS WorkerCommon

CONSTANTS
  Lease,      \* claim_lease
  Grace,      \* seconds granted after a cancellation request
  Margin,     \* CLAIM_RENEWAL_MARGIN
  Timeout,    \* of the HTTP client: how long an answer of Core may be on its way
  Skews,      \* by how much the clock of the worker's host may be ahead of Core's
  Artifacts   \* how many artifacts the processor returns

ASSUME AgentAssumption ==
  /\ Lease \in Nat \ {0} /\ Grace \in Nat /\ Margin \in Nat
  /\ Timeout \in Nat /\ Skews \subseteq Int
  /\ Artifacts \in Nat \ {0}

VARIABLES
  claim,     \* the attempt row in Core, and the job's cancellation
  guard,     \* the task of claim_heartbeat_loop
  wire,      \* the one heartbeat request or answer on its way
  cancelled, \* the watch channel from the guard to the task
  task,      \* where execute_claim stands
  left       \* artifacts still to upload

agentVars == <<clock, claim, guard, wire, cancelled, task, left>>

ClaimStates == {"running", "delivered", "failed", "released", "lost"}

\* `again` tells that the job was handed to another worker afterwards.
Claim == [state: ClaimStates, lease: Nat, cancel: BOOLEAN, again: BOOLEAN]

\* stopAt is the instant of the guard's timer, confirmed the last expiry that
\* Core reported to it.  late is history: for how long the answer with that
\* expiry was on its way, or, if more, how far the host's clock was behind.
Guard == [pc: {"waiting", "asking", "ended"}, stopAt: Nat, confirmed: Nat, late: Int]

Answers == {"active", "cancel", "lost"}
Wire == [kind: {"none", "request"} \cup Answers, at: Nat, lease: Nat]
Silent == [kind |-> "none", at |-> 0, lease |-> 0]

Tasks == {"downloading", "processing", "uploading", "completing", "failing",
          "releasing", "done"}

AgentTypeOK ==
  /\ clock \in Nat
  /\ claim \in Claim
  /\ guard \in Guard
  /\ wire \in Wire
  /\ cancelled \in BOOLEAN
  /\ task \in Tasks
  /\ left \in 0..Artifacts

\* std::Duration arithmetic saturates at zero.
Remaining(a, b) == IF a > b THEN a - b ELSE 0

\* The claim was granted at time 0; its answer arrives now.  LeaseGuard::start
\* compares the expiry with the worker's own clock.
AgentInit ==
  /\ clock \in 0..Timeout
  /\ claim = [state |-> "running", lease |-> Lease, cancel |-> FALSE, again |-> FALSE]
  /\ \E skew \in Skews :
       guard = [pc |-> "waiting",
                stopAt |-> clock + Remaining(Remaining(Lease, clock + skew), Margin),
                confirmed |-> Lease,
                late |-> IF clock < -skew THEN -skew ELSE clock]
  /\ wire = Silent
  /\ cancelled = FALSE
  /\ task = "downloading"
  /\ left = Artifacts

-----------------------------------------------------------------------------
(***************************************************************************)
(* Time.                                                                   *)
(***************************************************************************)
Expired == guard.pc # "ended" /\ clock >= guard.stopAt

Killing == task = "processing" /\ cancelled

AgentTick ==
  /\ ~Expired /\ ~Killing
  /\ Ticks
  /\ UNCHANGED <<claim, guard, wire, cancelled, task, left>>

-----------------------------------------------------------------------------
(***************************************************************************)
(* claim_heartbeat_loop.                                                   *)
(***************************************************************************)
\* Fault: the timer ends the heartbeats and does not tell the task.
GuardExpiresSilently ==
  /\ Expired
  /\ guard' = [guard EXCEPT !.pc = "ended"]
  /\ UNCHANGED <<clock, claim, wire, cancelled, task, left>>

\* The timer of the last confirmed lease fires, whether or not a heartbeat is
\* outstanding.
GuardExpires ==
  /\ Expired
  /\ guard' = [guard EXCEPT !.pc = "ended"]
  /\ cancelled' = TRUE
  /\ UNCHANGED <<clock, claim, wire, task, left>>

\* An interval tick: a single attempt, never repeated by the client.
HeartbeatSend ==
  /\ guard.pc = "waiting" /\ ~Expired
  /\ guard' = [guard EXCEPT !.pc = "asking"]
  /\ wire' = [kind |-> "request", at |-> clock, lease |-> 0]
  /\ UNCHANGED <<clock, claim, cancelled, task, left>>

\* Fault: the timer runs to the end of the lease, without the margin.
HeartbeatAnsweredNoMargin ==
  /\ guard.pc = "asking" /\ ~Expired
  /\ wire.kind = "active"
  /\ clock - wire.at <= Timeout
  /\ guard' = [pc |-> "waiting", stopAt |-> clock + (wire.lease - wire.at),
               confirmed |-> wire.lease, late |-> clock - wire.at]
  /\ wire' = Silent
  /\ UNCHANGED <<clock, claim, cancelled, task, left>>

\* The answer arrives: an active lease restarts the timer, anything else ends
\* the work.
HeartbeatAnswered ==
  /\ guard.pc = "asking" /\ ~Expired
  /\ wire.kind \in Answers
  /\ clock - wire.at <= Timeout
  /\ IF wire.kind = "active"
       THEN /\ guard' = [pc |-> "waiting",
                         stopAt |-> clock + Remaining(wire.lease - wire.at, Margin),
                         confirmed |-> wire.lease,
                         late |-> clock - wire.at]
            /\ UNCHANGED cancelled
       ELSE /\ guard' = [guard EXCEPT !.pc = "ended"]
            /\ cancelled' = TRUE
  /\ wire' = Silent
  /\ UNCHANGED <<clock, claim, task, left>>

\* Fault: a failed heartbeat restarts the timer.
HeartbeatFailsRenews ==
  /\ guard.pc = "asking" /\ ~Expired
  /\ guard' = [guard EXCEPT !.pc = "waiting", !.stopAt = clock + Remaining(Lease, Margin)]
  /\ wire' \in {wire, Silent}
  /\ UNCHANGED <<clock, claim, cancelled, task, left>>

\* The request or the answer is lost: the guard keeps its timer.  What Core
\* already received it may still handle.
HeartbeatFails ==
  /\ guard.pc = "asking" /\ ~Expired
  /\ guard' = [guard EXCEPT !.pc = "waiting"]
  /\ wire' \in {wire, Silent}
  /\ UNCHANGED <<clock, claim, cancelled, task, left>>

\* LeaseGuard::stop, after the task ended.
GuardStops ==
  /\ task = "done" /\ guard.pc # "ended"
  /\ guard' = [guard EXCEPT !.pc = "ended"]
  /\ UNCHANGED <<clock, claim, wire, cancelled, task, left>>

-----------------------------------------------------------------------------
(***************************************************************************)
(* Core, as ProcessingJobs has it, for this one claim.                     *)
(***************************************************************************)
Holds == claim.state = "running" /\ claim.lease > clock

\* heartbeat_claim, with its answer.
CoreHeartbeat ==
  /\ wire.kind = "request"
  /\ IF ~Holds
       THEN /\ wire' = [kind |-> "lost", at |-> clock, lease |-> 0]
            /\ UNCHANGED claim
       ELSE LET bound == clock + Grace
                lease == IF ~claim.cancel THEN clock + Lease
                         ELSE IF claim.lease < bound THEN claim.lease ELSE bound
            IN /\ claim' = [claim EXCEPT !.lease = lease]
               /\ wire' = [kind |-> IF claim.cancel THEN "cancel" ELSE "active",
                           at |-> clock, lease |-> lease]
  /\ UNCHANGED <<clock, guard, cancelled, task, left>>

\* cancel_job of a running job.
RequestCancellation ==
  /\ Open
  /\ claim.state = "running" /\ ~claim.cancel
  /\ claim' = [claim EXCEPT !.cancel = TRUE]
  /\ UNCHANGED <<clock, guard, wire, cancelled, task, left>>

\* maintain_lifecycle.
CoreSweep ==
  /\ claim.state = "running" /\ claim.lease <= clock
  /\ claim' = [claim EXCEPT !.state = "lost"]
  /\ UNCHANGED <<clock, guard, wire, cancelled, task, left>>

\* try_claim for another worker, once this attempt closed without a delivery.
CoreGrantsAgain ==
  /\ claim.state \in {"failed", "released", "lost"}
  /\ ~claim.cancel /\ ~claim.again
  /\ claim' = [claim EXCEPT !.again = TRUE]
  /\ UNCHANGED <<clock, guard, wire, cancelled, task, left>>

-----------------------------------------------------------------------------
(***************************************************************************)
(* execute_claim.                                                          *)
(***************************************************************************)
\* The task looks at the watch channel and goes on, or releases the claim.
Checked(next) == IF cancelled THEN "releasing" ELSE next

\* The input arrives, or cannot be downloaded; a rejected input is reported.
Downloaded ==
  /\ task = "downloading"
  /\ task' \in {"failing", Checked("processing"), Checked("failing")}
  /\ UNCHANGED <<clock, claim, guard, wire, cancelled, left>>

\* The processor returns artifacts or a failure, or was stopped.
Processed ==
  /\ task = "processing"
  /\ task' \in {Checked("uploading"), Checked("failing")}
  /\ UNCHANGED <<clock, claim, guard, wire, cancelled, left>>

\* One ticket and one upload; a protocol error ends the task and leaves the
\* claim to lapse.
UploadNext ==
  /\ task = "uploading"
  /\ \/ cancelled /\ task' = "releasing" /\ UNCHANGED left
     \/ /\ ~cancelled /\ left > 0 /\ Holds /\ ~claim.cancel
        /\ left' = left - 1
        /\ task' = IF left = 1 THEN "completing" ELSE "uploading"
     \/ ~cancelled /\ task' = "done" /\ UNCHANGED left
  /\ UNCHANGED <<clock, claim, guard, wire, cancelled>>

\* The closing call reaches Core and is answered, or fails.
CloseWith(from, state, accepted) ==
  /\ task = from
  /\ task' = "done"
  /\ \/ accepted /\ claim' = [claim EXCEPT !.state = state]
     \/ UNCHANGED claim
  /\ UNCHANGED <<clock, guard, wire, cancelled, left>>

\* complete_claim, fail_claim and release_claim.
CompleteClaim == CloseWith("completing", "delivered", Holds /\ ~claim.cancel)
ReportFailure == CloseWith("failing", "failed", Holds)
ReleaseCancelled == CloseWith("releasing", "released", Holds)

-----------------------------------------------------------------------------
GuardStep == GuardExpires \/ HeartbeatSend \/ HeartbeatAnswered \/ HeartbeatFails \/ GuardStops

CoreStep == CoreHeartbeat \/ RequestCancellation \/ CoreSweep \/ CoreGrantsAgain

TaskStep ==
  Downloaded \/ Processed \/ UploadNext \/ CompleteClaim \/ ReportFailure \/ ReleaseCancelled

AgentNext == AgentTick \/ GuardStep \/ CoreStep \/ TaskStep

AgentSpec == AgentInit /\ [][AgentNext]_agentVars

\* Time passes, the guard's timer fires and a killed sandbox ends.  Nothing is
\* asked of the network, of Core, or of a processor left alone.
AgentFairSpec ==
  /\ AgentSpec
  /\ WF_agentVars(AgentTick)
  /\ WF_agentVars(GuardExpires)
  /\ WF_agentVars(Killing /\ Processed)

-----------------------------------------------------------------------------
(***************************************************************************)
(* Properties.                                                             *)
(***************************************************************************)

\* By how much a timer ends before the lease if its answer took no time.
HeadStart == IF Margin < Lease THEN Margin ELSE Lease

\* The sandbox runs past the last lease that Core confirmed by no more than the
\* answer was late, or the host's clock behind, beyond the margin: however
\* heartbeats are lost, refused or delayed, nothing else than the age of the
\* answer it last accepted moves the guard's timer.  An answer within the margin
\* leaves the sandbox no time at all after the lease.
StopsBeforeConfirmedLease ==
  task = "processing" => clock <= guard.confirmed + guard.late - HeadStart

\* Two workers process a job at the same time only if the last answer that the
\* earlier of them accepted was late, or the clock it compared behind, by the
\* margin or more: otherwise the sandbox of this claim has ended when Core hands
\* the job to another worker.
ExclusiveWork == claim.again /\ task = "processing" => guard.late >= HeadStart

\* A cancellation stops the sandbox of a processor that would never end by
\* itself, even if no heartbeat gets through any more.
CancellationStopsWork ==
  (task = "processing" /\ claim.cancel) ~> task # "processing"
=============================================================================
