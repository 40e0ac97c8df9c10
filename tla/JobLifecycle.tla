---------------------------- MODULE JobLifecycle ----------------------------
(***************************************************************************)
(* What the public API promises of processing jobs: the lifecycle that     *)
(* ProcessingJobState, cancel_job and the worker handlers implement, with  *)
(* workers, leases, tokens and time left out.                              *)
(*                                                                         *)
(* A job is prepared, queued, run and finalized; a lost or failed run may  *)
(* queue it again; a reused result skips the run.  Cancellation takes      *)
(* effect before Core accepts a delivery or not at all.  The one result of *)
(* a job appears in the step that makes it succeeded.  One database        *)
(* transaction may move several jobs.                                      *)
(***************************************************************************)
EXTENDS Integers

CONSTANT Jobs

VARIABLES
  state,      \* ProcessingJobState, "none" before, "deleted" after
  cancel,     \* cancellation_requested
  results     \* how many results were published for the job

vars == <<state, cancel, results>>

Init ==
  /\ state = [j \in Jobs |-> "none"]
  /\ cancel = [j \in Jobs |-> FALSE]
  /\ results = [j \in Jobs |-> 0]

\* A step that only moves job j from one of `from` to `to`.
Move(j, from, to) ==
  /\ state[j] \in from /\ state'[j] = to
  /\ cancel'[j] = cancel[j] /\ results'[j] = results[j]

Submit(j) == Move(j, {"none"}, "preparing")

Enqueue(j) == Move(j, {"preparing"}, "queued")

Start(j) == Move(j, {"queued"}, "running")

Retry(j) == ~cancel[j] /\ Move(j, {"running"}, "queued")

\* Core owns the job from here on: a delivery, or the reuse of a result.
Accept(j) == ~cancel[j] /\ Move(j, {"queued", "running"}, "finalizing")

Publish(j) ==
  /\ state[j] = "finalizing" /\ state'[j] = "succeeded"
  /\ results[j] = 0 /\ results'[j] = 1
  /\ cancel'[j] = cancel[j]

Fail(j) == ~cancel[j] /\ Move(j, {"preparing", "running", "finalizing"}, "failed")

\* A queue entry that waited too long, or a lost run that no longer may wait.
Expire(j) == ~cancel[j] /\ Move(j, {"preparing", "queued", "running"}, "expired")

\* Immediate before a run, a request during one.
Cancel(j) ==
  /\ \/ state[j] \in {"preparing", "queued"} /\ state'[j] = "cancelled"
     \/ state[j] = "running" /\ state'[j] = "running"
  /\ cancel'[j] = TRUE
  /\ results'[j] = results[j]

CloseCancelled(j) == cancel[j] /\ Move(j, {"running"}, "cancelled")

\* Retention removes the row; what was provisioned stays.
Delete(j) ==
  /\ state[j] \in {"succeeded", "failed", "cancelled", "expired"}
  /\ state'[j] = "deleted" /\ cancel'[j] = FALSE
  /\ results'[j] = results[j]

Stay(j) == state'[j] = state[j] /\ cancel'[j] = cancel[j] /\ results'[j] = results[j]

Step(j) ==
  \/ Submit(j) \/ Enqueue(j) \/ Start(j) \/ Retry(j) \/ Accept(j)
  \/ Publish(j) \/ Fail(j) \/ Expire(j) \/ Cancel(j) \/ CloseCancelled(j)
  \/ Delete(j)

Next == \A j \in Jobs : Step(j) \/ Stay(j)

Spec == Init /\ [][Next]_vars
=============================================================================
