---------------------------- MODULE WorkerCommon ----------------------------
(***************************************************************************)
(* What WorkerAgent, WorkerSessions and WorkerRequests have in common:     *)
(* Core's clock, the bounds on it, and the value that stands for nothing.  *)
(***************************************************************************)
EXTENDS Integers, FiniteSets

CONSTANTS
  None,     \* no session, no claim, no request
  Horizon,  \* bound: requests, faults and cancellation come before this time
  MaxTime   \* bound: the clock stops here

ASSUME TimeAssumption == Horizon \in Nat /\ MaxTime \in Nat

VARIABLE clock

Open == clock < Horizon

\* Time passes.
Ticks == clock < MaxTime /\ clock' = clock + 1
=============================================================================
