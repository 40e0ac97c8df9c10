-------------------------- MODULE MCWorkerRequests --------------------------
(***************************************************************************)
(* Small instances of WorkerRequests for TLC.                              *)
(***************************************************************************)
EXTENDS WorkerRequests, TLC

\* Identifiers, payloads and calls are interchangeable.
Symmetry == Permutations(Ids) \cup Permutations(Payloads) \cup Permutations(Calls)
=============================================================================
