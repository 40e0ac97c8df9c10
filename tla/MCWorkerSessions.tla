-------------------------- MODULE MCWorkerSessions --------------------------
(***************************************************************************)
(* Small instances of WorkerSessions for TLC.                              *)
(***************************************************************************)
EXTENDS WorkerSessions, TLC

\* Sessions and jobs are interchangeable.
Symmetry == Permutations(Sessions) \cup Permutations(Jobs)
=============================================================================
