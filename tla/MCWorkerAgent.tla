---------------------------- MODULE MCWorkerAgent ----------------------------
(***************************************************************************)
(* Small instances of WorkerAgent for TLC.                                 *)
(***************************************************************************)
EXTENDS WorkerAgent

\* Around the margin, on both sides.
SmallSkew == {-3, -1, 0, 1}
=============================================================================
