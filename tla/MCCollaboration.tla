-------------------------- MODULE MCCollaboration --------------------------
(***************************************************************************)
(* Small instances of Collaboration for TLC.                               *)
(***************************************************************************)
EXTENDS Collaboration, TLC

\* Clients and edits are interchangeable.
Symmetry == Permutations(Clients) \cup Permutations(Edits)
=============================================================================
