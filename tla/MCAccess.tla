----------------------------- MODULE MCAccess -----------------------------
(* The creator and another user, one group, two requests at a time. *)
EXTENDS Access, TLC
CONSTANTS u1, u2, g1, r1, r2
MCUsers == {u1, u2}
MCGroups == {g1}
MCRequests == {r1, r2}
MCSymmetry == Permutations(MCRequests)
=============================================================================
