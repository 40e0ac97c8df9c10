---------------------------- MODULE MCAccounts ----------------------------
(* Three emails, two Git providers, the first with two accounts, and one     *)
(* OIDC subject; two requests at a time.                                   *)
EXTENDS Accounts, TLC
CONSTANTS u1, u2, u3, p1, p2, x1, x2, y1, z1, r1, r2
MCUsers == {u1, u2, u3}
MCProviders == {p1, p2}
MCExternals == {x1, x2, y1, z1}
MCAuthorityOf == x1 :> p1 @@ x2 :> p1 @@ y1 :> p2 @@ z1 :> Oidc
MCRequests == {r1, r2}
MCSymmetry == Permutations(MCRequests)
=============================================================================
