------------------------------- MODULE MCLinks --------------------------------
(* Instances of Links for TLC.                                             *)
EXTENDS Links, TLC

CONSTANTS f0, f1, a0, a1, r0, r1, r2

(* The second time the user picks another account, or the same.            *)
TwoAccounts == f0 :> a0 @@ f1 :> a1
OneAccount == f0 :> a0 @@ f1 :> a0

Symmetric == Permutations({r1, r2})
=============================================================================
