----------------------------- MODULE MCDocuments -----------------------------
(* Instances of Documents for TLC.                                         *)
EXTENDS Documents, TLC

CONSTANTS original

BlankText == [f \in Field |-> original]
Symmetric == Permutations(Request)
=============================================================================
