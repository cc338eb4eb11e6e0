------------------------------- MODULE MCEditor -------------------------------
(* Instances of Editor for TLC.                                            *)
EXTENDS Editor

CONSTANTS original

BlankText == [f \in Field |-> original]
===============================================================================
