--------------------------------- MODULE Lists ---------------------------------
(***************************************************************************)
(* Lists as the algorithms use them.                                       *)
(***************************************************************************)
EXTENDS Naturals, Sequences

Elements(s) == {s[i] : i \in 1 .. Len(s)}

(* The elements of s that are in a set, in their order.                    *)
Kept(s, keep) ==
    LET K[i \in 0 .. Len(s)] == IF i = 0 THEN <<>>
                                ELSE IF s[i] \in keep THEN Append(K[i - 1], s[i]) ELSE K[i - 1]
    IN K[Len(s)]

(* The first lists of a list of lists, joined.                             *)
JoinUpTo(lists) ==
    LET J[i \in 0 .. Len(lists)] == IF i = 0 THEN <<>> ELSE J[i - 1] \o lists[i]
    IN J
=============================================================================
