------------------------------ MODULE MCIngest ------------------------------
(* Instances of Ingest for TLC.                                            *)
EXTENDS Ingest, TLC

CONSTANTS t1, t2, u1, u2, c1, c2, f1, f2, b1

By(first, rest) == [t \in Task |-> IF t = t1 THEN first ELSE rest]

AllApi == By("api", "api")
SeedAndApi == By("seed", "api")
ApiAndManual == By("api", "manual")
AllManual == By("manual", "manual")

EachUser == By(u1, u2)
SameContent == By(c1, c1)
EachContent == By(c1, c2)
EachFile == By(f1, f2)

Same == {<<c, c>> : c \in Content}

(* A chain: the text of t2 is similar to that of t1 and to that of any     *)
(* other task, which are not similar to each other.                        *)
ChainContent == [t \in Task |-> IF t = t1 THEN c1 ELSE IF t = t2 THEN c2
                               ELSE CHOOSE c \in Content : c \notin {c1, c2}]
Chain == {pair \in Content \X Content : pair[1] = pair[2] \/ c2 \in {pair[1], pair[2]}}
MiddleFile == [t \in Task |-> IF t = t2 THEN f2 ELSE f1]

NoLegacyContent == [b \in Legacy |-> c1]

Symmetric == Permutations(Worker)
=============================================================================
