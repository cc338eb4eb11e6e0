------------------------------- MODULE Retrieval -------------------------------
(***************************************************************************)
(* The lists of a search: the dense arm over slices of a large library and *)
(* the fusion of the two arms (worker/retrieval.py), the reranking and the *)
(* pruning of sentences (api/rerank.py, api/highlight.py).  Scores of      *)
(* models are numbers that are given.                                      *)
(***************************************************************************)
EXTENDS Naturals, Sequences, FiniteSets, Lists

CONSTANT RRF_K

ASSUME FusionAssumption == RRF_K \in Nat

Min2(a, b) == IF a < b THEN a ELSE b
Take(s, n) == SubSeq(s, 1, Min2(n, Len(s)))
Position(s, h) == IF h \in Elements(s) THEN CHOOSE i \in 1 .. Len(s) : s[i] = h ELSE 0

(* A stable sort, best first: the pairs <<i, j>> of better are those of    *)
(* positions of s of which the first holds what is better.                 *)
Pairs(s) == (1 .. Len(s)) \X (1 .. Len(s))
Ahead(n, better, i) == {j \in 1 .. n : <<j, i>> \in better \/ (<<i, j>> \notin better /\ j < i)}
Sorted(s, better) ==
    [k \in 1 .. Len(s) |->
       s[CHOOSE i \in 1 .. Len(s) : Cardinality(Ahead(Len(s), better, i)) = k - 1]]
ByScore(s, score) == Sorted(s, {p \in Pairs(s) : score[s[p[1]]] > score[s[p[2]]]})

(* One search of Milvus: the best of the given books, in any order of ties.*)
SearchBooks(books, bookOf, score, limit) ==
    LET found == {h \in DOMAIN score : bookOf[h] \in books}
        ByHit == CHOOSE s \in [1 .. Cardinality(found) -> found] :
                   \A i, j \in 1 .. Cardinality(found) : i # j => s[i] # s[j]
    IN Take(ByScore(ByHit, score), limit)

Slices(n, size) == [i \in 1 .. (n + size - 1) \div size |->
                      {k \in 1 .. n : (k - 1) \div size = i - 1}]

(* dense_search over the books 1 .. n.                                     *)
DenseSearch(n, size, bookOf, score, limit) ==
    LET M[i \in 0 .. Len(Slices(n, size))] ==
          IF i = 0 THEN <<>>
          ELSE M[i - 1] \o SearchBooks(Slices(n, size)[i], bookOf, score, limit)
        merged == M[Len(Slices(n, size))]
    IN IF n <= size THEN SearchBooks(1 .. n, bookOf, score, limit)
       ELSE Take(ByScore(merged, score), limit)

(* A sum of reciprocal ranks, as a numerator and a denominator.            *)
Reciprocal(rank) == IF rank = 0 THEN <<0, 1>> ELSE <<1, RRF_K + rank>>
Sum2(x, y) == <<x[1] * y[2] + y[1] * x[2], x[2] * y[2]>>
Greater(x, y) == x[1] * y[2] > y[1] * x[2]

(* Mutant: the second arm's term replaces the first's.                     *)
FusedLast(dense, sparse, h) ==
    IF Position(sparse, h) # 0 THEN Reciprocal(Position(sparse, h))
    ELSE Reciprocal(Position(dense, h))

(* A passage is scored by its ranks in both lists.                         *)
Fused(dense, sparse, h) == Sum2(Reciprocal(Position(dense, h)), Reciprocal(Position(sparse, h)))

(* rrf_fuse: ties in the order of first appearance, dense first.           *)
RRF(dense, sparse, limit) ==
    LET keys == dense \o Kept(sparse, Elements(sparse) \ Elements(dense))
        better == {p \in Pairs(keys) : Greater(Fused(dense, sparse, keys[p[1]]),
                                               Fused(dense, sparse, keys[p[2]]))}
    IN Take(Sorted(keys, better), limit)

(* rerank: the given scores, ties in the order of the input.               *)
Rerank(hits, scores, top) == Take(ByScore(hits, scores), top)

(* highlight: the sentences of all hits are scored in one batch and dealt  *)
(* back by a cursor.  A hit is the sequence of its sentences' true scores; *)
(* the answer pairs each hit that stays with the scores kept of it.        *)
Relevant(scores, threshold) == Kept(scores, {x \in Elements(scores) : x >= threshold})
Dealt(d, i, hit, scores, threshold) ==
    LET kept == Relevant(SubSeq(scores, d.cursor + 1, d.cursor + Len(hit)), threshold)
    IN [cursor |-> d.cursor + Len(hit),
        out |-> IF hit = <<>> \/ kept # <<>> THEN Append(d.out, <<i, kept>>) ELSE d.out]
Highlight(hits, threshold) ==
    LET scores == JoinUpTo(hits)[Len(hits)]
        D[i \in 0 .. Len(hits)] == IF i = 0 THEN [cursor |-> 0, out |-> <<>>]
                                   ELSE Dealt(D[i - 1], i, hits[i], scores, threshold)
    IN D[Len(hits)].out

-----------------------------------------------------------------------------
(* However the books fall into slices, the dense arm finds as good a list  *)
(* as one search of the whole library.                                     *)
SlicesLoseNothing(n, size, bookOf, score, limit) ==
    LET sliced == DenseSearch(n, size, bookOf, score, limit)
        whole == SearchBooks(1 .. n, bookOf, score, limit)
    IN [i \in DOMAIN sliced |-> score[sliced[i]]] = [i \in DOMAIN whole |-> score[whole[i]]]
       /\ Cardinality(Elements(sliced)) = Len(sliced)

(* Fusion repeats nothing and invents nothing; a passage which both arms   *)
(* rank above another is above it, and one which both found is above one   *)
(* which only one of them found, at a rank no better; with one arm empty,  *)
(* the other decides; reranking keeps what was fused, and pruning gives    *)
(* each hit only sentences of its own.                                     *)
FusionIsFair(dense, sparse, limit, scores) ==
    LET fused == RRF(dense, sparse, limit)
        Above(s, a, b) == Position(s, a) # 0 /\ (Position(s, b) = 0 \/ Position(s, a) <= Position(s, b))
        ranked == Rerank(fused, scores, limit)
        hits == [i \in DOMAIN ranked |-> [k \in 1 .. scores[ranked[i]] |-> k * i]]
        pruned == Highlight(hits, 2)
    IN /\ Elements(fused) \subseteq Elements(dense) \cup Elements(sparse)
       /\ Len(fused) = Cardinality(Elements(fused))
       /\ Len(fused) = Min2(limit, Cardinality(Elements(dense) \cup Elements(sparse)))
       /\ \A b \in Elements(fused), a \in Elements(dense) \cup Elements(sparse) :
            (a # b /\ Above(dense, a, b) /\ (Above(sparse, a, b) \/ b \notin Elements(sparse))) =>
              a \in Elements(fused) /\ Position(fused, a) < Position(fused, b)
       /\ \A b \in Elements(fused), a \in Elements(dense) \cap Elements(sparse) :
            LET rank == Position(dense, b) + Position(sparse, b)
                best == Min2(Position(dense, a), Position(sparse, a))
            IN (a # b /\ b \notin Elements(dense) \cap Elements(sparse) /\ best <= rank) =>
                 a \in Elements(fused) /\ Position(fused, a) < Position(fused, b)
       /\ sparse = <<>> => fused = Take(dense, limit)
       /\ dense = <<>> => fused = Take(sparse, limit)
       /\ Elements(ranked) = Elements(fused) /\ Len(ranked) = Len(fused)
       /\ \A i \in DOMAIN pruned :
            /\ pruned[i][1] \in DOMAIN hits
            /\ pruned[i][2] = Relevant(hits[pruned[i][1]], 2)
=============================================================================
