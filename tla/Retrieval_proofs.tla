--------------------------- MODULE Retrieval_proofs ----------------------------
(***************************************************************************)
(* Proofs about the ranking of passages and the citations of a summary:    *)
(* for every input, and from there for the inputs the run tries.           *)
(***************************************************************************)
EXTENDS Algorithms_proofs

(* The scores of the reranker.                                             *)

(* The answers of a reranker.                                              *)
RerankAnswers == [status : {"unavailable", "refused", "answered"}, scores : Seq(Nat), numbers : BOOLEAN]

(* Whatever the reranker answers, attempt after attempt: scores are taken  *)
(* only from one whole answer for the documents asked about, from an       *)
(* attempt that was reached, and whenever one was.                         *)
THEOREM EveryScoreIsOfItsDocuments ==
    ASSUME NEW documents \in Nat, NEW attempts \in [1 .. MaxRetries + 2 -> RerankAnswers]
    PROVE  ScoresAreForTheDocuments(documents, attempts)
<1> DEFINE S == 1 .. MaxRetries + 2
           T == [ok : BOOLEAN, rows : Seq(Nat)]
           m == [i \in S |-> MaxRetries + 2 - i]
           next(i, f) == IF i > MaxRetries + 1 THEN Failed
                         ELSE CASE attempts[i].status = "unavailable" -> f[i + 1]
                                [] attempts[i].status = "refused"     -> Failed
                                [] attempts[i].status = "answered"    ->
                                     ParsedScores(attempts[i], documents)
           G == [q \in S \X [S -> T] |-> next(q[1], q[2])]
           Try1[i \in 1 .. MaxRetries + 2] ==
             IF i > MaxRetries + 1 THEN Failed
             ELSE CASE attempts[i].status = "unavailable" -> Try1[i + 1]
                    [] attempts[i].status = "refused"     -> Failed
                    [] attempts[i].status = "answered"    ->
                         ParsedScores(attempts[i], documents)
           body(f) == [i \in 1 .. MaxRetries + 2 |-> next(i, f)]
           result == RerankScores(documents, attempts)
<1>1. result = IF documents = 0 THEN Given(<<>>) ELSE Try1[1]
  BY DEF RerankScores
<1>2. MaxRetries \in Nat
  BY BatchAssumption
<1>3. Failed \in T /\ T # {} /\ m \in [S -> Nat]
  <2>1. Failed \in T
    BY DEF Failed
  <2>2. m \in [S -> Nat]
    BY <1>2
  <2> HIDE DEF T
  <2> QED
    BY <2>1, <2>2
<1>4. \A i \in S : attempts[i] \in RerankAnswers /\ ParsedScores(attempts[i], documents) \in T
  BY DEF ParsedScores, Given, Failed, RerankAnswers
<1>5. \A i \in S : i <= MaxRetries + 1 => i + 1 \in S /\ m[i + 1] < m[i]
  BY <1>2
<1>s. \A i \in S : attempts[i].status \in {"unavailable", "refused", "answered"}
  BY <1>4 DEF RerankAnswers
<1>6. \A i \in S, f \in [S -> T] : next(i, f) \in T
  <2> TAKE i \in S, f \in [S -> T]
  <2>1. CASE i > MaxRetries + 1
    BY <2>1, <1>3
  <2>2. CASE ~(i > MaxRetries + 1)
    <3>1. i <= MaxRetries + 1
      BY <1>2, <2>2
    <3> HIDE DEF T, S
    <3>2. f[i + 1] \in T
      BY <1>5, <3>1
    <3> QED
      BY <1>3, <1>4, <1>s, <2>2, <3>2
  <2> HIDE DEF next
  <2> QED
    BY <2>1, <2>2
<1>7. \A i \in S, f, g \in [S -> T] :
        (\A v \in S : m[v] < m[i] => f[v] = g[v]) => next(i, f) = next(i, g)
  <2> TAKE i \in S, f, g \in [S -> T]
  <2> HAVE \A v \in S : m[v] < m[i] => f[v] = g[v]
  <2>1. i <= MaxRetries + 1 => f[i + 1] = g[i + 1]
    <3> HIDE DEF m, T, S
    <3> QED
      BY <1>5
  <2>2. ~(i > MaxRetries + 1) => f[i + 1] = g[i + 1]
    BY <2>1, <1>2
  <2> HIDE DEF m, T, S
  <2>3. CASE i > MaxRetries + 1
    BY <2>3
  <2>4. CASE ~(i > MaxRetries + 1)
    <3>1. f[i + 1] = g[i + 1]
      BY <2>2, <2>4
    <3>2. CASE attempts[i].status = "unavailable"
      BY <2>4, <3>1, <3>2
    <3>3. CASE attempts[i].status = "refused"
      BY <2>4, <3>3
    <3>4. CASE attempts[i].status = "answered"
      BY <2>4, <3>4
    <3> QED
      BY <3>2, <3>3, <3>4, <1>s
  <2> QED
    BY <2>3, <2>4
<1>8. \E F \in [S -> T] : Solves(F, S, G)
  <2> HIDE DEF S, T, m, next
  <2>1. G \in [S \X [S -> T] -> T]
    BY <1>6
  <2>2. \A i \in S, f, g \in [S -> T] :
          (\A v \in S : m[v] < m[i] => f[v] = g[v]) => G[<<i, f>>] = G[<<i, g>>]
    BY <1>7
  <2> HIDE DEF G
  <2>3. RecursionOn(S, T, m, G)
    BY <1>3, <2>1, <2>2 DEF RecursionOn
  <2> QED
    BY <1>3, <2>3, MeasureRecursion
<1>9. PICK F \in [S -> T] : Solves(F, S, G)
  <2> HIDE DEF S, T, G
  <2> QED
    BY <1>8
<1>10. \A i \in S : F[i] = next(i, F)
  <2> HIDE DEF S, T, next
  <2> TAKE i \in S
  <2>1. <<i, F>> \in S \X [S -> T] /\ F[i] = G[<<i, F>>]
    BY <1>9 DEF Solves
  <2> QED
    BY <2>1
<1>11. F = body(F)
  <2> HIDE DEF T, next
  <2> QED
    BY <1>10
<1>12. Try1 = body(Try1)
  <2> QED
    BY <1>11
<1>13. \A i \in S : Try1[i] = next(i, Try1)
  <2> HIDE DEF Try1, next
  <2> QED
    BY <1>12
<1> HIDE DEF Try1
<1> DEFINE Sound(i) == /\ attempts[i].status = "answered" /\ attempts[i].numbers
                       /\ Len(attempts[i].scores) = documents
           reached(k) == {i \in k .. MaxRetries + 1 :
                            \A j \in k .. i - 1 : attempts[j].status = "unavailable"}
           P == {k \in S : /\ Try1[k].ok => Len(Try1[k].rows) = documents
                           /\ Try1[k].ok <=> \E i \in reached(k) :
                                 Sound(i) /\ Try1[k].rows = attempts[i].scores}
<1>14. ASSUME NEW k \in S, \A v \in S : m[v] < m[k] => v \in P PROVE k \in P
  <2>0. k \in Nat /\ Try1[k] = next(k, Try1)
    <3>1. k \in Nat
      BY <1>2
    <3> HIDE DEF S, next
    <3> QED
      BY <1>13, <3>1
  <2>1. CASE k > MaxRetries + 1
    <3>1. Try1[k] = Failed /\ reached(k) = {}
      BY <2>0, <2>1, <1>2
    <3>2. ~Try1[k].ok
      BY <3>1 DEF Failed
    <3> HIDE DEF reached, Sound, S
    <3> QED
      BY <3>1, <3>2
  <2>2. CASE k <= MaxRetries + 1 /\ attempts[k].status = "unavailable"
    <3>1. Try1[k] = Try1[k + 1]
      BY <2>0, <2>2, <1>2
    <3>2. k + 1 \in P
      <4> HIDE DEF P, m
      <4> QED
        BY <1>5, <1>14, <2>2
    <3>3. ASSUME NEW i, Sound(i) PROVE i \in reached(k) <=> i \in reached(k + 1)
      <4>1. CASE i \in k .. MaxRetries + 1
        <5>1. i # k
          BY <2>2, <3>3
        <5>2. i \in k + 1 .. MaxRetries + 1
          BY <4>1, <5>1, <2>0, <1>2
        <5>3. k .. i - 1 = {k} \cup (k + 1 .. i - 1)
          BY <5>2, <2>0, <1>2
        <5> QED
          BY <4>1, <5>2, <5>3, <2>2
      <4>2. CASE i \notin k .. MaxRetries + 1
        <5>1. i \notin k + 1 .. MaxRetries + 1
          BY <4>2, <2>0, <1>2
        <5> QED
          BY <4>2, <5>1
      <4> QED
        BY <4>1, <4>2
    <3> HIDE DEF reached, Sound
    <3> QED
      BY <3>1, <3>2, <3>3
  <2>3. CASE k <= MaxRetries + 1 /\ attempts[k].status # "unavailable"
    <3>1. ASSUME NEW i PROVE i \in reached(k) <=> i = k
      <4>1. k \in k .. MaxRetries + 1 /\ k .. k - 1 = {}
        BY <2>0, <2>3, <1>2
      <4>2. ASSUME i \in k .. MaxRetries + 1, i # k PROVE k \in k .. i - 1
        BY <4>2, <2>0, <1>2
      <4> QED
        BY <4>1, <4>2, <2>3
    <3>2. Try1[k] = IF attempts[k].status = "refused" THEN Failed
                    ELSE ParsedScores(attempts[k], documents)
      BY <2>0, <2>3, <1>2, <1>s
    <3>3. attempts[k].status = "refused" \/ attempts[k].status = "answered"
      BY <2>3, <1>s
    <3>4. Try1[k].ok <=> Sound(k)
      BY <3>2, <3>3 DEF Failed, Given, ParsedScores
    <3>5. Sound(k) => Try1[k].rows = attempts[k].scores
      BY <3>2, <3>3 DEF Failed, Given, ParsedScores
    <3> HIDE DEF reached
    <3> QED
      BY <3>1, <3>4, <3>5
  <2> QED
    BY <2>0, <2>1, <2>2, <2>3, <1>2
<1>15. S \subseteq P
  <2> HIDE DEF S, P
  <2>1. \A i \in S : m[i] \in Nat
    <3> HIDE DEF m
    <3> QED
      BY <1>3
  <2> HIDE DEF m
  <2> QED
    BY <1>14, <2>1, MeasureInduction, ZenonT(40)
<1>16. 1 \in P
  <2>1. 1 \in S
    BY <1>2
  <2> HIDE DEF S, P
  <2> QED
    BY <1>15, <2>1
<1>17. CASE documents = 0
  <2>1. result = Given(<<>>)
    BY <1>1, <1>17
  <2> HIDE DEF result
  <2> QED
    BY <1>17, <2>1 DEF ScoresAreForTheDocuments, Given, result
<1>18. CASE documents # 0
  <2>1. result = Try1[1]
    BY <1>1, <1>18
  <2> HIDE DEF result
  <2> QED
    BY <1>16, <1>18, <2>1 DEF ScoresAreForTheDocuments, result
<1> QED
  BY <1>17, <1>18

-----------------------------------------------------------------------------
(* Sorting, and the slices of a large library.                             *)

(* A list without a repetition.                                            *)
Distinct(s) == \A i, j \in 1 .. Len(s) : i # j => s[i] # s[j]

(* A list without a repetition has as many elements as places.             *)
LEMMA DistinctCount ==
    ASSUME NEW S, NEW s \in Seq(S), Distinct(s)
    PROVE  IsFiniteSet(Elements(s)) /\ Cardinality(Elements(s)) = Len(s)
<1> DEFINE n == Len(s)
           E == Elements(s)
<1>1. n \in Nat /\ DOMAIN s = 1 .. n /\ s = [i \in 1 .. n |-> s[i]]
  OBVIOUS
<1>2. s \in [1 .. n -> E] /\ (\A e \in E : \E i \in 1 .. n : s[i] = e)
  BY <1>1 DEF Elements
<1>3. s \in Bijection(1 .. n, E)
  BY <1>2 DEF Bijection, Injection, Surjection, IsInjective, Distinct
<1>4. IsFiniteSet(1 .. n) /\ Cardinality(1 .. n) = n
  <2>1. 1 \in Int /\ n \in Int
    BY <1>1
  <2>2. IsFiniteSet(1 .. n) /\ Cardinality(1 .. n) = IF 1 > n THEN 0 ELSE n - 1 + 1
    BY <2>1, FS_Interval
  <2> QED
    BY <1>1, <2>2
<1> HIDE DEF n, E
<1>5. ExistsBijection(1 .. n, E)
  BY <1>3 DEF ExistsBijection
<1>6. IsFiniteSet(E) /\ Cardinality(E) = Cardinality(1 .. n)
  BY <1>4, <1>5, FS_Bijection
<1> QED
  BY <1>4, <1>6 DEF n, E

(* The first n of a list.                                                  *)
LEMMA TakeIs ==
    ASSUME NEW S, NEW s \in Seq(S), NEW n \in Nat
    PROVE  /\ Take(s, n) \in Seq(S) /\ Len(Take(s, n)) = Min2(n, Len(s))
           /\ Len(Take(s, n)) \in Nat /\ Len(Take(s, n)) <= Len(s) /\ Len(Take(s, n)) <= n
           /\ \A i \in 1 .. Len(Take(s, n)) : i \in 1 .. Len(s) /\ Take(s, n)[i] = s[i]
           /\ Len(s) <= n => Take(s, n) = s
<1> DEFINE m == Min2(n, Len(s))
<1>1. m \in Nat /\ m <= Len(s) /\ m <= n /\ Len(s) \in Nat /\ (Len(s) <= n => m = Len(s))
  BY DEF Min2
<1>2. Take(s, n) = SubSeq(s, 1, m)
  BY DEF Take
<1> HIDE DEF m
<1>3. 1 \in Int /\ m \in Int /\ \A i \in 1 .. m : s[i] \in S
  BY <1>1
<1>4. /\ SubSeq(s, 1, m) \in Seq(S)
      /\ Len(SubSeq(s, 1, m)) = IF 1 <= m THEN m - 1 + 1 ELSE 0
      /\ \A i \in 1 .. m - 1 + 1 : SubSeq(s, 1, m)[i] = s[1 + i - 1]
  BY <1>3, SubSeqProperties
<1> DEFINE t == Take(s, n)
<1>5. t \in Seq(S) /\ Len(t) = m /\ \A i \in 1 .. m : i \in 1 .. Len(s) /\ t[i] = s[i]
  <2>1. t = SubSeq(s, 1, m)
    BY <1>2
  <2> HIDE DEF t
  <2>2. Len(t) = m /\ m - 1 + 1 = m /\ t \in Seq(S)
    BY <1>1, <1>4, <2>1
  <2>3. \A i \in 1 .. m : i \in 1 .. Len(s) /\ 1 + i - 1 = i
    BY <1>1
  <2> QED
    BY <1>4, <2>1, <2>2, <2>3
<1> HIDE DEF t
<1>6. ASSUME m = Len(s) PROVE t = s
  <2>1. Len(t) = Len(s) /\ \A i \in 1 .. Len(s) : t[i] = s[i]
    BY <1>5, <1>6
  <2> QED
    BY <1>5, <2>1
<1> QED
  BY <1>1, <1>5, <1>6 DEF m, t

(* They are distinct when the list is, and they are its first.             *)
LEMMA TakeDistinct ==
    ASSUME NEW S, NEW s \in Seq(S), NEW n \in Nat, Distinct(s)
    PROVE  /\ Distinct(Take(s, n)) /\ Elements(Take(s, n)) \subseteq Elements(s)
           /\ \A i \in 1 .. Len(s) : s[i] \in Elements(Take(s, n)) <=> i <= Min2(n, Len(s))
<1> DEFINE t == Take(s, n)
           m == Len(t)
<1>1. m \in Nat /\ m = Min2(n, Len(s)) /\ m <= Len(s) /\ Len(s) \in Nat
      /\ \A i \in 1 .. m : i \in 1 .. Len(s) /\ t[i] = s[i]
  BY TakeIs
<1> HIDE DEF t
<1>2. \A i, j \in 1 .. Len(t) : i # j => t[i] # t[j]
  BY <1>1 DEF Distinct
<1>3. Elements(t) \subseteq Elements(s)
  BY <1>1 DEF Elements
<1>4. ASSUME NEW i \in 1 .. Len(s) PROVE s[i] \in Elements(t) <=> i <= m
  <2>1. ASSUME i <= m PROVE s[i] \in Elements(t)
    <3>1. i \in 1 .. m
      BY <1>1, <2>1
    <3> QED
      BY <1>1, <3>1 DEF Elements
  <2>2. ASSUME s[i] \in Elements(t) PROVE i <= m
    <3>1. PICK k \in 1 .. m : t[k] = s[i]
      BY <2>2 DEF Elements
    <3>2. k = i
      BY <1>1, <3>1 DEF Distinct
    <3> QED
      BY <1>1, <3>2
  <2> QED
    BY <2>1, <2>2
<1> QED
  BY <1>1, <1>2, <1>3, <1>4 DEF t, Distinct

-----------------------------------------------------------------------------
(* The stable sort. *)
WeakOrder(n, better) ==
    /\ \A i, j \in 1 .. n : <<i, j>> \in better => <<j, i>> \notin better
    /\ \A i, j, k \in 1 .. n : <<i, k>> \in better => <<i, j>> \in better \/ <<j, k>> \in better

(* Being better, or as good and earlier, is a strict total order of the    *)
(* places.                                                                 *)
LEMMA AheadIsAnOrder ==
    ASSUME NEW n \in Nat, NEW better, WeakOrder(n, better)
    PROVE  /\ \A i \in 1 .. n : i \notin Ahead(n, better, i)
           /\ \A i, j \in 1 .. n : i # j => i \in Ahead(n, better, j) \/ j \in Ahead(n, better, i)
           /\ \A i, j, k \in 1 .. n : (i \in Ahead(n, better, j) /\ j \in Ahead(n, better, k)) =>
                i \in Ahead(n, better, k)
<1> DEFINE B(i, j) == <<i, j>> \in better
           L(i, j) == B(i, j) \/ (~B(j, i) /\ i < j)
<1>1. \A i, j \in 1 .. n : i \in Ahead(n, better, j) <=> L(i, j)
  BY DEF Ahead
<1>2. /\ \A i, j \in 1 .. n : B(i, j) => ~B(j, i)
      /\ \A i, j, k \in 1 .. n : B(i, k) => B(i, j) \/ B(j, k)
  BY DEF WeakOrder
<1> HIDE DEF B
<1>3. ASSUME NEW i \in 1 .. n PROVE ~L(i, i)
  BY <1>2
<1>4. ASSUME NEW i \in 1 .. n, NEW j \in 1 .. n, i # j PROVE L(i, j) \/ L(j, i)
  BY <1>4
<1>5. ASSUME NEW i \in 1 .. n, NEW j \in 1 .. n, NEW k \in 1 .. n, L(i, j), L(j, k)
      PROVE  L(i, k)
  <2>1. B(i, k) => ~B(k, i)
    BY <1>2
  <2>2. B(i, j) => B(i, k) \/ B(k, j)
    BY <1>2
  <2>3. B(k, j) => ~B(j, k)
    BY <1>2
  <2>4. B(j, k) => B(j, i) \/ B(i, k)
    BY <1>2
  <2>5. B(k, i) => B(k, j) \/ B(j, i)
    BY <1>2
  <2>6. (B(j, i) => ~B(i, j))
    BY <1>2
  <2> QED
    BY <1>5, <2>1, <2>2, <2>3, <2>4, <2>5, <2>6
<1> HIDE DEF L
<1> QED
  BY <1>1, <1>3, <1>4, <1>5

(* The places ahead of a place are fewer than all, and grow along the      *)
(* order.                                                                  *)
LEMMA AheadCounts ==
    ASSUME NEW n \in Nat, NEW better, WeakOrder(n, better)
    PROVE  /\ \A i \in 1 .. n : Cardinality(Ahead(n, better, i)) \in 0 .. n - 1
           /\ \A i, j \in 1 .. n : j \in Ahead(n, better, i) =>
                Cardinality(Ahead(n, better, j)) < Cardinality(Ahead(n, better, i))
<1> DEFINE A(i) == Ahead(n, better, i)
<1>1. \A i \in 1 .. n : A(i) \subseteq (1 .. n) \ {i}
  BY AheadIsAnOrder DEF Ahead
<1>2. IsFiniteSet(1 .. n) /\ Cardinality(1 .. n) = n
  <2>1. 1 \in Int /\ n \in Int
    OBVIOUS
  <2>2. IsFiniteSet(1 .. n) /\ Cardinality(1 .. n) = IF 1 > n THEN 0 ELSE n - 1 + 1
    BY <2>1, FS_Interval
  <2> QED
    BY <2>2
<1>3. ASSUME NEW i \in 1 .. n PROVE IsFiniteSet(A(i)) /\ Cardinality(A(i)) \in 0 .. n - 1
  <2>1. IsFiniteSet((1 .. n) \ {i}) /\ Cardinality((1 .. n) \ {i}) = n - 1
    BY <1>2, FS_RemoveElement
  <2>2. IsFiniteSet(A(i)) /\ Cardinality(A(i)) <= n - 1
    BY <1>1, <2>1, FS_Subset
  <2>3. Cardinality(A(i)) \in Nat
    BY <2>2, FS_CardinalityType
  <2> QED
    BY <2>2, <2>3
<1>4. ASSUME NEW i \in 1 .. n, NEW j \in 1 .. n, j \in A(i)
      PROVE  Cardinality(A(j)) < Cardinality(A(i))
  <2>1. A(j) \subseteq A(i) \ {j}
    <3>1. \A k \in 1 .. n : k \in A(j) => k \in A(i)
      BY <1>4, AheadIsAnOrder
    <3> QED
      BY <1>1, <3>1
  <2> HIDE DEF A
  <2>2. IsFiniteSet(A(i) \ {j}) /\ Cardinality(A(i) \ {j}) = Cardinality(A(i)) - 1
    BY <1>3, <1>4, FS_RemoveElement
  <2>3. Cardinality(A(j)) <= Cardinality(A(i)) - 1
    BY <2>1, <2>2, FS_Subset
  <2>4. Cardinality(A(i)) \in Int /\ Cardinality(A(j)) \in Int
    BY <1>3
  <2> QED
    BY <2>3, <2>4
<1> QED
  BY <1>3, <1>4

(* The sort is a permutation, and a position is before those it is ahead of. *)
IsPermutation(p, n) ==
    /\ p \in [1 .. n -> 1 .. n]
    /\ \A k, l \in 1 .. n : k # l => p[k] # p[l]
    /\ \A i \in 1 .. n : \E k \in 1 .. n : p[k] = i

(* So each place has one number of places ahead of it, and sorting by it   *)
(* is a permutation.                                                       *)
LEMMA SortPermutes ==
    ASSUME NEW n \in Nat, NEW better, WeakOrder(n, better)
    PROVE  \E p : /\ IsPermutation(p, n)
                  /\ \A k \in 1 .. n :
                       p[k] = CHOOSE i \in 1 .. n : Cardinality(Ahead(n, better, i)) = k - 1
                  /\ \A k, l \in 1 .. n : k < l => p[k] \in Ahead(n, better, p[l])
<1> DEFINE N == 1 .. n
           A(i) == Ahead(n, better, i)
           c == [i \in N |-> Cardinality(A(i)) + 1]
           p == [k \in N |-> CHOOSE i \in N : Cardinality(A(i)) = k - 1]
<1>1. \A i \in N : Cardinality(A(i)) \in 0 .. n - 1
  BY AheadCounts
<1>2. \A i, j \in N : j \in A(i) => Cardinality(A(j)) < Cardinality(A(i))
  BY AheadCounts
<1>3. \A i, j \in N : i # j => i \in A(j) \/ j \in A(i)
  BY AheadIsAnOrder
<1> HIDE DEF A
<1>4. c \in [N -> N]
  BY <1>1
<1>5. \A i, j \in N : i # j => Cardinality(A(i)) # Cardinality(A(j))
  BY <1>1, <1>2, <1>3
<1>6. \A i, j \in N : i # j => c[i] # c[j]
  BY <1>1, <1>5
<1>7. c \in Injection(N, N)
  <2> HIDE DEF c
  <2> QED
    BY <1>4, <1>6 DEF Injection, IsInjective
<1>8. IsFiniteSet(N)
  <2>1. 1 \in Int /\ n \in Int
    OBVIOUS
  <2> QED
    BY <2>1, FS_Interval
<1>9. \A k \in N : \E i \in N : c[i] = k
  <2> HIDE DEF N, c
  <2>1. c \in Surjection(N, N)
    BY <1>7, <1>8, FS_Injection
  <2> QED
    BY <2>1 DEF Surjection
<1>10. \A k \in N : \E i \in N : Cardinality(A(i)) = k - 1
  <2> TAKE k \in N
  <2>1. PICK i \in N : c[i] = k
    BY <1>9
  <2>2. c[i] = Cardinality(A(i)) + 1 /\ Cardinality(A(i)) \in Int
    BY <1>1
  <2> QED
    BY <2>1, <2>2
<1>11. \A k \in N : p[k] \in N /\ Cardinality(A(p[k])) = k - 1
  <2> TAKE k \in N
  <2>1. p[k] = CHOOSE i \in N : Cardinality(A(i)) = k - 1
    OBVIOUS
  <2> HIDE DEF N, p
  <2> QED
    BY <1>10, <2>1
<1>d. p \in [N -> N]
  <2>1. p = [k \in N |-> p[k]]
    OBVIOUS
  <2> HIDE DEF p, N
  <2> QED
    BY <1>11, <2>1
<1>e. \A k \in N : p[k] = CHOOSE i \in N : Cardinality(A(i)) = k - 1
  OBVIOUS
<1> HIDE DEF p
<1>12. \A k, l \in N : k # l => p[k] # p[l]
  BY <1>11
<1>13. ASSUME NEW i \in N PROVE \E k \in N : p[k] = i
  <2> DEFINE k == Cardinality(A(i)) + 1
  <2>1. k \in N /\ k - 1 = Cardinality(A(i))
    BY <1>1
  <2> HIDE DEF k
  <2>2. p[k] \in N /\ Cardinality(A(p[k])) = Cardinality(A(i))
    BY <1>11, <2>1
  <2>3. p[k] = i
    BY <1>5, <2>2
  <2> QED
    BY <2>1, <2>3
<1>14. ASSUME NEW k \in N, NEW l \in N, k < l PROVE p[k] \in A(p[l])
  <2>1. p[k] \in N /\ p[l] \in N /\ p[k] # p[l]
    BY <1>11, <1>12, <1>14
  <2>2. ~(p[l] \in A(p[k]))
    <3>1. ~(Cardinality(A(p[l])) < Cardinality(A(p[k])))
      BY <1>11, <1>14
    <3> QED
      BY <1>2, <2>1, <3>1
  <2> QED
    BY <1>3, <2>1, <2>2
<1>15. IsPermutation(p, n)
  BY <1>d, <1>12, <1>13 DEF IsPermutation
<1> QED
  BY <1>15, <1>e, <1>14 DEF A

(* The sorted list is the list, permuted by it.                            *)
LEMMA SortedIs ==
    ASSUME NEW S, NEW s \in Seq(S), NEW better, WeakOrder(Len(s), better)
    PROVE  /\ Sorted(s, better) \in Seq(S) /\ Len(Sorted(s, better)) = Len(s)
           /\ \E p : /\ IsPermutation(p, Len(s))
                     /\ \A k \in 1 .. Len(s) : Sorted(s, better)[k] = s[p[k]]
                     /\ \A k, l \in 1 .. Len(s) :
                          k < l => p[k] \in Ahead(Len(s), better, p[l])
<1> DEFINE n == Len(s)
           r == Sorted(s, better)
<1>1. n \in Nat /\ \A i \in 1 .. n : s[i] \in S
  OBVIOUS
<1>2. r = [k \in 1 .. n |-> s[CHOOSE i \in 1 .. n : Cardinality(Ahead(n, better, i)) = k - 1]]
  BY DEF Sorted
<1> HIDE DEF n, r
<1>3. PICK p : /\ IsPermutation(p, n)
               /\ \A k \in 1 .. n :
                    p[k] = CHOOSE i \in 1 .. n : Cardinality(Ahead(n, better, i)) = k - 1
               /\ \A k, l \in 1 .. n : k < l => p[k] \in Ahead(n, better, p[l])
  <2>1. WeakOrder(n, better)
    BY DEF n
  <2> QED
    BY <1>1, <2>1, SortPermutes
<1>4. \A k \in 1 .. n : r[k] = s[p[k]] /\ p[k] \in 1 .. n
  <2> TAKE k \in 1 .. n
  <2>1. r[k] = s[CHOOSE i \in 1 .. n : Cardinality(Ahead(n, better, i)) = k - 1]
    BY <1>2
  <2>2. p[k] = CHOOSE i \in 1 .. n : Cardinality(Ahead(n, better, i)) = k - 1
    BY <1>3
  <2>3. p[k] \in 1 .. n
    BY <1>3 DEF IsPermutation
  <2> QED
    BY <2>1, <2>2, <2>3
<1>5. r = [k \in 1 .. n |-> s[p[k]]]
  BY <1>2, <1>4
<1>6. r \in Seq(S) /\ Len(r) = n
  BY <1>1, <1>4, <1>5
<1> QED
  BY <1>3, <1>4, <1>6 DEF n, r

(* Sorting distinct things keeps them all.                                 *)
LEMMA SortedKeeps ==
    ASSUME NEW S, NEW s \in Seq(S), NEW better, WeakOrder(Len(s), better), Distinct(s)
    PROVE  LET r == Sorted(s, better)
           IN /\ r \in Seq(S) /\ Len(r) = Len(s) /\ Distinct(r) /\ Elements(r) = Elements(s)
              /\ \A i, j, k, l \in 1 .. Len(s) :
                   (r[k] = s[i] /\ r[l] = s[j] /\ i \in Ahead(Len(s), better, j)) => k < l
              /\ \A k, l \in 1 .. Len(s) :
                   k < l => \E i, j \in 1 .. Len(s) : /\ r[k] = s[i] /\ r[l] = s[j]
                                                      /\ i \in Ahead(Len(s), better, j)
<1> DEFINE n == Len(s)
           r == Sorted(s, better)
           A(i) == Ahead(Len(s), better, i)
<1>1. n \in Nat /\ r \in Seq(S) /\ Len(r) = n
  BY SortedIs
<1>2. PICK p : /\ IsPermutation(p, n)
               /\ \A k \in 1 .. n : r[k] = s[p[k]]
               /\ \A k, l \in 1 .. n : k < l => p[k] \in A(p[l])
  BY SortedIs
<1>a. \A i \in 1 .. n : i \notin A(i)
  BY AheadIsAnOrder
<1>b. \A i, j, k \in 1 .. n : (i \in A(j) /\ j \in A(k)) => i \in A(k)
  BY AheadIsAnOrder
<1>c. \A i, j \in 1 .. n : i # j => s[i] # s[j]
  BY DEF Distinct
<1>d. /\ \A k \in 1 .. n : p[k] \in 1 .. n
      /\ \A k, l \in 1 .. n : k # l => p[k] # p[l]
      /\ \A i \in 1 .. n : \E k \in 1 .. n : p[k] = i
  BY <1>2 DEF IsPermutation
<1> HIDE DEF n, r, A
<1>3. ASSUME NEW k \in 1 .. n, NEW l \in 1 .. n, k # l PROVE r[k] # r[l]
  <2>1. p[k] \in 1 .. n /\ p[l] \in 1 .. n /\ p[k] # p[l]
    BY <1>3, <1>d
  <2>2. s[p[k]] # s[p[l]]
    BY <1>c, <2>1
  <2>3. r[k] = s[p[k]] /\ r[l] = s[p[l]]
    BY <1>2
  <2> QED
    BY <2>2, <2>3
<1>4. {r[k] : k \in 1 .. n} = {s[i] : i \in 1 .. n}
  <2>1. \A k \in 1 .. n : r[k] \in {s[i] : i \in 1 .. n}
    BY <1>2, <1>d
  <2>2. ASSUME NEW i \in 1 .. n PROVE s[i] \in {r[k] : k \in 1 .. n}
    <3>1. PICK k \in 1 .. n : p[k] = i
      BY <1>d
    <3>2. r[k] = s[i]
      BY <1>2, <3>1
    <3> QED
      BY <3>2
  <2> QED
    BY <2>1, <2>2
<1>5. ASSUME NEW i \in 1 .. n, NEW j \in 1 .. n, NEW k \in 1 .. n, NEW l \in 1 .. n,
             r[k] = s[i], r[l] = s[j], i \in A(j)
      PROVE  k < l
  <2>1. p[k] = i /\ p[l] = j
    <3>1. s[p[k]] = s[i] /\ s[p[l]] = s[j] /\ p[k] \in 1 .. n /\ p[l] \in 1 .. n
      BY <1>2, <1>5, <1>d
    <3> QED
      BY <1>c, <3>1
  <2>2. k # l
    BY <1>5, <1>a, <2>1
  <2>3. ~(l < k)
    <3>1. ~(j \in A(i))
      BY <1>5, <1>a, <1>b
    <3> QED
      BY <1>2, <2>1, <3>1
  <2> QED
    BY <1>1, <2>2, <2>3
<1>6. \A k, l \in 1 .. n : k < l => \E i, j \in 1 .. n : r[k] = s[i] /\ r[l] = s[j] /\ i \in A(j)
  BY <1>2, <1>d
<1> QED
  BY <1>1, <1>3, <1>4, <1>5, <1>6 DEF n, r, A, Distinct, Elements

(* A best list of at most limit of the things of F.                        *)
Best(q, F, score, limit) ==
    /\ q \in Seq(F) /\ Distinct(q) /\ Len(q) = Min2(limit, Cardinality(F))
    /\ \A k, l \in 1 .. Len(q) : k < l => score[q[k]] >= score[q[l]]
    /\ \A x \in F \ Elements(q), k \in 1 .. Len(q) : score[q[k]] >= score[x]

(* Sorting by score keeps everything, and the scores descend.              *)
LEMMA ByScoreIs ==
    ASSUME NEW F, NEW s \in Seq(F), NEW score, \A x \in F : score[x] \in Int, Distinct(s)
    PROVE  LET r == ByScore(s, score)
           IN /\ r \in Seq(F) /\ Len(r) = Len(s) /\ Distinct(r) /\ Elements(r) = Elements(s)
              /\ \A k, l \in 1 .. Len(s) : k < l => score[r[k]] >= score[r[l]]
<1> DEFINE n == Len(s)
           better == {p \in Pairs(s) : score[s[p[1]]] > score[s[p[2]]]}
           r == Sorted(s, better)
<1>1. n \in Nat /\ \A i \in 1 .. n : s[i] \in F /\ score[s[i]] \in Int
  OBVIOUS
<1>2. \A i, j \in 1 .. n : <<i, j>> \in better <=> score[s[i]] > score[s[j]]
  BY DEF Pairs
<1>3. ByScore(s, score) = r
  BY DEF ByScore
<1> HIDE DEF better
<1>4. WeakOrder(n, better)
  <2> HIDE DEF n
  <2>1. \A i, j \in 1 .. n : <<i, j>> \in better => <<j, i>> \notin better
    BY <1>1, <1>2
  <2>2. \A i, j, k \in 1 .. n : <<i, k>> \in better => <<i, j>> \in better \/ <<j, k>> \in better
    BY <1>1, <1>2
  <2> QED
    BY <2>1, <2>2 DEF WeakOrder
<1>5. /\ r \in Seq(F) /\ Len(r) = Len(s) /\ Distinct(r) /\ Elements(r) = Elements(s)
      /\ \A k, l \in 1 .. Len(s) :
           k < l => \E i, j \in 1 .. Len(s) : /\ r[k] = s[i] /\ r[l] = s[j]
                                              /\ i \in Ahead(Len(s), better, j)
  BY <1>4, SortedKeeps
<1> HIDE DEF r
<1>6. ASSUME NEW k \in 1 .. n, NEW l \in 1 .. n, k < l PROVE score[r[k]] >= score[r[l]]
  <2>1. PICK i \in 1 .. n, j \in 1 .. n : r[k] = s[i] /\ r[l] = s[j] /\ i \in Ahead(n, better, j)
    BY <1>5, <1>6
  <2>2. <<j, i>> \notin better
    <3>1. <<i, j>> \in better \/ <<j, i>> \notin better
      BY <2>1 DEF Ahead
    <3> QED
      BY <1>4, <3>1 DEF WeakOrder
  <2> HIDE DEF n
  <2>3. ~(score[s[j]] > score[s[i]])
    BY <1>2, <2>2
  <2> QED
    BY <1>1, <2>1, <2>3
<1> QED
  BY <1>3, <1>5, <1>6

(* The first of the sorted list are a best list.                           *)
LEMMA BestOfAll ==
    ASSUME NEW F, NEW s \in Seq(F), NEW score, \A x \in F : score[x] \in Int, Distinct(s),
           Elements(s) = F, NEW limit \in Nat
    PROVE  Best(Take(ByScore(s, score), limit), F, score, limit)
<1> DEFINE r == ByScore(s, score)
           q == Take(r, limit)
<1>1. /\ r \in Seq(F) /\ Len(r) = Len(s) /\ Distinct(r) /\ Elements(r) = F
      /\ \A k, l \in 1 .. Len(r) : k < l => score[r[k]] >= score[r[l]]
  BY ByScoreIs
<1>2. Cardinality(F) = Len(r) /\ Len(r) \in Nat
  BY <1>1, DistinctCount
<1> HIDE DEF r
<1>3. /\ q \in Seq(F) /\ Len(q) = Min2(limit, Len(r)) /\ Len(q) \in Nat /\ Len(q) <= Len(r)
      /\ \A i \in 1 .. Len(q) : i \in 1 .. Len(r) /\ q[i] = r[i]
  BY <1>1, TakeIs
<1>4. /\ Distinct(q)
      /\ \A i \in 1 .. Len(r) : r[i] \in Elements(q) <=> i <= Min2(limit, Len(r))
  BY <1>1, TakeDistinct
<1> HIDE DEF q
<1>5. \A k, l \in 1 .. Len(q) : k < l => score[q[k]] >= score[q[l]]
  BY <1>1, <1>3
<1>6. ASSUME NEW x \in F \ Elements(q), NEW k \in 1 .. Len(q) PROVE score[q[k]] >= score[x]
  <2>1. PICK i \in 1 .. Len(r) : r[i] = x
    BY <1>1 DEF Elements
  <2>2. ~(i <= Len(q))
    BY <1>3, <1>4, <2>1
  <2>3. k < i /\ k \in 1 .. Len(r)
    BY <1>2, <1>3, <2>2
  <2>4. score[r[k]] >= score[r[i]]
    BY <1>1, <2>3
  <2> QED
    BY <1>3, <2>1, <2>4
<1> QED
  BY <1>2, <1>3, <1>4, <1>5, <1>6 DEF Best, q, r

(* Two best lists of the same things have the same scores. *)
LEMMA BestIsAsGood ==
    ASSUME NEW F, IsFiniteSet(F), NEW score, \A x \in F : score[x] \in Int, NEW limit \in Nat,
           NEW q, NEW r, Best(q, F, score, limit), Best(r, F, score, limit),
           NEW k \in 1 .. Len(q)
    PROVE  Len(q) = Len(r) /\ score[q[k]] >= score[r[k]]
<1>1. /\ q \in Seq(F) /\ r \in Seq(F) /\ Distinct(q) /\ Distinct(r)
      /\ Len(q) = Len(r) /\ Len(q) \in Nat
  BY DEF Best
<1>2. k \in Nat /\ k \in 1 .. Len(r) /\ k - 1 \in Nat /\ q[k] \in F /\ r[k] \in F
  BY <1>1
<1> SUFFICES ASSUME score[r[k]] > score[q[k]] PROVE FALSE
  BY <1>1, <1>2
<1> DEFINE A == Elements(Take(r, k))
           B == Elements(Take(q, k - 1))
<1>3. IsFiniteSet(A) /\ Cardinality(A) = k
  <2>1. Take(r, k) \in Seq(F) /\ Len(Take(r, k)) = k
    BY <1>1, <1>2, TakeIs DEF Min2
  <2>2. Distinct(Take(r, k))
    BY <1>1, <1>2, TakeDistinct
  <2> QED
    BY <2>1, <2>2, DistinctCount
<1>4. IsFiniteSet(B) /\ Cardinality(B) = k - 1
  <2>1. Take(q, k - 1) \in Seq(F) /\ Len(Take(q, k - 1)) = k - 1
    BY <1>1, <1>2, TakeIs DEF Min2
  <2>2. Distinct(Take(q, k - 1))
    BY <1>1, <1>2, TakeDistinct
  <2> QED
    BY <2>1, <2>2, DistinctCount
<1>5. A \subseteq B
  <2>1. SUFFICES ASSUME NEW x \in A PROVE x \in B
    OBVIOUS
  <2>2. PICK i \in 1 .. Len(r) : r[i] = x /\ i <= k
    <3>1. PICK i \in 1 .. Len(Take(r, k)) : Take(r, k)[i] = x
      BY DEF Elements
    <3>2. i \in 1 .. Len(r) /\ r[i] = x /\ i <= k
      BY <1>1, <1>2, <3>1, TakeIs
    <3> QED
      BY <3>2
  <2> HIDE DEF A, B
  <2>3. score[r[i]] >= score[r[k]]
    <3>1. i < k => score[r[i]] >= score[r[k]]
      BY <1>2 DEF Best
    <3>2. i = k \/ i < k
      BY <1>2, <2>2
    <3>3. score[r[k]] \in Int
      BY <1>2
    <3> QED
      BY <3>1, <3>2, <3>3
  <2>4. x \in F /\ score[x] > score[q[k]]
    <3>1. x \in F
      BY <1>1, <2>2
    <3> QED
      BY <1>2, <2>2, <2>3, <3>1
  <2>5. x \in Elements(q)
    <3>1. x \notin Elements(q) => score[q[k]] >= score[x]
      BY <2>4 DEF Best
    <3> QED
      BY <1>2, <2>4, <3>1
  <2>6. PICK j \in 1 .. Len(q) : q[j] = x
    BY <2>5 DEF Elements
  <2>7. j < k
    <3>1. k < j => score[q[k]] >= score[q[j]]
      BY DEF Best
    <3>2. j # k
      BY <1>2, <2>4, <2>6
    <3>3. ~(k < j)
      BY <1>2, <2>4, <2>6, <3>1
    <3> QED
      BY <1>2, <3>2, <3>3
  <2>8. j <= Min2(k - 1, Len(q))
    BY <1>1, <1>2, <2>7 DEF Min2
  <2>9. q[j] \in Elements(Take(q, k - 1))
    BY <1>1, <1>2, <2>8, TakeDistinct
  <2> QED
    BY <2>6, <2>9 DEF B
<1> HIDE DEF A, B
<1>6. Cardinality(A) <= Cardinality(B)
  BY <1>4, <1>5, FS_Subset
<1> QED
  BY <1>2, <1>3, <1>4, <1>6

(* So as lists of scores they are equal.                                   *)
LEMMA BestScores ==
    ASSUME NEW F, IsFiniteSet(F), NEW score, \A x \in F : score[x] \in Int, NEW limit \in Nat,
           NEW q, NEW r, Best(q, F, score, limit), Best(r, F, score, limit)
    PROVE  [k \in DOMAIN q |-> score[q[k]]] = [k \in DOMAIN r |-> score[r[k]]]
<1>1. q \in Seq(F) /\ r \in Seq(F) /\ Len(q) = Len(r) /\ Len(q) \in Nat
  BY DEF Best
<1>2. DOMAIN q = 1 .. Len(q) /\ DOMAIN r = 1 .. Len(q)
  BY <1>1
<1>3. ASSUME NEW k \in 1 .. Len(q) PROVE score[q[k]] = score[r[k]]
  <2>1. score[q[k]] >= score[r[k]]
    BY BestIsAsGood
  <2>2. score[r[k]] >= score[q[k]]
    BY <1>1, BestIsAsGood
  <2>3. score[q[k]] \in Int /\ score[r[k]] \in Int
    BY <1>1
  <2> QED
    BY <2>1, <2>2, <2>3
<1> QED
  BY <1>2, <1>3

(* One search finds the best.                                              *)
Found(books, bookOf, score) == {h \in DOMAIN score : bookOf[h] \in books}

(* A search of the books is a best list of their hits.                     *)
LEMMA SearchIsBest ==
    ASSUME NEW books, NEW bookOf, NEW score, IsFiniteSet(DOMAIN score),
           \A h \in DOMAIN score : score[h] \in Int, NEW limit \in Nat
    PROVE  Best(SearchBooks(books, bookOf, score, limit), Found(books, bookOf, score), score, limit)
<1> DEFINE F == Found(books, bookOf, score)
           n == Cardinality(F)
           Fits1(s) == \A i, j \in 1 .. n : i # j => s[i] # s[j]
           ByHit == CHOOSE s \in [1 .. n -> F] : Fits1(s)
<1>1. SearchBooks(books, bookOf, score, limit) = Take(ByScore(ByHit, score), limit)
  BY DEF SearchBooks, Found
<1>2. F \in SUBSET DOMAIN score
  BY DEF Found
<1> HIDE DEF F
<1>3. IsFiniteSet(F) /\ n \in Nat /\ ExistsBijection(1 .. n, F)
  <2>1. IsFiniteSet(F)
    BY <1>2, FS_Subset
  <2> QED
    BY <2>1, FS_CardinalityType
<1>4. \E s \in [1 .. n -> F] : Fits1(s)
  <2> HIDE DEF n
  <2>1. PICK s : s \in Bijection(1 .. n, F)
    BY <1>3 DEF ExistsBijection
  <2>2. s \in [1 .. n -> F] /\ Fits1(s)
    BY <2>1 DEF Bijection, Injection, IsInjective
  <2> QED
    BY <2>2
<1> HIDE DEF n, Fits1
<1>5. ByHit \in [1 .. n -> F] /\ Fits1(ByHit)
  BY <1>4
<1> HIDE DEF ByHit
<1>6. ByHit \in Seq(F) /\ Len(ByHit) = n
  BY <1>3, <1>5
<1>7. Distinct(ByHit)
  BY <1>5, <1>6 DEF Distinct, Fits1
<1>8. Elements(ByHit) = F
  <2>1. IsFiniteSet(Elements(ByHit)) /\ Cardinality(Elements(ByHit)) = n
    BY <1>6, <1>7, DistinctCount
  <2>2. Elements(ByHit) \in SUBSET F
    BY <1>5, <1>6 DEF Elements
  <2> QED
    BY <1>3, <2>1, <2>2, FS_Subset DEF n
<1>9. \A h \in F : score[h] \in Int
  BY <1>2
<1> QED
  BY <1>1, <1>6, <1>7, <1>8, <1>9, BestOfAll DEF F

(* The best of lists that are each the best of their part is the best.     *)
LEMMA MergedIsBest ==
    ASSUME NEW F, IsFiniteSet(F), NEW score, \A h \in F : score[h] \in Int, NEW limit \in Nat,
           NEW c \in Nat, NEW Part, NEW Q,
           \A i \in 1 .. c : Part[i] \in SUBSET F /\ Best(Q[i], Part[i], score, limit),
           \A h \in F : \E i \in 1 .. c : h \in Part[i],
           NEW merged \in Seq(F), Distinct(merged),
           \A h : h \in Elements(merged) <=> \E i \in 1 .. c : h \in Elements(Q[i])
    PROVE  Best(Take(ByScore(merged, score), limit), F, score, limit)
<1> DEFINE M == Elements(merged)
           q == Take(ByScore(merged, score), limit)
<1>1. M \in SUBSET F /\ merged \in Seq(M) /\ Len(merged) \in Nat
  BY DEF Elements
<1>2. IsFiniteSet(M) /\ Cardinality(M) = Len(merged)
  BY DistinctCount
<1>3. Best(q, M, score, limit)
  BY <1>1, BestOfAll
<1> HIDE DEF q
<1>4. ASSUME NEW i \in 1 .. c
      PROVE  /\ Elements(Q[i]) \subseteq M /\ Elements(Q[i]) \subseteq Part[i]
             /\ IsFiniteSet(Part[i]) /\ IsFiniteSet(Elements(Q[i]))
             /\ Cardinality(Part[i]) \in Nat /\ Cardinality(Part[i]) <= Cardinality(F)
             /\ Len(Q[i]) = Min2(limit, Cardinality(Part[i]))
             /\ Cardinality(Elements(Q[i])) = Len(Q[i])
  <2>1. Q[i] \in Seq(Part[i]) /\ Distinct(Q[i]) /\ Len(Q[i]) = Min2(limit, Cardinality(Part[i]))
    BY DEF Best
  <2>2. Elements(Q[i]) \subseteq M /\ Elements(Q[i]) \subseteq Part[i]
    <3>1. \A k \in 1 .. Len(Q[i]) : Q[i][k] \in Part[i]
      BY <2>1
    <3> QED
      BY <3>1 DEF Elements
  <2>3. IsFiniteSet(Elements(Q[i])) /\ Cardinality(Elements(Q[i])) = Len(Q[i])
    BY <2>1, DistinctCount
  <2>4. IsFiniteSet(Part[i]) /\ Cardinality(Part[i]) <= Cardinality(F)
    BY FS_Subset
  <2>5. Cardinality(Part[i]) \in Nat
    BY <2>4, FS_CardinalityType
  <2> QED
    BY <2>1, <2>2, <2>3, <2>4, <2>5
<1>5. Cardinality(M) \in Nat /\ Cardinality(F) \in Nat /\ Cardinality(M) <= Cardinality(F)
  BY <1>1, <1>2, FS_Subset, FS_CardinalityType
<1>6. ASSUME NEW i \in 1 .. c, Len(Q[i]) # limit PROVE Part[i] \subseteq M
  <2>1. Cardinality(Elements(Q[i])) = Cardinality(Part[i])
    BY <1>4, <1>6 DEF Min2
  <2>2. Elements(Q[i]) = Part[i]
    BY <1>4, <2>1, FS_Subset
  <2> QED
    BY <1>4, <2>2
<1>7. Min2(limit, Cardinality(M)) = Min2(limit, Cardinality(F))
  <2>1. CASE \E i \in 1 .. c : Len(Q[i]) = limit
    <3>1. PICK i \in 1 .. c : Len(Q[i]) = limit
      BY <2>1
    <3>2. limit <= Cardinality(M)
      <4>1. Cardinality(Elements(Q[i])) <= Cardinality(M)
        BY <1>2, <1>4, FS_Subset
      <4> QED
        BY <1>4, <3>1, <4>1
    <3> QED
      BY <1>5, <3>2 DEF Min2
  <2>2. CASE \A i \in 1 .. c : Len(Q[i]) # limit
    <3>1. M = F
      BY <1>1, <1>6, <2>2
    <3> QED
      BY <3>1
  <2> QED
    BY <2>1, <2>2
<1>8. /\ q \in Seq(F) /\ Distinct(q) /\ Len(q) = Min2(limit, Cardinality(F))
      /\ q \in Seq(M) /\ Len(q) \in Nat /\ Len(q) <= limit
      /\ \A k, l \in 1 .. Len(q) : k < l => score[q[k]] >= score[q[l]]
  <2>1. /\ q \in Seq(M) /\ Distinct(q) /\ Len(q) = Min2(limit, Cardinality(F))
        /\ \A k, l \in 1 .. Len(q) : k < l => score[q[k]] >= score[q[l]]
    BY <1>3, <1>7 DEF Best
  <2>2. q \in Seq(F)
    <3> HIDE DEF M
    <3> QED
      BY <1>1, <2>1
  <2>3. Len(q) \in Nat /\ Len(q) <= limit
    BY <1>5, <2>1 DEF Min2
  <2> QED
    BY <2>1, <2>2, <2>3
<1>9. ASSUME NEW x \in F \ Elements(q), NEW k \in 1 .. Len(q) PROVE score[q[k]] >= score[x]
  <2>1. CASE x \in M
    BY <1>3, <1>9, <2>1 DEF Best
  <2>2. CASE x \notin M
    <3>1. PICK i \in 1 .. c : x \in Part[i]
      OBVIOUS
    <3>2. Len(Q[i]) = limit /\ x \notin Elements(Q[i])
      BY <1>4, <1>6, <2>2, <3>1
    <3>3. \A y \in Elements(Q[i]) : score[y] >= score[x]
      BY <3>1, <3>2 DEF Best, Elements
    <3>4. q[k] \in F /\ score[q[k]] \in Int /\ score[x] \in Int
      BY <1>8
    <3>5. SUFFICES ASSUME score[x] > score[q[k]] PROVE FALSE
      BY <3>4
    <3> DEFINE B == Elements(q) \ {q[k]}
    <3>6. Elements(Q[i]) \subseteq B
      <4> SUFFICES ASSUME NEW y \in Elements(Q[i]) PROVE y \in B
        OBVIOUS
      <4>1. y \in M /\ score[y] \in Int /\ score[y] > score[q[k]]
        <5>1. y \in M /\ y \in F
          BY <1>1, <1>4
        <5>2. score[y] \in Int
          BY <5>1
        <5> QED
          BY <3>3, <3>4, <3>5, <5>1, <5>2
      <4>2. y \in Elements(q)
        <5>1. y \notin Elements(q) => score[q[k]] >= score[y]
          BY <1>3, <4>1 DEF Best
        <5> QED
          BY <3>4, <4>1, <5>1
      <4>3. y # q[k]
        BY <3>4, <4>1
      <4> QED
        BY <4>2, <4>3
    <3>7. IsFiniteSet(Elements(q)) /\ Cardinality(Elements(q)) = Len(q) /\ q[k] \in Elements(q)
      <4>1. IsFiniteSet(Elements(q)) /\ Cardinality(Elements(q)) = Len(q)
        BY <1>8, DistinctCount
      <4>2. q[k] \in Elements(q)
        BY DEF Elements
      <4> QED
        BY <4>1, <4>2
    <3>8. IsFiniteSet(B) /\ Cardinality(B) = Len(q) - 1
      <4> DEFINE E == Elements(q)
                 y == q[k]
      <4>1. IsFiniteSet(E) /\ y \in E /\ Cardinality(E) = Len(q)
        BY <3>7
      <4> HIDE DEF E, y
      <4>2. /\ IsFiniteSet(E \ {y})
            /\ Cardinality(E \ {y}) = IF y \in E THEN Cardinality(E) - 1 ELSE Cardinality(E)
        BY <4>1, FS_RemoveElement
      <4>3. B = E \ {y}
        BY DEF E, y
      <4> HIDE DEF B
      <4> QED
        BY <4>1, <4>2, <4>3
    <3>9. Cardinality(Elements(Q[i])) <= Len(q) - 1
      BY <3>6, <3>8, FS_Subset
    <3>10. Cardinality(Elements(Q[i])) = limit
      BY <1>4, <3>2
    <3>11. limit <= Len(q) - 1 /\ Len(q) <= limit /\ Len(q) \in Nat
      BY <1>8, <3>9, <3>10
    <3> QED
      BY <3>11
  <2> QED
    BY <2>1, <2>2
<1> QED
  BY <1>8, <1>9 DEF Best, q

(* The elements of two joined lists.                                       *)
LEMMA ElementsOfJoin ==
    ASSUME NEW S, NEW u \in Seq(S), NEW v \in Seq(S)
    PROVE  /\ u \o v \in Seq(S) /\ Elements(u \o v) = Elements(u) \cup Elements(v)
           /\ (Distinct(u) /\ Distinct(v) /\ Elements(u) \cap Elements(v) = {}) => Distinct(u \o v)
<1> DEFINE w == u \o v
           a == Len(u)
           b == Len(v)
<1>1. /\ w \in Seq(S) /\ Len(w) = a + b /\ a \in Nat /\ b \in Nat
      /\ \A i \in 1 .. a : w[i] = u[i]
      /\ \A k \in 1 .. b : w[a + k] = v[k]
  BY JoinAt
<1> HIDE DEF w, a, b
<1>2. \A i \in 1 .. Len(w) : i \in 1 .. a \/ (i - a \in 1 .. b /\ i = a + (i - a))
  BY <1>1
<1>3. /\ \A i \in 1 .. a : i \in 1 .. Len(w)
      /\ \A k \in 1 .. b : a + k \in 1 .. Len(w)
  BY <1>1
<1>4. \A i \in 1 .. Len(w) : \/ i \in 1 .. a /\ w[i] = u[i]
                             \/ i - a \in 1 .. b /\ i = a + (i - a) /\ w[i] = v[i - a]
  BY <1>1, <1>2
<1>5. {w[i] : i \in 1 .. Len(w)} = {u[i] : i \in 1 .. a} \cup {v[i] : i \in 1 .. b}
  <2>1. ASSUME NEW i \in 1 .. Len(w) PROVE w[i] \in {u[j] : j \in 1 .. a} \cup {v[j] : j \in 1 .. b}
    BY <1>4
  <2>2. ASSUME NEW i \in 1 .. a PROVE u[i] \in {w[j] : j \in 1 .. Len(w)}
    <3>1. i \in 1 .. Len(w) /\ w[i] = u[i]
      BY <1>1, <1>3
    <3> QED
      BY <3>1
  <2>3. ASSUME NEW k \in 1 .. b PROVE v[k] \in {w[j] : j \in 1 .. Len(w)}
    <3>1. a + k \in 1 .. Len(w) /\ w[a + k] = v[k]
      BY <1>1, <1>3
    <3> QED
      BY <3>1
  <2> QED
    BY <2>1, <2>2, <2>3
<1>6. ASSUME \A i, j \in 1 .. a : i # j => u[i] # u[j],
             \A i, j \in 1 .. b : i # j => v[i] # v[j],
             \A i \in 1 .. a, j \in 1 .. b : u[i] # v[j],
             NEW i \in 1 .. Len(w), NEW j \in 1 .. Len(w), i # j
      PROVE  w[i] # w[j]
  <2>1. i \in Int /\ j \in Int
    OBVIOUS
  <2>2. CASE i \in 1 .. a /\ w[i] = u[i]
    <3>1. CASE j \in 1 .. a /\ w[j] = u[j]
      BY <1>6, <2>2, <3>1
    <3>2. CASE j - a \in 1 .. b /\ j = a + (j - a) /\ w[j] = v[j - a]
      BY <1>6, <2>2, <3>2
    <3> QED
      BY <1>4, <3>1, <3>2
  <2>3. CASE i - a \in 1 .. b /\ i = a + (i - a) /\ w[i] = v[i - a]
    <3>1. CASE j \in 1 .. a /\ w[j] = u[j]
      BY <1>6, <2>3, <3>1
    <3>2. CASE j - a \in 1 .. b /\ j = a + (j - a) /\ w[j] = v[j - a]
      <4>1. i - a # j - a
        BY <1>1, <1>6, <2>1
      <4> QED
        BY <1>6, <2>3, <3>2, <4>1
    <3> QED
      BY <1>4, <3>1, <3>2
  <2> QED
    BY <1>4, <2>2, <2>3
<1>7. ASSUME Distinct(u), Distinct(v), Elements(u) \cap Elements(v) = {} PROVE Distinct(w)
  <2>1. \A i \in 1 .. a, j \in 1 .. b : u[i] # v[j]
    BY <1>7 DEF Elements, a, b
  <2>2. /\ \A i, j \in 1 .. a : i # j => u[i] # u[j]
        /\ \A i, j \in 1 .. b : i # j => v[i] # v[j]
    BY <1>7 DEF Distinct, a, b
  <2>3. \A i, j \in 1 .. Len(w) : i # j => w[i] # w[j]
    BY <1>6, <2>1, <2>2
  <2> QED
    BY <2>3 DEF Distinct
<1>8. Elements(w) = Elements(u) \cup Elements(v)
  BY <1>5 DEF Elements, a, b
<1> QED
  BY <1>1, <1>7, <1>8 DEF w

(* Every book is in one slice.                                             *)
LEMMA SlicesCover ==
    ASSUME NEW n \in Nat, NEW size \in Nat \ {0}
    PROVE  /\ (n + size - 1) \div size \in Nat
           /\ \A k \in 1 .. n : \E i \in 1 .. (n + size - 1) \div size : (k - 1) \div size = i - 1
<1> DEFINE c == (n + size - 1) \div size
<1>1. n + size - 1 \in Nat
  OBVIOUS
<1>2. c \in Nat /\ n + size - 1 < c * size + size
  BY <1>1, DivBounds
<1> HIDE DEF c
<1>3. ASSUME NEW k \in 1 .. n PROVE \E i \in 1 .. c : (k - 1) \div size = i - 1
  <2> DEFINE d == (k - 1) \div size
  <2>1. k - 1 \in Nat
    OBVIOUS
  <2>2. d \in Nat /\ d * size <= k - 1
    BY <2>1, DivBounds
  <2> HIDE DEF d
  <2>3. d < c
    <3>1. c <= d => c * size <= d * size
      BY <1>2, <2>2, TimesMono
    <3>2. c * size \in Nat /\ d * size \in Nat
      BY <1>2, <2>2, TimesMono
    <3> QED
      BY <1>2, <2>2, <3>1, <3>2
  <2>4. d + 1 \in 1 .. c /\ d = (d + 1) - 1
    BY <1>2, <2>2, <2>3
  <2> QED
    BY <2>4 DEF d
<1> QED
  BY <1>2, <1>3 DEF c

(* For any number of books, any size of a slice, any hits with any scores, *)
(* and any limit: the dense search slice by slice finds hits of the same   *)
(* scores as one search of the whole library.                              *)
THEOREM SlicesLoseNoRecall ==
    ASSUME NEW n \in Nat, NEW size \in Nat \ {0}, NEW limit \in Nat, NEW bookOf, NEW score,
           IsFiniteSet(DOMAIN score), \A h \in DOMAIN score : score[h] \in Int
    PROVE  SlicesLoseNothing(n, size, bookOf, score, limit)
<1> DEFINE c == (n + size - 1) \div size
           slices == Slices(n, size)
           F == Found(1 .. n, bookOf, score)
           part == [i \in 1 .. c |-> Found(slices[i], bookOf, score)]
           Q == [i \in 1 .. c |-> SearchBooks(slices[i], bookOf, score, limit)]
           M[i \in 0 .. Len(slices)] ==
             IF i = 0 THEN <<>>
             ELSE M[i - 1] \o SearchBooks(slices[i], bookOf, score, limit)
           T == Seq(F)
           step == [x \in (1 .. c) \X T |-> x[2] \o Q[x[1]]]
           sliced == DenseSearch(n, size, bookOf, score, limit)
           whole == SearchBooks(1 .. n, bookOf, score, limit)
<1>0. c \in Nat /\ \A k \in 1 .. n : \E i \in 1 .. c : (k - 1) \div size = i - 1
  BY SlicesCover
<1>1. slices = [i \in 1 .. c |-> {k \in 1 .. n : (k - 1) \div size = i - 1}]
  BY DEF Slices
<1> HIDE DEF c
<1>2. Len(slices) = c
  BY <1>0, <1>1
<1>3. sliced = IF n <= size THEN whole ELSE Take(ByScore(M[Len(slices)], score), limit)
  BY DEF DenseSearch
<1>4. F \in SUBSET DOMAIN score
  BY DEF Found
<1>5. IsFiniteSet(F) /\ \A h \in F : score[h] \in Int
  BY <1>4, FS_Subset
<1>6. Best(whole, F, score, limit)
  BY SearchIsBest
<1> HIDE DEF slices, whole
<1>7. ASSUME NEW i \in 1 .. c
      PROVE  part[i] \in SUBSET F /\ Best(Q[i], part[i], score, limit)
  <2>1. part[i] = Found(slices[i], bookOf, score) /\ Q[i] = SearchBooks(slices[i], bookOf, score, limit)
    OBVIOUS
  <2>2. slices[i] \in SUBSET (1 .. n)
    BY <1>1
  <2>3. Found(slices[i], bookOf, score) \in SUBSET F
    BY <2>2 DEF Found
  <2> HIDE DEF part, Q, F
  <2> QED
    BY <2>1, <2>3, SearchIsBest
<1>8. ASSUME NEW h \in F PROVE \E i \in 1 .. c : h \in part[i]
  <2>1. h \in DOMAIN score /\ bookOf[h] \in 1 .. n
    BY DEF Found
  <2>2. PICK i \in 1 .. c : (bookOf[h] - 1) \div size = i - 1
    BY <1>0, <2>1
  <2>3. bookOf[h] \in slices[i]
    BY <1>1, <2>1, <2>2
  <2>4. h \in part[i]
    BY <2>1, <2>3 DEF Found
  <2> QED
    BY <2>4
<1>9. ASSUME NEW i \in 1 .. c, NEW j \in 1 .. c, i # j PROVE part[i] \cap part[j] = {}
  <2> SUFFICES ASSUME NEW h \in part[i], h \in part[j] PROVE FALSE
    OBVIOUS
  <2>1. bookOf[h] \in slices[i] /\ bookOf[h] \in slices[j]
    BY DEF Found
  <2>2. (bookOf[h] - 1) \div size = i - 1 /\ (bookOf[h] - 1) \div size = j - 1
    BY <1>1, <2>1
  <2>3. i - 1 = j - 1 /\ i \in Int /\ j \in Int
    BY <2>2
  <2> QED
    BY <1>9, <2>3
<1>10. ASSUME NEW i \in 1 .. c
       PROVE  Q[i] \in Seq(F) /\ Distinct(Q[i]) /\ Elements(Q[i]) \subseteq part[i]
  <2>1. Q[i] \in Seq(part[i]) /\ Distinct(Q[i]) /\ part[i] \in SUBSET F
    BY <1>7 DEF Best
  <2> HIDE DEF Q, part, F
  <2>2. Q[i] \in Seq(F)
    BY <2>1
  <2>3. \A k \in 1 .. Len(Q[i]) : Q[i][k] \in part[i]
    BY <2>1
  <2> QED
    BY <2>1, <2>2, <2>3 DEF Elements
<1> HIDE DEF part, F
<1>11. \A i \in 1 .. c, v \in T : step[<<i, v>>] = v \o Q[i] /\ step[<<i, v>>] \in T
  <2> TAKE i \in 1 .. c, v \in T
  <2>1. v \o Q[i] \in T
    <3> HIDE DEF Q
    <3>1. v \in Seq(F) /\ Q[i] \in Seq(F)
      BY <1>10
    <3> QED
      BY <3>1
  <2> HIDE DEF T, Q
  <2> QED
    BY <2>1
<1>12. <<>> \in T
  OBVIOUS
<1>13. PICK G : Folds(G, c, T, <<>>, step)
  <2> HIDE DEF T, step
  <2>1. FoldOn(c, T, <<>>, step)
    BY <1>0, <1>11, <1>12 DEF FoldOn
  <2> QED
    BY <2>1, FoldExists
<1>14. G = [i \in 0 .. c |-> IF i = 0 THEN <<>> ELSE G[i - 1] \o Q[i]]
  <2> HIDE DEF T, step, Q
  <2> QED
    BY <1>11, <1>13 DEF Folds
<1>q. \A i \in 1 .. c : Q[i] = SearchBooks(slices[i], bookOf, score, limit)
  OBVIOUS
<1>z. \A i \in 0 .. c : i # 0 => i \in 1 .. c
  BY <1>0
<1>15. G = [i \in 0 .. Len(slices) |->
             IF i = 0 THEN <<>> ELSE G[i - 1] \o SearchBooks(slices[i], bookOf, score, limit)]
  <2> HIDE DEF Q
  <2> QED
    BY <1>2, <1>14, <1>q, <1>z
<1>16. M = [i \in 0 .. Len(slices) |->
             IF i = 0 THEN <<>> ELSE M[i - 1] \o SearchBooks(slices[i], bookOf, score, limit)]
  BY <1>15
<1> HIDE DEF M
<1>17. M[0] = <<>> /\ \A i \in 1 .. c : i \in 0 .. c /\ M[i] = M[i - 1] \o Q[i]
  <2>1. 0 \in 0 .. c /\ \A i \in 1 .. c : i \in 0 .. c /\ i # 0
    BY <1>0
  <2> HIDE DEF Q
  <2> QED
    BY <1>2, <1>16, <1>q, <2>1
<1> HIDE DEF Q
<1> DEFINE P == {i \in 0 .. c :
                   /\ M[i] \in Seq(F) /\ Distinct(M[i])
                   /\ \A h : h \in Elements(M[i]) <=> \E j \in 1 .. i : h \in Elements(Q[j])}
<1>18. 0 \in P
  <2>1. 0 \in 0 .. c /\ <<>> \in Seq(F) /\ Len(<<>>) = 0
    BY <1>0
  <2>2. Distinct(<<>>) /\ Elements(<<>>) = {}
    BY <2>1 DEF Distinct, Elements
  <2>3. 1 .. 0 = {}
    OBVIOUS
  <2> QED
    BY <1>17, <2>1, <2>2, <2>3
<1>19. ASSUME NEW i \in 1 .. c, i - 1 \in P PROVE i \in P
  <2> DEFINE u == M[i - 1]
             v == Q[i]
  <2>1. /\ u \in Seq(F) /\ Distinct(u)
        /\ \A h : h \in Elements(u) <=> \E j \in 1 .. i - 1 : h \in Elements(Q[j])
    BY <1>19
  <2>2. v \in Seq(F) /\ Distinct(v) /\ Elements(v) \subseteq part[i] /\ M[i] = u \o v /\ i \in 0 .. c
    BY <1>10, <1>17
  <2> HIDE DEF u
  <2>3. \A j \in 1 .. i - 1 : j \in 1 .. c /\ j # i /\ Elements(Q[j]) \subseteq part[j]
    <3>1. \A j \in 1 .. i - 1 : j \in 1 .. c /\ j # i
      BY <1>0
    <3> QED
      BY <1>10, <3>1
  <2>4. Elements(u) \cap Elements(v) = {}
    <3> SUFFICES ASSUME NEW h, h \in Elements(u), h \in Elements(v) PROVE FALSE
      OBVIOUS
    <3>1. PICK j \in 1 .. i - 1 : h \in Elements(Q[j])
      BY <2>1
    <3>2. h \in part[j] /\ h \in part[i] /\ j # i /\ j \in 1 .. c
      BY <2>2, <2>3, <3>1
    <3> QED
      BY <1>9, <3>2
  <2>5. u \o v \in Seq(F) /\ Distinct(u \o v) /\ Elements(u \o v) = Elements(u) \cup Elements(v)
    BY <2>1, <2>2, <2>4, ElementsOfJoin
  <2>6. \A j : j \in 1 .. i <=> j \in 1 .. i - 1 \/ j = i
    BY <1>0
  <2>7. ASSUME NEW h
        PROVE  h \in Elements(u \o v) <=> \E j \in 1 .. i : h \in Elements(Q[j])
    BY <2>1, <2>5, <2>6
  <2> QED
    BY <2>2, <2>5, <2>7
<1>20. c \in P
  <2> HIDE DEF P
  <2>1. \A i \in 0 .. c : i \in P
    BY <1>0, <1>18, <1>19, UptoInduction
  <2>2. c \in 0 .. c
    BY <1>0
  <2> QED
    BY <2>1, <2>2
<1>21. Best(Take(ByScore(M[c], score), limit), F, score, limit)
  <2>1. /\ M[c] \in Seq(F) /\ Distinct(M[c])
        /\ \A h : h \in Elements(M[c]) <=> \E j \in 1 .. c : h \in Elements(Q[j])
    BY <1>20
  <2> HIDE DEF P
  <2> QED
    BY <1>0, <1>5, <1>7, <1>8, <2>1, MergedIsBest
<1>22. Best(sliced, F, score, limit)
  <2> HIDE DEF sliced, P
  <2> QED
    BY <1>2, <1>3, <1>6, <1>21
<1>23. [i \in DOMAIN sliced |-> score[sliced[i]]] = [i \in DOMAIN whole |-> score[whole[i]]]
  <2> HIDE DEF sliced, P
  <2> QED
    BY <1>5, <1>6, <1>22, BestScores
<1>24. Cardinality(Elements(sliced)) = Len(sliced)
  <2> HIDE DEF sliced, P
  <2>1. sliced \in Seq(F) /\ Distinct(sliced)
    BY <1>22 DEF Best
  <2> QED
    BY <2>1, DistinctCount
<1> QED
  BY <1>23, <1>24 DEF SlicesLoseNothing, whole

-----------------------------------------------------------------------------
(* The sentences of a hit.                                                 *)

(* A list with an element more.                                            *)
LEMMA AppendIs ==
    ASSUME NEW S, NEW u \in Seq(S), NEW x \in S
    PROVE  LET v == Append(u, x)
           IN /\ v \in Seq(S) /\ Len(v) = Len(u) + 1 /\ Len(u) \in Nat
              /\ \A i \in 1 .. Len(u) : v[i] = u[i]
              /\ v[Len(u) + 1] = x
              /\ Elements(v) = Elements(u) \cup {x}
              /\ (Distinct(u) /\ x \notin Elements(u)) => Distinct(v)
<1> DEFINE v == Append(u, x)
           n == Len(u)
<1>1. /\ v \in Seq(S) /\ Len(v) = n + 1 /\ n \in Nat
      /\ \A i \in 1 .. n : v[i] = u[i]
      /\ v[n + 1] = x
  OBVIOUS
<1> HIDE DEF v, n
<1>2. \A i : i \in 1 .. Len(v) <=> i \in 1 .. n \/ i = n + 1
  BY <1>1
<1>3. {v[i] : i \in 1 .. Len(v)} = {u[i] : i \in 1 .. n} \cup {x}
  BY <1>1, <1>2
<1>4. ASSUME Distinct(u), x \notin Elements(u) PROVE Distinct(v)
  <2>1. \A i, j \in 1 .. n : i # j => u[i] # u[j]
    BY <1>4 DEF Distinct, n
  <2>2. \A i \in 1 .. n : u[i] # x
    BY <1>4 DEF Elements, n
  <2>3. \A i, j \in 1 .. Len(v) : i # j => v[i] # v[j]
    BY <1>1, <1>2, <2>1, <2>2
  <2> QED
    BY <2>3 DEF Distinct
<1> QED
  BY <1>1, <1>3, <1>4 DEF v, n, Elements

(* The fold behind a list of kept elements.                                *)
KeptUpTo(K, s, keep) ==
    /\ K[0] = <<>>
    /\ \A i \in 1 .. Len(s) :
         K[i] = IF s[i] \in keep THEN Append(K[i - 1], s[i]) ELSE K[i - 1]
    /\ Kept(s, keep) = K[Len(s)]

(* The kept elements as the values of a fold.                              *)
LEMMA KeptFolds ==
    ASSUME NEW S, NEW s \in Seq(S), NEW keep
    PROVE  \E K : KeptUpTo(K, s, keep) /\ \A i \in 0 .. Len(s) : K[i] \in Seq(S)
<1> DEFINE n == Len(s)
           T == Seq(S)
           K[i \in 0 .. Len(s)] == IF i = 0 THEN <<>>
                                   ELSE IF s[i] \in keep THEN Append(K[i - 1], s[i]) ELSE K[i - 1]
           next(i, v) == IF s[i] \in keep THEN Append(v, s[i]) ELSE v
           step == [x \in (1 .. n) \X T |-> next(x[1], x[2])]
<1>1. Kept(s, keep) = K[n]
  BY DEF Kept
<1>2. n \in Nat /\ \A i \in 1 .. n : s[i] \in S
  OBVIOUS
<1>3. \A i \in 1 .. n, v \in T : step[<<i, v>>] = next(i, v) /\ step[<<i, v>>] \in T /\ next(i, v) \in T
  <2> TAKE i \in 1 .. n, v \in T
  <2>1. next(i, v) \in T
    BY <1>2
  <2> HIDE DEF T, next, n
  <2> QED
    BY <2>1
<1>4. <<>> \in T
  OBVIOUS
<1>5. PICK F : Folds(F, n, T, <<>>, step)
  <2> HIDE DEF T, step, n
  <2>1. FoldOn(n, T, <<>>, step)
    BY <1>2, <1>3, <1>4 DEF FoldOn
  <2> QED
    BY <2>1, FoldExists
<1>6. F = [i \in 0 .. n |-> IF i = 0 THEN <<>> ELSE next(i, F[i - 1])]
  <2> HIDE DEF T, step, next, n
  <2> QED
    BY <1>3, <1>5 DEF Folds
<1>7. K = [i \in 0 .. n |-> IF i = 0 THEN <<>> ELSE next(i, K[i - 1])]
  BY <1>6
<1> HIDE DEF K
<1>8. K[0] = <<>> /\ \A i \in 1 .. n : i \in 0 .. n /\ K[i] = next(i, K[i - 1])
  <2>1. 0 \in 0 .. n /\ \A i \in 1 .. n : i \in 0 .. n /\ i # 0
    BY <1>2
  <2> HIDE DEF next, n
  <2> QED
    BY <1>7, <2>1
<1>9. \A i \in 0 .. n : K[i] \in T
  <2>1. K[0] \in T
    BY <1>4, <1>8
  <2>2. \A i \in 1 .. n : K[i - 1] \in T => K[i] \in T
    <3> HIDE DEF T, next
    <3> QED BY <1>3, <1>8
  <2> HIDE DEF n, T, K
  <2> QED
    BY <1>2, <2>1, <2>2, FoldTyped
<1> QED
  BY <1>1, <1>8, <1>9 DEF KeptUpTo

(* The kept elements are those of the set, none repeated that was not, all *)
(* when all are in it.                                                     *)
LEMMA KeptIs ==
    ASSUME NEW S, NEW s \in Seq(S), NEW keep
    PROVE  /\ Kept(s, keep) \in Seq(S) /\ Elements(Kept(s, keep)) = Elements(s) \cap keep
           /\ Distinct(s) => Distinct(Kept(s, keep))
           /\ Elements(s) \subseteq keep => Kept(s, keep) = s
<1> DEFINE n == Len(s)
           next(i, v) == IF s[i] \in keep THEN Append(v, s[i]) ELSE v
<1>2. n \in Nat /\ \A i \in 1 .. n : s[i] \in S
  OBVIOUS
<1> PICK K : KeptUpTo(K, s, keep)
  BY KeptFolds
<1>1. Kept(s, keep) = K[n]
  BY DEF KeptUpTo
<1>8. K[0] = <<>> /\ \A i \in 1 .. n : i \in 0 .. n /\ K[i] = next(i, K[i - 1])
  <2>1. \A i \in 1 .. n : i \in 0 .. n
    BY <1>2
  <2> QED
    BY <2>1 DEF KeptUpTo
<1> HIDE DEF n
<1> DEFINE P == {i \in 0 .. n :
                   /\ K[i] \in Seq(S)
                   /\ \A h : h \in Elements(K[i]) <=> \E j \in 1 .. i : h = s[j] /\ s[j] \in keep
                   /\ Distinct(s) => Distinct(K[i])
                   /\ (\A j \in 1 .. n : s[j] \in keep) =>
                        Len(K[i]) = i /\ \A j \in 1 .. i : K[i][j] = s[j]}
<1>9. 0 \in P
  <2>1. 0 \in 0 .. n /\ <<>> \in Seq(S) /\ Len(<<>>) = 0 /\ 1 .. 0 = {}
    BY <1>2
  <2>2. Distinct(<<>>) /\ Elements(<<>>) = {}
    BY <2>1 DEF Distinct, Elements
  <2> QED
    BY <1>8, <2>1, <2>2
<1>10. ASSUME NEW i \in 1 .. n, i - 1 \in P PROVE i \in P
  <2> DEFINE u == K[i - 1]
  <2>1. /\ u \in Seq(S)
        /\ \A h : h \in Elements(u) <=> \E j \in 1 .. i - 1 : h = s[j] /\ s[j] \in keep
        /\ Distinct(s) => Distinct(u)
        /\ (\A j \in 1 .. n : s[j] \in keep) => Len(u) = i - 1 /\ \A j \in 1 .. i - 1 : u[j] = s[j]
    BY <1>10
  <2>2. i \in 0 .. n /\ s[i] \in S /\ \A j : j \in 1 .. i <=> j \in 1 .. i - 1 \/ j = i
    BY <1>2
  <2>3. \A j \in 1 .. i - 1 : j \in 1 .. n /\ j # i
    BY <1>2
  <2>4. CASE s[i] \in keep
    <3>1. K[i] = Append(u, s[i])
      BY <1>8, <2>4
    <3> HIDE DEF u
    <3>2. /\ K[i] \in Seq(S) /\ Len(K[i]) = Len(u) + 1
          /\ \A j \in 1 .. Len(u) : K[i][j] = u[j]
          /\ K[i][Len(u) + 1] = s[i]
          /\ Elements(K[i]) = Elements(u) \cup {s[i]}
          /\ (Distinct(u) /\ s[i] \notin Elements(u)) => Distinct(K[i])
      BY <2>1, <2>2, <3>1, AppendIs
    <3>3. ASSUME Distinct(s) PROVE Distinct(K[i])
      <4>1. s[i] \notin Elements(u)
        <5>1. \A j \in 1 .. i - 1 : s[j] # s[i]
          BY <2>3, <3>3 DEF Distinct, n
        <5> QED
          BY <2>1, <5>1
      <4> QED
        BY <2>1, <3>2, <3>3, <4>1
    <3>4. ASSUME \A j \in 1 .. n : s[j] \in keep
          PROVE  Len(K[i]) = i /\ \A j \in 1 .. i : K[i][j] = s[j]
      <4>1. Len(u) = i - 1 /\ \A j \in 1 .. i - 1 : u[j] = s[j]
        BY <2>1, <3>4
      <4>2. (i - 1) + 1 = i
        OBVIOUS
      <4>3. Len(K[i]) = i /\ K[i][i] = s[i] /\ \A j \in 1 .. i - 1 : K[i][j] = s[j]
        BY <3>2, <4>1, <4>2
      <4> QED
        BY <2>2, <4>3
    <3>5. ASSUME NEW h
          PROVE  h \in Elements(K[i]) <=> \E j \in 1 .. i : h = s[j] /\ s[j] \in keep
      BY <2>1, <2>2, <2>4, <3>2
    <3> QED
      BY <2>2, <3>2, <3>3, <3>4, <3>5
  <2>5. CASE s[i] \notin keep
    <3>1. K[i] = u
      BY <1>8, <2>5
    <3> HIDE DEF u
    <3>2. ASSUME NEW h
          PROVE  h \in Elements(K[i]) <=> \E j \in 1 .. i : h = s[j] /\ s[j] \in keep
      BY <2>1, <2>2, <2>5, <3>1
    <3> QED
      BY <2>1, <2>2, <2>5, <3>1, <3>2
  <2> QED
    BY <2>4, <2>5
<1>11. n \in P
  <2> HIDE DEF P
  <2>1. \A i \in 0 .. n : i \in P
    BY <1>2, <1>9, <1>10, UptoInduction
  <2>2. n \in 0 .. n
    BY <1>2
  <2> QED
    BY <2>1, <2>2
<1>12. /\ K[n] \in Seq(S)
       /\ \A h : h \in Elements(K[n]) <=> \E j \in 1 .. n : h = s[j] /\ s[j] \in keep
       /\ Distinct(s) => Distinct(K[n])
       /\ (\A j \in 1 .. n : s[j] \in keep) =>
            Len(K[n]) = n /\ \A j \in 1 .. n : K[n][j] = s[j]
  BY <1>11
<1> HIDE DEF P
<1>13. Elements(K[n]) = Elements(s) \cap keep
  <2>1. \A h : h \in Elements(s) <=> \E j \in 1 .. n : h = s[j]
    BY DEF Elements, n
  <2> QED
    BY <1>12, <2>1
<1>14. ASSUME Elements(s) \subseteq keep PROVE K[n] = s
  <2>1. \A j \in 1 .. n : s[j] \in keep
    BY <1>14 DEF Elements, n
  <2>2. Len(K[n]) = Len(s) /\ \A j \in 1 .. Len(s) : K[n][j] = s[j]
    BY <1>12, <2>1 DEF n
  <2> QED
    BY <1>12, <2>2
<1> QED
  BY <1>1, <1>12, <1>13, <1>14

-----------------------------------------------------------------------------
(* The first lists joined are the ones before joined, and the next.        *)
LEMMA JoinsAre ==
    ASSUME NEW S, NEW hits \in Seq(Seq(S))
    PROVE  LET B == JoinUpTo(hits)
               n == Len(hits)
           IN /\ n \in Nat /\ \A i \in 1 .. n : hits[i] \in Seq(S)
              /\ B[0] = <<>> /\ \A i \in 1 .. n : i \in 0 .. n /\ B[i] = B[i - 1] \o hits[i]
              /\ \A i \in 0 .. n : B[i] \in Seq(S)
<1> DEFINE n == Len(hits)
           T == Seq(S)
           B[i \in 0 .. Len(hits)] == IF i = 0 THEN <<>> ELSE B[i - 1] \o hits[i]
           step == [x \in (1 .. n) \X T |-> x[2] \o hits[x[1]]]
<1>1. JoinUpTo(hits) = B
  BY DEF JoinUpTo
<1>2. n \in Nat /\ \A i \in 1 .. n : hits[i] \in Seq(S)
  OBVIOUS
<1>3. \A i \in 1 .. n, v \in T : step[<<i, v>>] = v \o hits[i] /\ step[<<i, v>>] \in T
  <2> TAKE i \in 1 .. n, v \in T
  <2>1. v \o hits[i] \in T
    BY <1>2
  <2> HIDE DEF T, n
  <2> QED
    BY <2>1
<1>4. <<>> \in T
  OBVIOUS
<1>5. PICK F : Folds(F, n, T, <<>>, step)
  <2> HIDE DEF T, step, n
  <2>1. FoldOn(n, T, <<>>, step)
    BY <1>2, <1>3, <1>4 DEF FoldOn
  <2> QED
    BY <2>1, FoldExists
<1>6. F = [i \in 0 .. n |-> IF i = 0 THEN <<>> ELSE F[i - 1] \o hits[i]]
  <2> HIDE DEF T, step, n
  <2> QED
    BY <1>3, <1>5 DEF Folds
<1>7. B = [i \in 0 .. n |-> IF i = 0 THEN <<>> ELSE B[i - 1] \o hits[i]]
  BY <1>6
<1> HIDE DEF B
<1>8. B[0] = <<>> /\ \A i \in 1 .. n : i \in 0 .. n /\ B[i] = B[i - 1] \o hits[i]
  <2>1. 0 \in 0 .. n /\ \A i \in 1 .. n : i \in 0 .. n /\ i # 0
    BY <1>2
  <2> HIDE DEF n
  <2> QED
    BY <1>7, <2>1
<1> HIDE DEF n
<1>9. \A i \in 0 .. n : B[i] \in Seq(S)
  <2>1. B[0] \in Seq(S)
    BY <1>8
  <2>2. \A i \in 1 .. n : B[i - 1] \in Seq(S) => B[i] \in Seq(S)
    <3> TAKE i \in 1 .. n
    <3> HAVE B[i - 1] \in Seq(S)
    <3>1. B[i - 1] \o hits[i] \in Seq(S)
      BY <1>2, JoinAt
    <3> QED
      BY <1>8, <3>1
  <2> DEFINE R == Seq(S)
  <2> HIDE DEF R
  <2>3. B[0] \in R /\ \A i \in 1 .. n : B[i - 1] \in R => B[i] \in R
    BY <2>1, <2>2 DEF R
  <2>4. \A i \in 0 .. n : B[i] \in R
    BY <1>2, <2>3, FoldTyped
  <2> QED
    BY <2>4 DEF R
<1> QED
  BY <1>1, <1>2, <1>8, <1>9 DEF n

(* The sentences of a batch are found again at the cursor.                 *)
LEMMA BatchIs ==
    ASSUME NEW S, NEW hits \in Seq(Seq(S))
    PROVE  LET B == JoinUpTo(hits)
               n == Len(hits)
           IN /\ B[0] = <<>> /\ \A i \in 0 .. n : B[i] \in Seq(S) /\ Len(B[i]) \in Nat
              /\ \A i \in 1 .. n :
                   /\ Len(B[i]) = Len(B[i - 1]) + Len(hits[i])
                   /\ SubSeq(B[n], Len(B[i - 1]) + 1, Len(B[i - 1]) + Len(hits[i])) = hits[i]
<1> DEFINE n == Len(hits)
           B == JoinUpTo(hits)
<1>2. n \in Nat /\ \A i \in 1 .. n : hits[i] \in Seq(S)
  OBVIOUS
<1>8. B[0] = <<>> /\ \A i \in 1 .. n : i \in 0 .. n /\ B[i] = B[i - 1] \o hits[i]
  BY JoinsAre
<1>9. \A i \in 0 .. n : B[i] \in Seq(S)
  BY JoinsAre
<1> HIDE DEF B, n
<1>10. ASSUME NEW i \in 1 .. n
       PROVE  /\ i - 1 \in 0 .. n /\ Len(B[i - 1]) \in Nat /\ Len(B[i]) \in Nat /\ Len(hits[i]) \in Nat
              /\ Len(B[i]) = Len(B[i - 1]) + Len(hits[i])
              /\ \A k \in 1 .. Len(B[i - 1]) : B[i][k] = B[i - 1][k]
              /\ \A k \in 1 .. Len(hits[i]) : B[i][Len(B[i - 1]) + k] = hits[i][k]
  <2> DEFINE u == B[i - 1]
             v == hits[i]
  <2>1. i - 1 \in 0 .. n
    BY <1>2
  <2>2. u \in Seq(S) /\ v \in Seq(S) /\ B[i] = u \o v
    BY <1>2, <1>8, <1>9, <2>1
  <2> HIDE DEF u, v
  <2>3. /\ Len(u \o v) = Len(u) + Len(v) /\ Len(u) \in Nat /\ Len(v) \in Nat
        /\ \A k \in 1 .. Len(u) : (u \o v)[k] = u[k]
        /\ \A k \in 1 .. Len(v) : (u \o v)[Len(u) + k] = v[k]
    BY <2>2, JoinAt
  <2> DEFINE w == B[i]
  <2>4. w = u \o v
    BY <2>2
  <2> HIDE DEF w
  <2>5. /\ Len(w) = Len(u) + Len(v) /\ Len(u) \in Nat /\ Len(v) \in Nat
        /\ \A k \in 1 .. Len(u) : w[k] = u[k]
        /\ \A k \in 1 .. Len(v) : w[Len(u) + k] = v[k]
    BY <2>3, <2>4
  <2>6. Len(w) \in Nat
    BY <2>5
  <2> QED
    BY <2>1, <2>5, <2>6 DEF u, v, w
<1> DEFINE P == {j \in 0 .. n : \A i \in 1 .. j :
                   /\ Len(B[i - 1]) + Len(hits[i]) <= Len(B[j])
                   /\ \A k \in 1 .. Len(hits[i]) : B[j][Len(B[i - 1]) + k] = hits[i][k]}
<1>11. ASSUME NEW j \in 1 .. n, j - 1 \in P PROVE j \in P
  <2>1. j \in 0 .. n
    BY <1>2
  <2>2. ASSUME NEW i \in 1 .. j
        PROVE  /\ Len(B[i - 1]) + Len(hits[i]) <= Len(B[j])
               /\ \A k \in 1 .. Len(hits[i]) : B[j][Len(B[i - 1]) + k] = hits[i][k]
    <3>1. CASE i = j
      <4>1. /\ Len(B[j - 1]) + Len(hits[j]) = Len(B[j]) /\ Len(B[j]) \in Int
            /\ \A k \in 1 .. Len(hits[j]) : B[j][Len(B[j - 1]) + k] = hits[j][k]
        <5> DEFINE a == Len(B[j - 1])
                   h == Len(hits[j])
                   z == Len(B[j])
        <5>1. /\ z = a + h /\ a \in Nat /\ h \in Nat
              /\ \A k \in 1 .. h : B[j][a + k] = hits[j][k]
          BY <1>10
        <5> HIDE DEF a, h, z
        <5>2. a + h = z /\ z \in Int
          BY <5>1
        <5> QED
          BY <5>1, <5>2 DEF a, h, z
      <4>2. Len(B[j - 1]) + Len(hits[j]) <= Len(B[j])
        <5> DEFINE a == Len(B[j - 1])
                   h == Len(hits[j])
                   z == Len(B[j])
        <5>1. a + h = z /\ z \in Int
          BY <4>1
        <5> HIDE DEF a, h, z
        <5>2. a + h <= z
          BY <5>1
        <5> QED
          BY <5>2 DEF a, h, z
      <4> HIDE DEF P
      <4> QED
        BY <3>1, <4>1, <4>2
    <3>2. CASE i # j
      <4>1. i \in 1 .. j - 1 /\ i \in 1 .. n
        BY <1>2, <3>2
      <4> DEFINE lo == Len(B[i - 1])
                 m == Len(hits[i])
                 top == Len(B[j - 1])
      <4>2. /\ lo + m <= top
            /\ \A k \in 1 .. m : B[j - 1][lo + k] = hits[i][k]
        BY <1>11, <4>1
      <4>3. lo \in Nat /\ m \in Nat /\ top \in Nat /\ top <= Len(B[j]) /\ Len(B[j]) \in Nat
        <5>1. lo \in Nat /\ m \in Nat
          BY <1>10, <4>1
        <5>2. /\ top \in Nat /\ Len(B[j]) \in Nat /\ Len(hits[j]) \in Nat
              /\ Len(B[j]) = top + Len(hits[j])
          BY <1>10
        <5>3. top <= Len(B[j])
          <6> DEFINE z == Len(B[j])
                     h == Len(hits[j])
          <6>1. top \in Nat /\ z \in Nat /\ h \in Nat /\ z = top + h
            BY <5>2
          <6> HIDE DEF top, z, h
          <6>2. top <= z
            BY <6>1
          <6> QED
            BY <6>2 DEF z
        <5> QED
          BY <5>1, <5>2, <5>3
      <4>4. \A k \in 1 .. top : B[j][k] = B[j - 1][k]
        BY <1>10
      <4> HIDE DEF lo, m, top, P
      <4>5. \A k \in 1 .. m : lo + k \in 1 .. top
        BY <4>2, <4>3
      <4>6. lo + m <= Len(B[j])
        BY <4>2, <4>3
      <4> QED
        BY <4>2, <4>4, <4>5, <4>6 DEF lo, m
    <3> QED
      BY <3>1, <3>2
  <2> QED
    BY <2>1, <2>2
<1>12. n \in P
  <2>1. 0 \in P
    <3>1. 0 \in 0 .. n /\ 1 .. 0 = {}
      BY <1>2
    <3> QED
      BY <3>1
  <2> HIDE DEF P
  <2>2. \A i \in 0 .. n : i \in P
    BY <1>2, <1>11, <2>1, UptoInduction
  <2>3. n \in 0 .. n
    BY <1>2
  <2> QED
    BY <2>2, <2>3
<1>13. ASSUME NEW i \in 1 .. n
       PROVE  SubSeq(B[n], Len(B[i - 1]) + 1, Len(B[i - 1]) + Len(hits[i])) = hits[i]
  <2> DEFINE lo == Len(B[i - 1])
             m == Len(hits[i])
             b == B[n]
             q == SubSeq(b, lo + 1, lo + m)
  <2>1. /\ lo + m <= Len(b) /\ \A k \in 1 .. m : b[lo + k] = hits[i][k]
    BY <1>12
  <2>2. lo \in Nat /\ m \in Nat /\ hits[i] \in Seq(S) /\ b \in Seq(S) /\ Len(b) \in Nat
    <3>1. n \in 0 .. n
      BY <1>2
    <3> QED
      BY <1>2, <1>9, <1>10, <3>1
  <2>d. m = Len(hits[i])
    OBVIOUS
  <2>q. q = SubSeq(b, lo + 1, lo + m)
    OBVIOUS
  <2> HIDE DEF lo, m, b, P, q
  <2>3. lo + 1 \in Int /\ lo + m \in Int /\ \A k \in lo + 1 .. lo + m : b[k] \in S
    BY <2>1, <2>2
  <2>4. /\ q \in Seq(S)
        /\ Len(q) = IF lo + 1 <= lo + m THEN (lo + m) - (lo + 1) + 1 ELSE 0
        /\ \A k \in 1 .. (lo + m) - (lo + 1) + 1 : q[k] = b[(lo + 1) + k - 1]
    BY <2>3, <2>q, SubSeqProperties
  <2>5. Len(q) = m /\ (lo + m) - (lo + 1) + 1 = m
    BY <2>2, <2>4
  <2>6. \A k \in 1 .. m : (lo + 1) + k - 1 = lo + k
    BY <2>2
  <2>7. \A k \in 1 .. m : q[k] = hits[i][k]
    BY <2>1, <2>4, <2>5, <2>6
  <2>8. q = hits[i]
    <3> DEFINE v == hits[i]
    <3>1. v \in Seq(S) /\ q \in Seq(S) /\ Len(q) = Len(v) /\ \A k \in 1 .. Len(v) : q[k] = v[k]
      BY <2>2, <2>4, <2>5, <2>7, <2>d
    <3> HIDE DEF v
    <3>2. q = v
      BY <3>1
    <3> QED
      BY <3>2 DEF v
  <2> QED
    BY <2>8, <2>q DEF lo, m, b
<1>14. \A i \in 0 .. n : Len(B[i]) \in Nat
  BY <1>9
<1> HIDE DEF P
<1> QED
  BY <1>2, <1>8, <1>9, <1>10, <1>13, <1>14 DEF n, B

(* A hit keeps sentences of its own.                                       *)
THEOREM EveryHitKeepsItsSentences ==
    ASSUME NEW S, NEW hits \in Seq(Seq(S)), NEW threshold
    PROVE  \A j \in DOMAIN Highlight(hits, threshold) :
             LET pruned == Highlight(hits, threshold)[j]
             IN /\ pruned[1] \in DOMAIN hits
                /\ pruned[2] = Relevant(hits[pruned[1]], threshold)
<1> DEFINE n == Len(hits)
           scores == JoinUpTo(hits)[Len(hits)]
           D[i \in 0 .. Len(hits)] == IF i = 0 THEN [cursor |-> 0, out |-> <<>>]
                                      ELSE Dealt(D[i - 1], i, hits[i], scores, threshold)
           W == {Relevant(SubSeq(scores, a + 1, a + Len(hits[i])), threshold) : a \in Nat, i \in 1 .. n}
           O == (1 .. n) \X W
           T == [cursor : Nat, out : Seq(O)]
           b == [cursor |-> 0, out |-> <<>>]
           step == [x \in (1 .. n) \X T |-> Dealt(x[2], x[1], hits[x[1]], scores, threshold)]
<1>1. Highlight(hits, threshold) = D[n].out
  BY DEF Highlight
<1>2. n \in Nat /\ DOMAIN hits = 1 .. n /\ \A i \in 1 .. n : hits[i] \in Seq(S) /\ Len(hits[i]) \in Nat
  OBVIOUS
<1>p. \A i \in 1 .. n : i - 1 \in 0 .. n
  BY <1>2
<1> HIDE DEF scores
<1>3. \A i \in 1 .. n, a \in Nat :
        Relevant(SubSeq(scores, a + 1, a + Len(hits[i])), threshold) \in W
  OBVIOUS
<1> HIDE DEF W
<1>4. ASSUME NEW i \in 1 .. n, NEW d \in T
      PROVE  Dealt(d, i, hits[i], scores, threshold) \in T
  <2> DEFINE kept == Relevant(SubSeq(scores, d.cursor + 1, d.cursor + Len(hits[i])), threshold)
  <2>1. d.cursor \in Nat /\ d.out \in Seq(O) /\ d.cursor + Len(hits[i]) \in Nat
    BY <1>2
  <2>2. <<i, kept>> \in O
    BY <1>3, <2>1
  <2> HIDE DEF O, kept
  <2>3. Append(d.out, <<i, kept>>) \in Seq(O)
    BY <2>1, <2>2
  <2> QED
    BY <2>1, <2>3 DEF Dealt, kept
<1> HIDE DEF O
<1>5. \A i \in 1 .. n, v \in T : /\ step[<<i, v>>] = Dealt(v, i, hits[i], scores, threshold)
                                /\ step[<<i, v>>] \in T
  <2> HIDE DEF T, n
  <2> QED
    BY <1>4
<1>6. b \in T
  OBVIOUS
<1>7. PICK F : Folds(F, n, T, b, step)
  <2> HIDE DEF T, step, n, b
  <2>1. FoldOn(n, T, b, step)
    BY <1>2, <1>5, <1>6 DEF FoldOn
  <2> QED
    BY <2>1, FoldExists
<1>8. F = [i \in 0 .. n |-> IF i = 0 THEN b ELSE Dealt(F[i - 1], i, hits[i], scores, threshold)]
  <2> HIDE DEF T, step, n, b
  <2> QED
    BY <1>5, <1>7 DEF Folds
<1>9. D = [i \in 0 .. n |-> IF i = 0 THEN b ELSE Dealt(D[i - 1], i, hits[i], scores, threshold)]
  BY <1>8
<1> HIDE DEF D
<1>10. /\ D[0] = b
       /\ \A i \in 1 .. n : i \in 0 .. n /\ D[i] = Dealt(D[i - 1], i, hits[i], scores, threshold)
  <2>1. 0 \in 0 .. n /\ \A i \in 1 .. n : i \in 0 .. n /\ i # 0
    BY <1>2
  <2> HIDE DEF n, b
  <2> QED
    BY <1>9, <2>1
<1> DEFINE B == JoinUpTo(hits)
           Own(x) == x[1] \in 1 .. n /\ x[2] = Relevant(hits[x[1]], threshold)
           P == {i \in 0 .. n : /\ D[i] \in T /\ D[i].cursor = Len(B[i])
                                /\ \A j \in 1 .. Len(D[i].out) : Own(D[i].out[j])}
<1>11. /\ B[0] = <<>> /\ \A i \in 0 .. n : B[i] \in Seq(S) /\ Len(B[i]) \in Nat
       /\ \A i \in 1 .. n :
            /\ Len(B[i]) = Len(B[i - 1]) + Len(hits[i])
            /\ SubSeq(scores, Len(B[i - 1]) + 1, Len(B[i - 1]) + Len(hits[i])) = hits[i]
  BY BatchIs DEF scores
<1> HIDE DEF n, B
<1>12. 0 \in P
  <2>1. 0 \in 0 .. n /\ Len(<<>>) = 0 /\ 1 .. 0 = {}
    BY <1>2
  <2>2. D[0].cursor = 0 /\ D[0].out = <<>> /\ D[0] \in T
    BY <1>6, <1>10
  <2> HIDE DEF T
  <2> QED
    BY <1>11, <2>1, <2>2
<1>13. ASSUME NEW i \in 1 .. n, i - 1 \in P PROVE i \in P
  <2> DEFINE d == D[i - 1]
             kept == Relevant(SubSeq(scores, d.cursor + 1, d.cursor + Len(hits[i])), threshold)
  <2>1. d \in T /\ d.cursor = Len(B[i - 1]) /\ \A j \in 1 .. Len(d.out) : Own(d.out[j])
    BY <1>13
  <2>2. D[i] = Dealt(d, i, hits[i], scores, threshold) /\ i \in 0 .. n
    BY <1>10
  <2>3. D[i] \in T
    BY <1>4, <2>1, <2>2
  <2>4. kept = Relevant(hits[i], threshold)
    BY <1>11, <2>1
  <2> HIDE DEF d, kept
  <2>5. /\ D[i].cursor = d.cursor + Len(hits[i])
        /\ D[i].out = IF hits[i] = <<>> \/ kept # <<>> THEN Append(d.out, <<i, kept>>) ELSE d.out
    BY <2>2 DEF Dealt, kept
  <2>6. D[i].cursor = Len(B[i])
    BY <1>11, <2>1, <2>5
  <2>7. \A j \in 1 .. Len(D[i].out) : Own(D[i].out[j])
    <3>1. d.out \in Seq(O) /\ D[i].out \in Seq(O)
      BY <2>1, <2>3
    <3> HIDE DEF T, P
    <3>2. CASE D[i].out = d.out
      BY <2>1, <3>2
    <3>3. CASE D[i].out = Append(d.out, <<i, kept>>)
      <4> DEFINE u == d.out
                 x == <<i, kept>>
                 v == D[i].out
      <4>1. Own(x)
        BY <2>4
      <4>2. \A j \in 1 .. Len(u) : Own(u[j])
        BY <2>1
      <4>3. u \in Seq(O) /\ v = Append(u, x)
        BY <3>1, <3>3
      <4> HIDE DEF u, x, v, Own
      <4>4. /\ Len(u) \in Nat /\ Len(v) = Len(u) + 1 /\ v[Len(u) + 1] = x
            /\ \A j \in 1 .. Len(u) : v[j] = u[j]
        BY <4>3
      <4>5. \A j \in 1 .. Len(v) : j \in 1 .. Len(u) \/ j = Len(u) + 1
        BY <4>4
      <4>6. \A j \in 1 .. Len(v) : Own(v[j])
        BY <4>1, <4>2, <4>4, <4>5
      <4> QED
        BY <4>6 DEF v
    <3> QED
      BY <2>5, <3>2, <3>3
  <2> HIDE DEF T, Own
  <2> QED
    BY <2>2, <2>3, <2>6, <2>7
<1>14. n \in P
  <2> HIDE DEF P
  <2>1. \A i \in 0 .. n : i \in P
    BY <1>2, <1>12, <1>13, UptoInduction
  <2>2. n \in 0 .. n
    BY <1>2
  <2> QED
    BY <2>1, <2>2
<1>15. D[n].out \in Seq(O) /\ \A j \in 1 .. Len(D[n].out) : Own(D[n].out[j])
  BY <1>14
<1> HIDE DEF P
<1>16. \A j \in DOMAIN D[n].out : Own(D[n].out[j])
  <2> DEFINE o == D[n].out
  <2>1. o \in Seq(O)
    BY <1>15
  <2> HIDE DEF o
  <2>2. DOMAIN o = 1 .. Len(o)
    BY <2>1
  <2> HIDE DEF Own
  <2> QED
    BY <1>15, <2>2 DEF o
<1> QED
  BY <1>1, <1>2, <1>16

-----------------------------------------------------------------------------
(* Fusion.                                                                 *)

(* The rank of an element of a list without repetition.                    *)
LEMMA PositionIs ==
    ASSUME NEW S, NEW s \in Seq(S), Distinct(s), NEW h
    PROVE  /\ Position(s, h) \in Nat /\ Position(s, h) <= Len(s)
           /\ Position(s, h) # 0 <=> h \in Elements(s)
           /\ Position(s, h) # 0 => Position(s, h) \in 1 .. Len(s) /\ s[Position(s, h)] = h
           /\ \A i \in 1 .. Len(s) : s[i] = h => Position(s, h) = i
<1> DEFINE n == Len(s)
<1>1. n \in Nat /\ \A i, j \in 1 .. n : i # j => s[i] # s[j]
  BY DEF Distinct
<1>2. CASE h \notin Elements(s)
  <2>1. Position(s, h) = 0 /\ \A i \in 1 .. n : s[i] # h
    BY <1>2 DEF Position, Elements
  <2> HIDE DEF n
  <2> QED
    BY <1>1, <1>2, <2>1 DEF n
<1>3. CASE h \in Elements(s)
  <2>1. \E i \in 1 .. n : s[i] = h
    BY <1>3 DEF Elements
  <2>2. Position(s, h) = CHOOSE i \in 1 .. n : s[i] = h
    BY <1>3 DEF Position
  <2>3. Position(s, h) \in 1 .. n /\ s[Position(s, h)] = h
    BY <2>1, <2>2
  <2>4. \A i \in 1 .. n : s[i] = h => Position(s, h) = i
    BY <1>1, <2>3
  <2> QED
    BY <1>1, <1>3, <2>3, <2>4
<1> QED
  BY <1>2, <1>3

-----------------------------------------------------------------------------

(* Products keep an order.                                                 *)
LEMMA ProductsOrdered ==
    ASSUME NEW a \in Nat, NEW b \in Nat, NEW c \in Nat, NEW d \in Nat \ {0}
    PROVE  /\ a > b => a * d > b * d
           /\ a >= b => a * c >= b * c
           /\ a * c \in Nat
OBVIOUS

(* Of three fractions, the middle one is below the first or above the      *)
(* last.                                                                   *)
LEMMA FractionsOrdered ==
    ASSUME NEW a \in Nat, NEW c \in Nat, NEW e \in Nat,
           NEW b \in Nat \ {0}, NEW d \in Nat \ {0}, NEW f \in Nat \ {0},
           a * f > e * b
    PROVE  a * d > c * b \/ c * f > e * d
<1> SUFFICES ASSUME ~(a * d > c * b), ~(c * f > e * d) PROVE FALSE
  OBVIOUS
<1>1. a * d \in Nat /\ c * b \in Nat /\ c * f \in Nat /\ e * d \in Nat /\ a * f \in Nat /\ e * b \in Nat
  OBVIOUS
<1>2. (c * b) * f >= (a * d) * f
  BY <1>1, ProductsOrdered
<1>3. (e * d) * b >= (c * f) * b
  BY <1>1, ProductsOrdered
<1>4. (a * f) * d > (e * b) * d
  BY <1>1, ProductsOrdered
<1>5. (c * b) * f = (c * f) * b /\ (a * d) * f = (a * f) * d /\ (e * d) * b = (e * b) * d
  OBVIOUS
<1>6. (c * b) * f \in Nat /\ (a * d) * f \in Nat /\ (e * d) * b \in Nat
  BY <1>1
<1> QED
  BY <1>2, <1>3, <1>4, <1>5, <1>6

(* The sum of a larger fraction and one as large is larger.                *)
LEMMA SumsOrdered ==
    ASSUME NEW a \in Nat, NEW c \in Nat, NEW e \in Nat, NEW g \in Nat,
           NEW b \in Nat \ {0}, NEW d \in Nat \ {0}, NEW f \in Nat \ {0}, NEW h \in Nat \ {0},
           a * d > c * b, e * h >= g * f
    PROVE  (a * f + e * b) * (d * h) > (c * h + g * d) * (b * f)
<1>1. /\ a * d \in Nat /\ c * b \in Nat /\ e * h \in Nat /\ g * f \in Nat
      /\ f * h \in Nat \ {0} /\ b * d \in Nat
  OBVIOUS
<1>2. (a * d) * (f * h) > (c * b) * (f * h)
  BY <1>1, ProductsOrdered
<1>3. (e * h) * (b * d) >= (g * f) * (b * d)
  BY <1>1, ProductsOrdered
<1>4. /\ (a * d) * (f * h) \in Nat /\ (c * b) * (f * h) \in Nat
      /\ (e * h) * (b * d) \in Nat /\ (g * f) * (b * d) \in Nat
  BY <1>1
<1>5. (a * d) * (f * h) + (e * h) * (b * d) > (c * b) * (f * h) + (g * f) * (b * d)
  BY <1>2, <1>3, <1>4
<1>6. (a * f + e * b) * (d * h) = (a * d) * (f * h) + (e * h) * (b * d)
  OBVIOUS
<1>7. (c * h + g * d) * (b * f) = (c * b) * (f * h) + (g * f) * (b * d)
  OBVIOUS
<1> QED
  BY <1>5, <1>6, <1>7

(* Two reciprocals, one of them as large as a third, are more than it.     *)
LEMMA TwoRanksBeatOne ==
    ASSUME NEW a \in Nat \ {0}, NEW b \in Nat \ {0}, NEW c \in Nat \ {0}, a <= c \/ b <= c
    PROVE  (b + a) * c > a * b
<1>1. (b + a) * c = b * c + a * c
  OBVIOUS
<1>2. CASE a <= c
  <2>1. c * b >= a * b /\ a * c > 0 /\ b * c = c * b
    BY <1>2, ProductsOrdered
  <2> QED
    BY <1>1, <2>1
<1>3. CASE b <= c
  <2>1. c * a >= b * a /\ b * c > 0 /\ a * c = c * a /\ a * b = b * a
    BY <1>3, ProductsOrdered
  <2> QED
    BY <1>1, <2>1
<1> QED
  BY <1>2, <1>3

(* Fractions as pairs.                                                     *)
Fraction == Nat \X (Nat \ {0})

(* The reciprocal of a rank is a fraction; a better rank has a larger one. *)
LEMMA RanksAreFractions ==
    /\ \A p \in Nat : Reciprocal(p) \in Fraction
    /\ \A p, q \in Nat : (q = 0 \/ (p # 0 /\ p <= q)) =>
         Reciprocal(p)[1] * Reciprocal(q)[2] >= Reciprocal(q)[1] * Reciprocal(p)[2]
    /\ \A p, q \in Nat : (p # 0 /\ (q = 0 \/ p < q)) =>
         Reciprocal(p)[1] * Reciprocal(q)[2] > Reciprocal(q)[1] * Reciprocal(p)[2]
<1>1. ASSUME NEW p \in Nat
      PROVE  /\ Reciprocal(p)[1] \in Nat /\ Reciprocal(p)[2] \in Nat \ {0}
             /\ Reciprocal(p) \in Fraction
             /\ p = 0 => Reciprocal(p)[1] = 0 /\ Reciprocal(p)[2] = 1
             /\ p # 0 => Reciprocal(p)[1] = 1 /\ Reciprocal(p)[2] = RRF_K + p
  BY FusionAssumption DEF Reciprocal, Fraction
<1>2. ASSUME NEW p \in Nat, NEW q \in Nat, NEW x \in Nat, NEW y \in Nat \ {0},
             NEW v \in Nat, NEW w \in Nat \ {0},
             p = 0 => x = 0 /\ y = 1, p # 0 => x = 1 /\ y = RRF_K + p,
             q = 0 => v = 0 /\ w = 1, q # 0 => v = 1 /\ w = RRF_K + q
      PROVE  /\ (q = 0 \/ (p # 0 /\ p <= q)) => x * w >= v * y
             /\ (p # 0 /\ (q = 0 \/ p < q)) => x * w > v * y
  <2>1. CASE q = 0
    <3>1. x * w = x /\ v * y = 0
      BY <1>2, <2>1
    <3> QED
      BY <1>2, <3>1
  <2>2. CASE q # 0 /\ p # 0
    <3>1. x * w = RRF_K + q /\ v * y = RRF_K + p
      BY <1>2, <2>2, FusionAssumption
    <3> QED
      BY <2>2, <3>1, FusionAssumption
  <2> QED
    BY <2>1, <2>2
<1>3. ASSUME NEW p \in Nat, NEW q \in Nat
      PROVE  /\ (q = 0 \/ (p # 0 /\ p <= q)) =>
                  Reciprocal(p)[1] * Reciprocal(q)[2] >= Reciprocal(q)[1] * Reciprocal(p)[2]
             /\ (p # 0 /\ (q = 0 \/ p < q)) =>
                  Reciprocal(p)[1] * Reciprocal(q)[2] > Reciprocal(q)[1] * Reciprocal(p)[2]
  <2> DEFINE x == Reciprocal(p)[1]
             y == Reciprocal(p)[2]
             v == Reciprocal(q)[1]
             w == Reciprocal(q)[2]
  <2>1. /\ x \in Nat /\ y \in Nat \ {0} /\ v \in Nat /\ w \in Nat \ {0}
        /\ p = 0 => x = 0 /\ y = 1
        /\ p # 0 => x = 1 /\ y = RRF_K + p
        /\ q = 0 => v = 0 /\ w = 1
        /\ q # 0 => v = 1 /\ w = RRF_K + q
    BY <1>1
  <2> HIDE DEF x, y, v, w
  <2>2. /\ (q = 0 \/ (p # 0 /\ p <= q)) => x * w >= v * y
        /\ (p # 0 /\ (q = 0 \/ p < q)) => x * w > v * y
    BY <1>2, <2>1
  <2> QED
    BY <2>2 DEF x, y, v, w
<1> QED
  BY <1>1, <1>3

(* A passage that both arms rank above another is better.                  *)
LEMMA AboveIsBetter ==
    ASSUME NEW dense, NEW sparse, NEW a, NEW b,
           Position(dense, a) \in Nat, Position(dense, b) \in Nat,
           Position(sparse, a) \in Nat, Position(sparse, b) \in Nat,
           Position(dense, a) # 0,
           Position(dense, b) = 0 \/ Position(dense, a) < Position(dense, b),
           \/ Position(sparse, b) = 0
           \/ Position(sparse, a) # 0 /\ Position(sparse, a) <= Position(sparse, b)
    PROVE  Greater(Fused(dense, sparse, a), Fused(dense, sparse, b))
<1> DEFINE x == Reciprocal(Position(dense, a))
           y == Reciprocal(Position(sparse, a))
           v == Reciprocal(Position(dense, b))
           w == Reciprocal(Position(sparse, b))
<1>1. x \in Fraction /\ y \in Fraction /\ v \in Fraction /\ w \in Fraction
  BY RanksAreFractions
<1>2. x[1] * v[2] > v[1] * x[2]
  BY RanksAreFractions
<1>3. y[1] * w[2] >= w[1] * y[2]
  BY RanksAreFractions
<1>f. Fused(dense, sparse, a) = Sum2(x, y) /\ Fused(dense, sparse, b) = Sum2(v, w)
  BY DEF Fused
<1> HIDE DEF x, y, v, w
<1>4. /\ x[1] \in Nat /\ x[2] \in Nat \ {0} /\ y[1] \in Nat /\ y[2] \in Nat \ {0}
      /\ v[1] \in Nat /\ v[2] \in Nat \ {0} /\ w[1] \in Nat /\ w[2] \in Nat \ {0}
  BY <1>1 DEF Fraction
<1>5. (x[1] * y[2] + y[1] * x[2]) * (v[2] * w[2]) > (v[1] * w[2] + w[1] * v[2]) * (x[2] * y[2])
  BY <1>2, <1>3, <1>4, SumsOrdered
<1> QED
  BY <1>5, <1>f DEF Greater, Sum2

(* A passage that both arms found is better than one that only one found.  *)
LEMMA BothAreBetter ==
    ASSUME NEW dense, NEW sparse, NEW a, NEW b,
           Position(dense, a) \in Nat \ {0}, Position(sparse, a) \in Nat \ {0},
           Position(dense, b) \in Nat, Position(sparse, b) \in Nat,
           NEW rank, rank \in Nat \ {0},
           \/ Position(dense, b) = rank /\ Position(sparse, b) = 0
           \/ Position(dense, b) = 0 /\ Position(sparse, b) = rank,
           Position(dense, a) <= rank \/ Position(sparse, a) <= rank
    PROVE  Greater(Fused(dense, sparse, a), Fused(dense, sparse, b))
<1> DEFINE A == RRF_K + Position(dense, a)
           B == RRF_K + Position(sparse, a)
           C == RRF_K + rank
<1>1. A \in Nat \ {0} /\ B \in Nat \ {0} /\ C \in Nat \ {0} /\ (A <= C \/ B <= C)
  BY FusionAssumption
<1>2. Fused(dense, sparse, a) = <<1 * B + 1 * A, A * B>>
  <2>1. Reciprocal(Position(dense, a)) = <<1, A>> /\ Reciprocal(Position(sparse, a)) = <<1, B>>
    BY DEF Reciprocal
  <2> HIDE DEF A, B
  <2> QED
    BY <2>1 DEF Fused, Sum2
<1>3. \/ Fused(dense, sparse, b) = <<1 * 1 + 0 * C, C * 1>>
      \/ Fused(dense, sparse, b) = <<0 * C + 1 * 1, 1 * C>>
  <2>1. \/ Reciprocal(Position(dense, b)) = <<1, C>> /\ Reciprocal(Position(sparse, b)) = <<0, 1>>
        \/ Reciprocal(Position(dense, b)) = <<0, 1>> /\ Reciprocal(Position(sparse, b)) = <<1, C>>
    BY DEF Reciprocal
  <2> HIDE DEF C
  <2> QED
    BY <2>1 DEF Fused, Sum2
<1> HIDE DEF A, B, C
<1>4. (B + A) * C > A * B
  BY <1>1, TwoRanksBeatOne
<1>5. Fused(dense, sparse, a) = <<B + A, A * B>> /\ Fused(dense, sparse, b) = <<1, C>>
  <2>1. 1 * B + 1 * A = B + A
    BY <1>1
  <2>2. 1 * 1 + 0 * C = 1 /\ C * 1 = C /\ 0 * C + 1 * 1 = 1 /\ 1 * C = C
    BY <1>1
  <2> QED
    BY <1>2, <1>3, <2>1, <2>2
<1>6. 1 * (A * B) = A * B
  BY <1>1
<1> QED
  BY <1>4, <1>5, <1>6 DEF Greater

(* A list that is in order stays as it is.                                 *)
LEMMA SortedAlready ==
    ASSUME NEW S, NEW s \in Seq(S), NEW better,
           \A i, j \in 1 .. Len(s) : <<i, j>> \in better <=> i < j
    PROVE  Sorted(s, better) = s
<1> DEFINE n == Len(s)
           c(i) == Cardinality(Ahead(n, better, i))
<1>1. n \in Nat
  OBVIOUS
<1>2. ASSUME NEW i \in 1 .. n PROVE c(i) = i - 1
  <2>1. Ahead(n, better, i) = 1 .. i - 1
    BY <1>1 DEF Ahead
  <2>2. i - 1 \in Int /\ 1 \in Int
    OBVIOUS
  <2>3. Cardinality(1 .. i - 1) = IF 1 > i - 1 THEN 0 ELSE (i - 1) - 1 + 1
    BY <2>2, FS_Interval
  <2> QED
    BY <2>1, <2>3
<1>3. Sorted(s, better) = [k \in 1 .. n |-> s[CHOOSE i \in 1 .. n : c(i) = k - 1]]
  BY DEF Sorted
<1> HIDE DEF c
<1>4. ASSUME NEW k \in 1 .. n PROVE (CHOOSE i \in 1 .. n : c(i) = k - 1) = k
  <2>1. \A i \in 1 .. n : c(i) = k - 1 <=> i = k
    BY <1>2
  <2> HIDE DEF n
  <2> QED
    BY <2>1
<1>5. Sorted(s, better) = [k \in 1 .. n |-> s[k]]
  BY <1>3, <1>4
<1> QED
  BY <1>5

(* The passages of both arms, those of the dense one first, and which of   *)
(* two has the larger fused score.                                         *)
Keys(dense, sparse) == dense \o Kept(sparse, Elements(sparse) \ Elements(dense))
BetterKeys(dense, sparse) ==
    {p \in Pairs(Keys(dense, sparse)) : Greater(Fused(dense, sparse, Keys(dense, sparse)[p[1]]),
                                               Fused(dense, sparse, Keys(dense, sparse)[p[2]]))}

(* The fused score is a fraction.                                          *)
LEMMA FusedIsAFraction ==
    ASSUME NEW dense, NEW sparse, NEW h, Position(dense, h) \in Nat, Position(sparse, h) \in Nat
    PROVE  Fused(dense, sparse, h) \in Fraction
<1> DEFINE x == Reciprocal(Position(dense, h))
           y == Reciprocal(Position(sparse, h))
<1>1. x \in Fraction /\ y \in Fraction
  BY RanksAreFractions
<1>2. Fused(dense, sparse, h) = Sum2(x, y)
  BY DEF Fused
<1> HIDE DEF x, y
<1>3. x[1] \in Nat /\ x[2] \in Nat \ {0} /\ y[1] \in Nat /\ y[2] \in Nat \ {0}
  BY <1>1 DEF Fraction
<1>4. x[1] * y[2] + y[1] * x[2] \in Nat /\ x[2] * y[2] \in Nat \ {0}
  <2> DEFINE a == x[1]
             b == x[2]
             c == y[1]
             d == y[2]
  <2>1. a \in Nat /\ b \in Nat \ {0} /\ c \in Nat /\ d \in Nat \ {0}
    BY <1>3
  <2> HIDE DEF a, b, c, d
  <2>2. a * d \in Nat /\ c * b \in Nat /\ b * d \in Nat /\ b * d # 0
    BY <2>1
  <2>3. a * d + c * b \in Nat /\ b * d \in Nat \ {0}
    BY <2>2
  <2> QED
    BY <2>3 DEF a, b, c, d
<1> QED
  BY <1>2, <1>4 DEF Sum2, Fraction

(* The passages of both arms, none twice; comparing fused scores orders    *)
(* them.                                                                   *)
LEMMA KeysAre ==
    ASSUME NEW H, NEW dense \in Seq(H), NEW sparse \in Seq(H), Distinct(dense), Distinct(sparse)
    PROVE  /\ Keys(dense, sparse) \in Seq(H) /\ Distinct(Keys(dense, sparse))
           /\ Elements(Keys(dense, sparse)) = Elements(dense) \cup Elements(sparse)
           /\ WeakOrder(Len(Keys(dense, sparse)), BetterKeys(dense, sparse))
<1> DEFINE keep == Elements(sparse) \ Elements(dense)
           rest == Kept(sparse, keep)
           keys == Keys(dense, sparse)
           n == Len(keys)
           better == BetterKeys(dense, sparse)
           f(h) == Fused(dense, sparse, h)
<1>1. rest \in Seq(H) /\ Elements(rest) = Elements(sparse) \cap keep /\ Distinct(rest)
  BY KeptIs
<1>2. keys = dense \o rest
  BY DEF Keys
<1> HIDE DEF rest
<1>3. /\ keys \in Seq(H) /\ Elements(keys) = Elements(dense) \cup Elements(rest)
      /\ Elements(dense) \cap Elements(rest) = {} => Distinct(keys)
  BY <1>1, <1>2, ElementsOfJoin
<1>4. Elements(keys) = Elements(dense) \cup Elements(sparse) /\ Distinct(keys)
  BY <1>1, <1>3
<1>5. \A i, j \in 1 .. n : <<i, j>> \in better <=> Greater(f(keys[i]), f(keys[j]))
  BY DEF BetterKeys, Pairs
<1>6. \A h : f(h) \in Fraction
  BY PositionIs, FusedIsAFraction
<1> HIDE DEF f, keys, better
<1>7. ASSUME NEW x \in Fraction, NEW y \in Fraction
      PROVE  /\ Greater(x, y) => ~Greater(y, x)
             /\ \A z \in Fraction : Greater(x, y) => Greater(x, z) \/ Greater(z, y)
  <2>0. \A z \in Fraction : z[1] \in Nat /\ z[2] \in Nat \ {0}
    BY DEF Fraction
  <2>1. Greater(x, y) => ~Greater(y, x)
    <3> DEFINE a == x[1] * y[2]
               b == y[1] * x[2]
    <3>1. a \in Nat /\ b \in Nat
      <4>1. x[1] \in Nat /\ y[2] \in Nat /\ y[1] \in Nat /\ x[2] \in Nat
        BY <2>0
      <4> QED
        BY <4>1
    <3>2. (Greater(x, y) <=> a > b) /\ (Greater(y, x) <=> b > a)
      BY DEF Greater
    <3> HIDE DEF a, b
    <3> QED
      BY <3>1, <3>2
  <2>2. ASSUME NEW z \in Fraction, Greater(x, y) PROVE Greater(x, z) \/ Greater(z, y)
    <3>1. x[1] * y[2] > y[1] * x[2]
      BY <2>2 DEF Greater
    <3>2. /\ x[1] \in Nat /\ y[1] \in Nat /\ z[1] \in Nat
          /\ x[2] \in Nat \ {0} /\ y[2] \in Nat \ {0} /\ z[2] \in Nat \ {0}
      BY <2>0
    <3>3. x[1] * z[2] > z[1] * x[2] \/ z[1] * y[2] > y[1] * z[2]
      BY <3>1, <3>2, FractionsOrdered
    <3> QED
      BY <3>3 DEF Greater
  <2> QED
    BY <2>1, <2>2
<1>8. \A i, j \in 1 .. n : <<i, j>> \in better => <<j, i>> \notin better
  BY <1>5, <1>6, <1>7
<1>9. ASSUME NEW i \in 1 .. n, NEW j \in 1 .. n, NEW k \in 1 .. n, <<i, k>> \in better
      PROVE  <<i, j>> \in better \/ <<j, k>> \in better
  <2>1. Greater(f(keys[i]), f(keys[k]))
    BY <1>5, <1>9
  <2>2. Greater(f(keys[i]), f(keys[j])) \/ Greater(f(keys[j]), f(keys[k]))
    BY <1>6, <1>7, <2>1
  <2> QED
    BY <1>5, <2>2
<1> QED
  BY <1>3, <1>4, <1>8, <1>9 DEF WeakOrder, keys, better

(* The fusion is of the passages of both arms, none twice, the best of     *)
(* them and in their order.                                                *)
LEMMA RRFIs ==
    ASSUME NEW H, NEW dense \in Seq(H), NEW sparse \in Seq(H), Distinct(dense), Distinct(sparse),
           NEW limit \in Nat
    PROVE  LET fused == RRF(dense, sparse, limit)
               all == Elements(dense) \cup Elements(sparse)
           IN /\ fused \in Seq(H) /\ Distinct(fused) /\ Elements(fused) \subseteq all
              /\ Len(fused) = Min2(limit, Cardinality(all)) /\ Len(fused) <= limit
              /\ Len(fused) = Cardinality(Elements(fused))
              /\ \A b \in Elements(fused), a \in all :
                   Greater(Fused(dense, sparse, a), Fused(dense, sparse, b)) =>
                     a \in Elements(fused) /\ Position(fused, a) < Position(fused, b)
<1> DEFINE keys == Keys(dense, sparse)
           n == Len(keys)
           better == BetterKeys(dense, sparse)
           r == Sorted(keys, better)
           fused == RRF(dense, sparse, limit)
           all == Elements(dense) \cup Elements(sparse)
           f(h) == Fused(dense, sparse, h)
<1>1. fused = Take(r, limit)
  BY DEF RRF, Keys, BetterKeys
<1>2. keys \in Seq(H) /\ Distinct(keys) /\ Elements(keys) = all /\ WeakOrder(n, better)
  BY KeysAre
<1>3. \A i, j \in 1 .. n : Greater(f(keys[i]), f(keys[j])) => <<i, j>> \in better
  BY DEF BetterKeys, Pairs
<1> HIDE DEF keys, better
<1>4. /\ r \in Seq(H) /\ Len(r) = n /\ Distinct(r) /\ Elements(r) = all
      /\ \A i, j, k, l \in 1 .. n :
           (r[k] = keys[i] /\ r[l] = keys[j] /\ i \in Ahead(n, better, j)) => k < l
  BY <1>2, SortedKeeps
<1>5. Cardinality(all) = n /\ n \in Nat
  <2>1. Cardinality(Elements(keys)) = Len(keys) /\ Len(keys) \in Nat
    <3>1. keys \in Seq(H) /\ Distinct(keys)
      BY <1>2
    <3>2. Cardinality(Elements(keys)) = Len(keys)
      BY <3>1, DistinctCount
    <3>3. Len(keys) \in Nat
      BY <3>1
    <3> QED
      BY <3>2, <3>3
  <2> HIDE DEF all
  <2> QED
    BY <1>2, <2>1
<1> HIDE DEF r, fused, f, all
<1>6. /\ fused \in Seq(H) /\ Len(fused) = Min2(limit, n) /\ Len(fused) <= limit
      /\ Len(fused) \in Nat /\ Len(fused) <= n
      /\ \A i \in 1 .. Len(fused) : i \in 1 .. n /\ fused[i] = r[i]
  BY <1>1, <1>4, TakeIs
<1>7. /\ Distinct(fused) /\ Elements(fused) \subseteq all
      /\ \A i \in 1 .. n : r[i] \in Elements(fused) <=> i <= Min2(limit, n)
  BY <1>1, <1>4, TakeDistinct
<1>8. Len(fused) = Cardinality(Elements(fused))
  BY <1>6, <1>7, DistinctCount
<1>9. ASSUME NEW b \in Elements(fused), NEW a \in all, Greater(f(a), f(b))
      PROVE  a \in Elements(fused) /\ Position(fused, a) < Position(fused, b)
  <2>1. PICK l \in 1 .. Len(fused) : fused[l] = b
    BY DEF Elements
  <2>2. l \in 1 .. n /\ r[l] = b
    BY <1>6, <2>1
  <2>3. PICK k \in 1 .. n : r[k] = a
    BY <1>4 DEF Elements
  <2>4. PICK i \in 1 .. n : keys[i] = a
    BY <1>2 DEF Elements
  <2>5. PICK j \in 1 .. n : keys[j] = b
    BY <1>2, <1>7 DEF Elements
  <2>6. <<i, j>> \in better
    BY <1>3, <1>9, <2>4, <2>5
  <2>7. i \in Ahead(n, better, j)
    BY <2>6 DEF Ahead
  <2>8. k < l
    BY <1>4, <2>2, <2>3, <2>4, <2>5, <2>7
  <2>9. k \in 1 .. Len(fused) /\ k <= Min2(limit, n)
    BY <1>5, <1>6, <2>1, <2>8
  <2>10. a \in Elements(fused) /\ fused[k] = a
    BY <1>6, <1>7, <2>3, <2>9
  <2>11. Position(fused, a) = k /\ Position(fused, b) = l
    BY <1>6, <1>7, <2>1, <2>9, <2>10, PositionIs
  <2> QED
    BY <2>8, <2>10, <2>11
<1> QED
  BY <1>5, <1>6, <1>7, <1>8, <1>9 DEF fused, all, f

(* With one arm alone, its list is what is fused.                          *)
LEMMA OneArmDecides ==
    ASSUME NEW H, NEW s \in Seq(H), Distinct(s), NEW limit \in Nat
    PROVE  RRF(s, <<>>, limit) = Take(s, limit) /\ RRF(<<>>, s, limit) = Take(s, limit)
<1>1. <<>> \in Seq(H) /\ Len(<<>>) = 0 /\ Elements(<<>>) = {} /\ Distinct(<<>>)
  <2>1. <<>> \in Seq(H) /\ Len(<<>>) = 0
    OBVIOUS
  <2> QED
    BY <2>1 DEF Elements, Distinct
<1>2. \A h : Position(<<>>, h) = 0
  BY <1>1 DEF Position
<1>3. Keys(s, <<>>) = s
  <2> DEFINE keep == Elements(<<>>) \ Elements(s)
  <2>1. Elements(<<>>) \subseteq keep
    BY <1>1
  <2> HIDE DEF keep
  <2>2. Kept(<<>>, keep) = <<>>
    BY <1>1, <2>1, KeptIs
  <2>3. s \o <<>> = s
    OBVIOUS
  <2> QED
    BY <2>2, <2>3 DEF Keys, keep
<1>4. Keys(<<>>, s) = s
  <2> DEFINE keep == Elements(s) \ Elements(<<>>)
  <2>1. Elements(s) \subseteq keep
    BY <1>1
  <2> HIDE DEF keep
  <2>2. Kept(s, keep) = s
    BY <2>1, KeptIs
  <2>3. <<>> \o s = s
    OBVIOUS
  <2> QED
    BY <2>2, <2>3 DEF Keys, keep
<1>5. ASSUME NEW i \in 1 .. Len(s)
      PROVE  /\ Position(s, s[i]) = i
             /\ Fused(s, <<>>, s[i]) = <<1, RRF_K + i>> /\ Fused(<<>>, s, s[i]) = <<1, RRF_K + i>>
  <2>1. Position(s, s[i]) = i /\ i # 0 /\ Position(<<>>, s[i]) = 0 /\ RRF_K + i \in Nat
    BY <1>2, PositionIs, FusionAssumption
  <2> DEFINE d == RRF_K + i
  <2>2. Reciprocal(Position(s, s[i])) = <<1, d>> /\ Reciprocal(Position(<<>>, s[i])) = <<0, 1>>
    BY <2>1 DEF Reciprocal
  <2>3. d \in Nat
    BY <2>1
  <2> HIDE DEF d
  <2>4. /\ Fused(s, <<>>, s[i]) = <<1 * 1 + 0 * d, d * 1>>
        /\ Fused(<<>>, s, s[i]) = <<0 * d + 1 * 1, 1 * d>>
    BY <2>2 DEF Fused, Sum2
  <2>5. 1 * 1 + 0 * d = 1 /\ d * 1 = d /\ 0 * d + 1 * 1 = 1 /\ 1 * d = d
    BY <2>3
  <2> QED
    BY <2>1, <2>4, <2>5 DEF d
<1>6. ASSUME NEW i \in 1 .. Len(s), NEW j \in 1 .. Len(s)
      PROVE  Greater(<<1, RRF_K + i>>, <<1, RRF_K + j>>) <=> i < j
  <2>1. 1 * (RRF_K + j) = RRF_K + j /\ 1 * (RRF_K + i) = RRF_K + i
    BY FusionAssumption
  <2> QED
    BY <2>1, FusionAssumption DEF Greater
<1>7. \A i, j \in 1 .. Len(s) : <<i, j>> \in BetterKeys(s, <<>>) <=> i < j
  BY <1>3, <1>5, <1>6 DEF BetterKeys, Pairs
<1>8. \A i, j \in 1 .. Len(s) : <<i, j>> \in BetterKeys(<<>>, s) <=> i < j
  BY <1>4, <1>5, <1>6 DEF BetterKeys, Pairs
<1>9. Sorted(s, BetterKeys(s, <<>>)) = s /\ Sorted(s, BetterKeys(<<>>, s)) = s
  BY <1>7, <1>8, SortedAlready
<1>10. /\ RRF(s, <<>>, limit) = Take(Sorted(Keys(s, <<>>), BetterKeys(s, <<>>)), limit)
       /\ RRF(<<>>, s, limit) = Take(Sorted(Keys(<<>>, s), BetterKeys(<<>>, s)), limit)
  BY DEF RRF, Keys, BetterKeys
<1> QED
  BY <1>3, <1>4, <1>9, <1>10

(* For all lists of the two arms, limits and reranker scores: the fusion   *)
(* neither invents nor repeats a passage and is as long as it can be; one  *)
(* that both arms rank above another comes before it, as does one that     *)
(* both found before one that a single arm found at no better rank; one    *)
(* arm alone keeps its list; reranking keeps the passages, and pruning     *)
(* gives each only sentences of its own.                                   *)
THEOREM EveryFusionIsFair ==
    ASSUME NEW H, NEW dense \in Seq(H), NEW sparse \in Seq(H), Distinct(dense), Distinct(sparse),
           NEW limit \in Nat, NEW scores \in [H -> Nat]
    PROVE  FusionIsFair(dense, sparse, limit, scores)
<1> DEFINE fused == RRF(dense, sparse, limit)
           all == Elements(dense) \cup Elements(sparse)
           Above(s, a, b) == /\ Position(s, a) # 0
                              /\ (Position(s, b) = 0 \/ Position(s, a) <= Position(s, b))
           ranked == Rerank(fused, scores, limit)
           hits == [i \in DOMAIN ranked |-> [k \in 1 .. scores[ranked[i]] |-> k * i]]
           pruned == Highlight(hits, 2)
           G(a, b) == Greater(Fused(dense, sparse, a), Fused(dense, sparse, b))
<1>1. /\ fused \in Seq(H) /\ Distinct(fused) /\ Elements(fused) \subseteq all
      /\ Len(fused) = Min2(limit, Cardinality(all)) /\ Len(fused) <= limit
      /\ Len(fused) = Cardinality(Elements(fused))
      /\ \A b \in Elements(fused), a \in all :
           G(a, b) => a \in Elements(fused) /\ Position(fused, a) < Position(fused, b)
  BY RRFIs
<1>2. /\ sparse = <<>> => fused = Take(dense, limit)
      /\ dense = <<>> => fused = Take(sparse, limit)
  BY OneArmDecides
<1> HIDE DEF fused
<1>3. \A h : /\ Position(dense, h) \in Nat /\ Position(sparse, h) \in Nat
             /\ Position(dense, h) # 0 <=> h \in Elements(dense)
             /\ Position(sparse, h) # 0 <=> h \in Elements(sparse)
  BY PositionIs
<1>4. \A a, b : (Position(dense, a) # 0 /\ Position(dense, a) = Position(dense, b)) => a = b
  <2> TAKE a, b
  <2> HAVE Position(dense, a) # 0 /\ Position(dense, a) = Position(dense, b)
  <2>1. dense[Position(dense, a)] = a /\ dense[Position(dense, b)] = b
    BY PositionIs
  <2> QED
    BY <2>1
<1>5. ASSUME NEW b \in Elements(fused), NEW a \in all, a # b, Above(dense, a, b),
             Above(sparse, a, b) \/ b \notin Elements(sparse)
      PROVE  a \in Elements(fused) /\ Position(fused, a) < Position(fused, b)
  <2>1. Position(dense, b) = 0 \/ Position(dense, a) < Position(dense, b)
    BY <1>3, <1>4, <1>5
  <2>2. \/ Position(sparse, b) = 0
        \/ Position(sparse, a) # 0 /\ Position(sparse, a) <= Position(sparse, b)
    BY <1>3, <1>5
  <2>3. G(a, b)
    BY <1>3, <1>5, <2>1, <2>2, AboveIsBetter
  <2> HIDE DEF G, Above
  <2> QED
    BY <1>1, <2>3
<1>6. ASSUME NEW b \in Elements(fused), NEW a \in Elements(dense) \cap Elements(sparse), a # b,
             b \notin Elements(dense) \cap Elements(sparse),
             Min2(Position(dense, a), Position(sparse, a)) <= Position(dense, b) + Position(sparse, b)
      PROVE  a \in Elements(fused) /\ Position(fused, a) < Position(fused, b)
  <2> DEFINE rank == Position(dense, b) + Position(sparse, b)
  <2>1. Position(dense, a) \in Nat \ {0} /\ Position(sparse, a) \in Nat \ {0}
    BY <1>3
  <2>2. \/ Position(dense, b) \in Nat \ {0} /\ Position(sparse, b) = 0
        \/ Position(dense, b) = 0 /\ Position(sparse, b) \in Nat \ {0}
    BY <1>1, <1>3, <1>6
  <2>3. /\ rank \in Nat \ {0}
        /\ \/ Position(dense, b) = rank /\ Position(sparse, b) = 0
           \/ Position(dense, b) = 0 /\ Position(sparse, b) = rank
    BY <2>2
  <2>4. Position(dense, a) <= rank \/ Position(sparse, a) <= rank
    BY <1>6, <2>1 DEF Min2
  <2> HIDE DEF rank
  <2>5. G(a, b)
    BY <1>3, <2>1, <2>3, <2>4, BothAreBetter
  <2>6. a \in all
    OBVIOUS
  <2> HIDE DEF G, all
  <2> QED
    BY <1>1, <2>5, <2>6
<1>7. /\ ranked \in Seq(H) /\ Elements(ranked) = Elements(fused) /\ Len(ranked) = Len(fused)
  <2> DEFINE r == ByScore(fused, scores)
  <2>1. r \in Seq(H) /\ Len(r) = Len(fused) /\ Elements(r) = Elements(fused)
    <3>1. \A h \in H : scores[h] \in Int
      OBVIOUS
    <3> QED
      BY <1>1, <3>1, ByScoreIs
  <2>2. ranked = Take(r, limit)
    BY DEF Rerank
  <2> HIDE DEF r, ranked
  <2>3. ranked = r
    BY <1>1, <2>1, <2>2, TakeIs
  <2> QED
    BY <2>1, <2>3
<1> HIDE DEF ranked
<1>8. hits \in Seq(Seq(Int))
  <2> DEFINE m == Len(ranked)
  <2>1. /\ m \in Nat /\ DOMAIN ranked = 1 .. m
        /\ \A i \in 1 .. m : ranked[i] \in H /\ scores[ranked[i]] \in Nat
    BY <1>7
  <2> HIDE DEF m
  <2>2. ASSUME NEW i \in 1 .. m PROVE [k \in 1 .. scores[ranked[i]] |-> k * i] \in Seq(Int)
    <3> DEFINE c == scores[ranked[i]]
    <3>1. c \in Nat /\ \A k \in 1 .. c : k * i \in Int
      BY <2>1
    <3> HIDE DEF c
    <3>2. [k \in 1 .. c |-> k * i] \in Seq(Int)
      BY <3>1
    <3> QED
      BY <3>2 DEF c
  <2>3. hits = [i \in 1 .. m |-> [k \in 1 .. scores[ranked[i]] |-> k * i]]
    BY <2>1
  <2> HIDE DEF hits
  <2> QED
    BY <2>1, <2>2, <2>3
<1> HIDE DEF hits
<1>9. \A i \in DOMAIN pruned : /\ pruned[i][1] \in DOMAIN hits
                               /\ pruned[i][2] = Relevant(hits[pruned[i][1]], 2)
  BY <1>8, EveryHitKeepsItsSentences
<1> HIDE DEF pruned, all
<1>10. \A b \in Elements(fused), a \in all :
         (a # b /\ Above(dense, a, b) /\ (Above(sparse, a, b) \/ b \notin Elements(sparse))) =>
           a \in Elements(fused) /\ Position(fused, a) < Position(fused, b)
  <2> HIDE DEF Above
  <2> QED
    BY <1>5
<1>11. \A b \in Elements(fused), a \in Elements(dense) \cap Elements(sparse) :
         LET rank == Position(dense, b) + Position(sparse, b)
             best == Min2(Position(dense, a), Position(sparse, a))
         IN (a # b /\ b \notin Elements(dense) \cap Elements(sparse) /\ best <= rank) =>
              a \in Elements(fused) /\ Position(fused, a) < Position(fused, b)
  BY <1>6
<1> HIDE DEF G, Above
<1> QED
  BY <1>1, <1>2, <1>7, <1>9, <1>10, <1>11
     DEF FusionIsFair, fused, all, Above, ranked, hits, pruned

(* The lists the run tries repeat nothing.                                 *)
LEMMA EveryOrderIsDistinct ==
    ASSUME NEW s \in Orders
    PROVE  s \in Seq(1 .. 3) /\ Distinct(s)
<1>1. PICK n \in 0 .. 3 : s \in [1 .. n -> 1 .. 3] /\ \A i, j \in 1 .. n : i # j => s[i] # s[j]
  BY DEF Orders
<1>2. s \in Seq(1 .. 3) /\ Len(s) = n
  BY <1>1
<1> QED
  BY <1>1, <1>2 DEF Distinct

(* The fusions the run tries are within the theorem's.                     *)
LEMMA EveryTriedFusionIsFair ==
    ASSUME TryFusion
    PROVE  FusionIsFair(input'.dense, input'.sparse, input'.limit, input'.scores)
<1> PICK dense \in Orders, sparse \in Orders, limit \in 1 .. 3, scores \in [1 .. 3 -> 0 .. 2] :
      input' = [of |-> "fusion", dense |-> dense, sparse |-> sparse, limit |-> limit,
                scores |-> scores]
  BY DEF TryFusion
<1>1. input'.dense = dense /\ input'.sparse = sparse /\ input'.limit = limit /\ input'.scores = scores
  OBVIOUS
<1>2. dense \in Seq(1 .. 3) /\ Distinct(dense) /\ sparse \in Seq(1 .. 3) /\ Distinct(sparse)
  BY EveryOrderIsDistinct
<1>3. limit \in Nat /\ scores \in [1 .. 3 -> Nat]
  OBVIOUS
<1>4. FusionIsFair(dense, sparse, limit, scores)
  BY <1>2, <1>3, EveryFusionIsFair
<1> QED
  BY <1>1, <1>4

(* The slices the run tries are within the theorem's.                      *)
LEMMA EveryTriedSliceLosesNothing ==
    ASSUME TrySlices
    PROVE  SlicesLoseNothing(3, input'.size, input'.bookOf, input'.score, input'.limit)
<1> PICK size \in 1 .. 3, limit \in 1 .. 3, score \in [1 .. 4 -> 1 .. 3],
         bookOf \in [1 .. 4 -> 1 .. 3] :
      input' = [of |-> "slices", size |-> size, limit |-> limit, score |-> score, bookOf |-> bookOf]
  BY DEF TrySlices
<1>1. input'.size = size /\ input'.bookOf = bookOf /\ input'.limit = limit /\ input'.score = score
  OBVIOUS
<1>2. IsFiniteSet(DOMAIN score)
  <2>1. IsFiniteSet(1 .. 4)
    <3>1. 1 \in Int /\ 4 \in Int
      OBVIOUS
    <3> QED
      BY <3>1, FS_Interval
  <2> QED
    BY <2>1
<1>3. 3 \in Nat /\ size \in Nat \ {0} /\ limit \in Nat /\ \A h \in DOMAIN score : score[h] \in Int
  OBVIOUS
<1>4. SlicesLoseNothing(3, size, bookOf, score, limit)
  BY <1>2, <1>3, SlicesLoseNoRecall
<1> QED
  BY <1>1, <1>4

(* The answers of the reranker the run tries are within the theorem's.     *)
LEMMA EveryTriedScoreIsOfItsDocuments ==
    ASSUME TryScores
    PROVE  ScoresAreForTheDocuments(input'.documents, input'.attempts)
<1> PICK attempts \in [1 .. MaxRetries + 2 -> Attempts], documents \in 0 .. 2 :
      input' = [of |-> "scores", attempts |-> attempts, documents |-> documents]
  BY DEF TryScores
<1>1. input'.documents = documents /\ input'.attempts = attempts
  OBVIOUS
<1>2. Attempts \subseteq RerankAnswers
  <2> SUFFICES ASSUME NEW a \in Attempts PROVE a \in RerankAnswers
    OBVIOUS
  <2>1. CASE a \in {[status |-> s, scores |-> <<>>, numbers |-> FALSE] :
                      s \in {"unavailable", "refused"}}
    <3>1. PICK s \in {"unavailable", "refused"} : a = [status |-> s, scores |-> <<>>, numbers |-> FALSE]
      BY <2>1
    <3>2. <<>> \in Seq(Nat) /\ FALSE \in BOOLEAN
      OBVIOUS
    <3> QED
      BY <3>1, <3>2 DEF RerankAnswers
  <2>2. CASE a \in {[status |-> "answered", scores |-> [k \in 1 .. n |-> k], numbers |-> b] :
                      n \in 1 .. 3, b \in BOOLEAN}
    <3>1. PICK n \in 1 .. 3, b \in BOOLEAN :
            a = [status |-> "answered", scores |-> [k \in 1 .. n |-> k], numbers |-> b]
      BY <2>2
    <3>2. [k \in 1 .. n |-> k] \in Seq(Nat)
      OBVIOUS
    <3> QED
      BY <3>1, <3>2 DEF RerankAnswers
  <2> QED
    BY <2>1, <2>2 DEF Attempts
<1>3. attempts \in [1 .. MaxRetries + 2 -> RerankAnswers] /\ documents \in Nat
  <2> HIDE DEF RerankAnswers, Attempts
  <2> QED
    BY <1>2
<1>4. ScoresAreForTheDocuments(documents, attempts)
  BY <1>3, EveryScoreIsOfItsDocuments
<1> QED
  BY <1>1, <1>4

(* What the run shows of the rankings it tries follows from the theorems   *)
(* on all of them.                                                         *)
THEOREM InputsRankingIsFair == Spec => []RankingIsFair
<1>1. Init => RankingIsFair
  BY DEF Init, RankingIsFair
<1>2. RankingIsFair /\ [input.of = "nothing" /\ Try]_input => RankingIsFair'
  <2> SUFFICES ASSUME RankingIsFair, [input.of = "nothing" /\ Try]_input PROVE RankingIsFair'
    OBVIOUS
  <2>1. CASE TryFusion
    <3>1. input'.of = "fusion"
      BY <2>1 DEF TryFusion
    <3> QED
      BY <2>1, <3>1, EveryTriedFusionIsFair DEF RankingIsFair
  <2>2. CASE TrySlices
    <3>1. input'.of = "slices"
      BY <2>2 DEF TrySlices
    <3> QED
      BY <2>2, <3>1, EveryTriedSliceLosesNothing DEF RankingIsFair
  <2>3. CASE TryScores
    <3>1. input'.of = "scores"
      BY <2>3 DEF TryScores
    <3> QED
      BY <2>3, <3>1, EveryTriedScoreIsOfItsDocuments DEF RankingIsFair
  <2>4. CASE TryDate \/ TryCitations \/ TryChunk \/ TryVectors
    <3>1. input'.of \notin {"fusion", "slices", "scores"}
      <4>1. CASE TryDate
        BY <4>1 DEF TryDate
      <4>2. CASE TryCitations
        BY <4>2 DEF TryCitations
      <4>3. CASE TryChunk
        BY <4>3 DEF TryChunk
      <4>4. CASE TryVectors
        BY <4>4 DEF TryVectors
      <4> QED
        BY <2>4, <4>1, <4>2, <4>3, <4>4
    <3> QED
      BY <3>1 DEF RankingIsFair
  <2>5. CASE UNCHANGED input
    BY <2>5 DEF RankingIsFair
  <2> QED
    BY <2>1, <2>2, <2>3, <2>4, <2>5 DEF Try
<1> QED
  BY <1>1, <1>2, PTL DEF Spec

-----------------------------------------------------------------------------
(* Citations.                                                              *)

(* A word, and the texts of at least one piece; a piece of a text is       *)
(* numbered when it ends like a marker. The titles the theorem is about    *)
(* have no numbered piece, for _label_from_title of api/summary.py takes   *)
(* brackets and colons out of a title; a member of a group has only its    *)
(* last: a text with several is several members.                           *)
(* The names are the strings: the provers do not know of a literal that it *)
(* is one.                                                                 *)
Name == STRING \cup {"A", "B", "again", "chunk"}
Vocabulary == Name \X Nat
Phrases == {t \in Seq(Seq(Vocabulary)) : Len(t) # 0}
Numbered(piece) == Len(piece) # 0 /\ \E n \in Nat : piece[Len(piece)] = Index(n)
Plain == {t \in Phrases : \A i \in 1 .. Len(t) : ~Numbered(t[i])}
Members == {t \in Phrases : \A i \in 1 .. Len(t) : Numbered(t[i]) <=> i = Len(t)}

(* A word added to a text is added to its last piece.                      *)
LEMMA AddWordIs ==
    ASSUME NEW text \in Phrases, NEW word \in Vocabulary
    PROVE  LET v == AddWord(text, word)
               n == Len(text)
           IN /\ v \in Phrases /\ Len(v) = n /\ n \in Nat \ {0}
              /\ text[n] \in Seq(Vocabulary)
              /\ \A i \in 1 .. n : i # n => v[i] = text[i]
              /\ v[n] = Append(text[n], word)
<1> DEFINE n == Len(text)
           v == [text EXCEPT ![n] = Append(text[n], word)]
<1>1. text \in Seq(Seq(Vocabulary)) /\ n \in Nat \ {0} /\ n \in 1 .. n
  BY DEF Phrases
<1>2. text \in [1 .. n -> Seq(Vocabulary)]
  BY <1>1
<1>3. text[n] \in Seq(Vocabulary) /\ Append(text[n], word) \in Seq(Vocabulary)
  <2> HIDE DEF n
  <2>1. text[n] \in Seq(Vocabulary)
    BY <1>1, <1>2
  <2> QED
    BY <2>1
<1>4. AddWord(text, word) = v
  BY DEF AddWord
<1> DEFINE S == Seq(Vocabulary)
           x == Append(text[n], word)
<1>5. v \in [1 .. n -> S] /\ v[n] = x /\ \A i \in 1 .. n : i # n => v[i] = text[i]
  <2>1. x \in S /\ text \in [1 .. n -> S] /\ n \in 1 .. n
    BY <1>1, <1>2, <1>3
  <2>2. v = [text EXCEPT ![n] = x]
    OBVIOUS
  <2> HIDE DEF S, x, n, v
  <2> QED
    BY <2>1, <2>2
<1>6. v \in Seq(S) /\ Len(v) = n
  <2> HIDE DEF v, n, S
  <2> QED
    BY <1>1, <1>5
<1>7. v \in Phrases
  <2> HIDE DEF v, n
  <2> QED
    BY <1>1, <1>6 DEF Phrases
<1> QED
  BY <1>1, <1>3, <1>4, <1>5, <1>6, <1>7

(* A list and the element appended to it are told apart.                   *)
LEMMA AppendOnce ==
    ASSUME NEW S, NEW u \in Seq(S), NEW v \in Seq(S), NEW x \in S, NEW y \in S,
           Append(u, x) = Append(v, y)
    PROVE  u = v /\ x = y
<1>1. /\ Len(Append(u, x)) = Len(u) + 1 /\ Append(u, x)[Len(u) + 1] = x
      /\ \A i \in 1 .. Len(u) : Append(u, x)[i] = u[i]
  OBVIOUS
<1>2. /\ Len(Append(v, y)) = Len(v) + 1 /\ Append(v, y)[Len(v) + 1] = y
      /\ \A i \in 1 .. Len(v) : Append(v, y)[i] = v[i]
  OBVIOUS
<1>3. Len(u) = Len(v)
  BY <1>1, <1>2
<1>4. x = y /\ \A i \in 1 .. Len(u) : u[i] = v[i]
  BY <1>1, <1>2, <1>3
<1> QED
  BY <1>3, <1>4

(* A text and the word added to it are told apart.                         *)
LEMMA AddWordOnce ==
    ASSUME NEW t \in Phrases, NEW u \in Phrases, NEW x \in Vocabulary, NEW y \in Vocabulary,
           AddWord(t, x) = AddWord(u, y)
    PROVE  t = u /\ x = y
<1> DEFINE n == Len(t)
           v == AddWord(t, x)
<1>1. /\ Len(v) = n /\ n \in Nat \ {0} /\ t[n] \in Seq(Vocabulary)
      /\ \A i \in 1 .. n : i # n => v[i] = t[i]
      /\ v[n] = Append(t[n], x)
  BY AddWordIs
<1>2. /\ Len(v) = Len(u) /\ u[Len(u)] \in Seq(Vocabulary)
      /\ \A i \in 1 .. Len(u) : i # Len(u) => v[i] = u[i]
      /\ v[Len(u)] = Append(u[Len(u)], y)
  <2> DEFINE w == AddWord(u, y)
  <2>1. /\ Len(w) = Len(u) /\ u[Len(u)] \in Seq(Vocabulary)
        /\ \A i \in 1 .. Len(u) : i # Len(u) => w[i] = u[i]
        /\ w[Len(u)] = Append(u[Len(u)], y)
    BY AddWordIs
  <2>2. v = w
    OBVIOUS
  <2> HIDE DEF v, w
  <2> QED
    BY <2>1, <2>2
<1> HIDE DEF v
<1>3. Len(u) = n
  BY <1>1, <1>2
<1>4. u[n] \in Seq(Vocabulary) /\ Append(t[n], x) = Append(u[n], y)
  <2> HIDE DEF n
  <2> QED BY <1>1, <1>2, <1>3
<1>5. t[n] = u[n] /\ x = y
  <2> DEFINE p == t[n]
             q == u[n]
             S == Vocabulary
  <2>1. p \in Seq(S) /\ q \in Seq(S) /\ Append(p, x) = Append(q, y) /\ x \in S /\ y \in S
    BY <1>1, <1>4
  <2> HIDE DEF p, q, S
  <2>2. p = q /\ x = y
    BY <2>1, AppendOnce
  <2> QED
    BY <2>2 DEF p, q
<1>6. \A i \in 1 .. n : t[i] = u[i]
  <2> HIDE DEF n
  <2> QED BY <1>1, <1>2, <1>3, <1>5
<1>7. t \in Seq(Seq(Vocabulary)) /\ u \in Seq(Seq(Vocabulary))
  BY DEF Phrases
<1>8. t = u
  <2>1. Len(t) = Len(u) /\ \A i \in 1 .. Len(t) : t[i] = u[i]
    BY <1>3, <1>6
  <2> QED
    BY <1>7, <2>1, SeqEqual
<1> QED
  BY <1>5, <1>8

(* A suffix leaves a plain text plain, an index makes it a member.         *)
LEMMA WordsAre ==
    ASSUME NEW n \in Nat
    PROVE  /\ Suffix(n) \in Vocabulary /\ Index(n) \in Vocabulary
           /\ \A k \in Nat : /\ Suffix(n) # Index(k)
                             /\ Suffix(n) = Suffix(k) => n = k
                             /\ Index(n) = Index(k) => n = k
<1>1. Suffix(n) \in Vocabulary /\ Index(n) \in Vocabulary
  BY DEF Suffix, Index, Vocabulary, Name
<1>2. ASSUME NEW k \in Nat
      PROVE  /\ Suffix(n) # Index(k)
             /\ Suffix(n) = Suffix(k) => n = k
             /\ Index(n) = Index(k) => n = k
  <2>1. /\ Suffix(n)[1] = "again" /\ Suffix(n)[2] = n
        /\ Index(n)[1] = "chunk" /\ Index(n)[2] = n
        /\ Suffix(k)[2] = k /\ Index(k)[1] = "chunk" /\ Index(k)[2] = k
    BY DEF Suffix, Index
  <2>2. "again" # "chunk"
    OBVIOUS
  <2> QED
    BY <2>1, <2>2
<1> QED
  BY <1>1, <1>2

(* A piece is numbered when the last word added to it is an index.         *)
LEMMA LastNumbered ==
    ASSUME NEW piece \in Seq(Vocabulary), NEW word \in Vocabulary
    PROVE  Numbered(Append(piece, word)) <=> \E n \in Nat : word = Index(n)
<1> DEFINE q == Append(piece, word)
           n == Len(q)
<1>1. n = Len(piece) + 1 /\ Len(piece) \in Nat /\ q[Len(piece) + 1] = word
  OBVIOUS
<1>2. q[n] = word /\ n # 0
  <2> HIDE DEF n, q
  <2> QED BY <1>1
<1> HIDE DEF q
<1> QED
  BY <1>2 DEF Numbered

(* A suffix leaves a plain text plain.                                     *)
LEMMA PlainSuffix ==
    ASSUME NEW t \in Plain, NEW k \in Nat
    PROVE  AddWord(t, Suffix(k)) \in Plain
<1> DEFINE v == AddWord(t, Suffix(k))
           n == Len(t)
<1>1. t \in Phrases /\ \A i \in 1 .. n : ~Numbered(t[i])
  BY DEF Plain
<1>2. Suffix(k) \in Vocabulary /\ ~ \E j \in Nat : Suffix(k) = Index(j)
  BY WordsAre
<1>3. /\ v \in Phrases /\ Len(v) = n /\ n \in Nat \ {0} /\ t[n] \in Seq(Vocabulary)
      /\ \A i \in 1 .. n : i # n => v[i] = t[i]
      /\ v[n] = Append(t[n], Suffix(k))
  BY <1>1, <1>2, AddWordIs
<1>4. ~Numbered(v[n])
  BY <1>2, <1>3, LastNumbered
<1>5. \A i \in 1 .. n : ~Numbered(v[i])
  <2> HIDE DEF v, n
  <2> QED BY <1>1, <1>3, <1>4
<1> QED
  BY <1>3, <1>5 DEF Plain

(* An index makes it a member.                                             *)
LEMMA MarkerIsAMember ==
    ASSUME NEW t \in Plain, NEW c \in Nat
    PROVE  Marker(t, c) \in Members
<1> DEFINE v == AddWord(t, Index(c))
           n == Len(t)
<1>1. t \in Phrases /\ \A i \in 1 .. n : ~Numbered(t[i])
  BY DEF Plain
<1>2. Index(c) \in Vocabulary /\ \E j \in Nat : Index(c) = Index(j)
  BY WordsAre
<1>3. /\ v \in Phrases /\ Len(v) = n /\ n \in Nat \ {0} /\ t[n] \in Seq(Vocabulary)
      /\ \A i \in 1 .. n : i # n => v[i] = t[i]
      /\ v[n] = Append(t[n], Index(c))
  BY <1>1, <1>2, AddWordIs
<1>4. Numbered(v[n])
  BY <1>2, <1>3, LastNumbered
<1>5. \A i \in 1 .. n : Numbered(v[i]) <=> i = n
  <2> HIDE DEF v, n
  <2> QED BY <1>1, <1>3, <1>4
<1>6. v \in Members
  <2> HIDE DEF v, n
  <2> QED BY <1>3, <1>5 DEF Members
<1> QED
  BY <1>6 DEF Marker

(* A label in use gets a suffix that makes it new: there are more of them  *)
(* than labels.                                                            *)
LEMMA NewLabelIs ==
    ASSUME NEW labels \in Seq(Plain), Distinct(labels), NEW title \in Plain,
           NEW i \in Nat, i # 0, Len(labels) = i - 1
    PROVE  NewLabel(labels, title, i) \in Plain \ Elements(labels)
<1> DEFINE used == Elements(labels)
           with == [n \in 2 .. i + 1 |-> AddWord(title, Suffix(n))]
           free == {n \in 2 .. i + 1 : AddWord(title, Suffix(n)) \notin used}
           least == CHOOSE n \in free : \A k \in free : n <= k
<1>1. Before(labels, i) = used
  BY DEF Before, Elements
<1>2. IsFiniteSet(used) /\ Cardinality(used) = i - 1
  BY DistinctCount
<1>3. \A n \in 2 .. i + 1 : n \in Nat /\ AddWord(title, Suffix(n)) \in Plain
  <2> TAKE n \in 2 .. i + 1
  <2>1. n \in Nat
    OBVIOUS
  <2> QED
    BY <2>1, PlainSuffix
<1>4. \A n, k \in 2 .. i + 1 : AddWord(title, Suffix(n)) = AddWord(title, Suffix(k)) => n = k
  <2> TAKE n, k \in 2 .. i + 1
  <2> HAVE AddWord(title, Suffix(n)) = AddWord(title, Suffix(k))
  <2>1. n \in Nat /\ k \in Nat /\ title \in Phrases
    BY DEF Plain
  <2>2. Suffix(n) \in Vocabulary /\ Suffix(k) \in Vocabulary
    BY <2>1, WordsAre
  <2>3. Suffix(n) = Suffix(k)
    BY <2>1, <2>2, AddWordOnce
  <2> QED
    BY <2>1, <2>3, WordsAre
<1>5. free # {}
  <2> SUFFICES ASSUME \A n \in 2 .. i + 1 : AddWord(title, Suffix(n)) \in used
               PROVE  FALSE
    OBVIOUS
  <2>1. with \in [2 .. i + 1 -> used]
    <3> HIDE DEF used
    <3> QED OBVIOUS
  <2>2. IsFiniteSet(2 .. i + 1) /\ Cardinality(2 .. i + 1) = i
    <3>1. 2 \in Int /\ i + 1 \in Int
      OBVIOUS
    <3>2. /\ IsFiniteSet(2 .. i + 1)
          /\ Cardinality(2 .. i + 1) = IF 2 > i + 1 THEN 0 ELSE i + 1 - 2 + 1
      BY <3>1, FS_Interval
    <3>3. (IF 2 > i + 1 THEN 0 ELSE i + 1 - 2 + 1) = i
      OBVIOUS
    <3> QED
      BY <3>2, <3>3
  <2>3. Cardinality(used) < Cardinality(2 .. i + 1)
    <3> HIDE DEF used
    <3> QED BY <1>2, <2>2
  <2> HIDE DEF used, with
  <2>4. \E x, y \in 2 .. i + 1 : x # y /\ with[x] = with[y]
    BY <1>2, <2>1, <2>2, <2>3, FS_PigeonHole
  <2> QED
    BY <1>4, <2>4 DEF with
<1>6. least \in free
  <2>1. free \subseteq Nat
    OBVIOUS
  <2> HIDE DEF free
  <2>2. \E n \in free : \A k \in free : n <= k
    BY <1>5, <2>1, LeastNumber
  <2> QED
    BY <2>2
<1>7. NewLabel(labels, title, i) = IF title \notin used THEN title ELSE AddWord(title, Suffix(least))
  <2> HIDE DEF used
  <2> QED BY <1>1 DEF NewLabel
<1>8. AddWord(title, Suffix(least)) \in Plain \ used
  <2> HIDE DEF used, least
  <2> QED BY <1>3, <1>6
<1> HIDE DEF used, least
<1>9. title \in Plain
  OBVIOUS
<1> QED
  BY <1>7, <1>8, <1>9 DEF used

(* The labels of distinct books are as many, plain and distinct.           *)
LEMMA LabelsAre ==
    ASSUME NEW titles \in Seq(Plain)
    PROVE  /\ Labels(titles) \in Seq(Plain) /\ Len(Labels(titles)) = Len(titles)
           /\ Distinct(Labels(titles))
<1> DEFINE n == Len(titles)
           T == Seq(Plain)
           L[i \in 0 .. Len(titles)] ==
             IF i = 0 THEN <<>> ELSE Append(L[i - 1], NewLabel(L[i - 1], titles[i], i))
           next(i, v) == IF Len(v) = i - 1 /\ Distinct(v) THEN Append(v, NewLabel(v, titles[i], i))
                         ELSE <<>>
           step == [x \in (1 .. n) \X T |-> next(x[1], x[2])]
<1>1. Labels(titles) = L[n]
  BY DEF Labels
<1>2. n \in Nat /\ \A i \in 1 .. n : titles[i] \in Plain /\ i \in Nat /\ i # 0
  OBVIOUS
<1>3. ASSUME NEW i \in 1 .. n, NEW v \in T, Len(v) = i - 1, Distinct(v)
      PROVE  LET w == Append(v, NewLabel(v, titles[i], i))
             IN w \in T /\ Len(w) = i /\ Distinct(w)
  <2> DEFINE x == NewLabel(v, titles[i], i)
             w == Append(v, x)
  <2>1. x \in Plain \ Elements(v)
    BY <1>2, <1>3, NewLabelIs
  <2> HIDE DEF x, n
  <2>2. w \in Seq(Plain) /\ Len(w) = Len(v) + 1 /\ Distinct(w)
    BY <1>3, <2>1, AppendIs
  <2>3. (i - 1) + 1 = i
    BY <1>2
  <2> HIDE DEF w
  <2>4. w \in T /\ Len(w) = i /\ Distinct(w)
    BY <1>3, <2>2, <2>3
  <2> QED
    BY <2>4 DEF w, x
<1>4. <<>> \in T
  OBVIOUS
<1>5. \A i \in 1 .. n, v \in T : step[<<i, v>>] = next(i, v) /\ step[<<i, v>>] \in T
  <2> TAKE i \in 1 .. n, v \in T
  <2>1. next(i, v) \in T
    <3> HIDE DEF n, T
    <3> QED BY <1>3, <1>4
  <2> HIDE DEF T, next, n
  <2> QED
    BY <2>1
<1>6. PICK F : Folds(F, n, T, <<>>, step)
  <2> HIDE DEF T, step, n
  <2>1. FoldOn(n, T, <<>>, step)
    BY <1>2, <1>4, <1>5 DEF FoldOn
  <2> QED
    BY <2>1, FoldExists
<1>7. F[0] = <<>> /\ \A i \in 1 .. n : F[i - 1] \in T /\ F[i] = next(i, F[i - 1])
  <2> HIDE DEF T, step, next, n
  <2> QED
    BY <1>5, <1>6 DEF Folds
<1>8. \A i \in 0 .. n : F[i] \in T /\ Len(F[i]) = i /\ Distinct(F[i])
  <2> DEFINE P == {i \in 0 .. n : F[i] \in T /\ Len(F[i]) = i /\ Distinct(F[i])}
  <2>1. 0 \in P
    <3>1. Len(<<>>) = 0 /\ Distinct(<<>>) /\ 0 \in 0 .. n
      BY <1>2 DEF Distinct
    <3> QED
      BY <1>4, <1>7, <3>1
  <2>2. ASSUME NEW i \in 1 .. n, i - 1 \in P PROVE i \in P
    <3> DEFINE v == F[i - 1]
               w == Append(v, NewLabel(v, titles[i], i))
    <3>1. v \in T /\ Len(v) = i - 1 /\ Distinct(v)
      BY <2>2
    <3>2. F[i] = w
      BY <1>7, <3>1
    <3>3. w \in T /\ Len(w) = i /\ Distinct(w)
      <4> HIDE DEF T, n, v
      <4> QED BY <1>3, <3>1
    <3>4. i \in 0 .. n
      BY <1>2
    <3> HIDE DEF w, v, T
    <3> QED
      BY <3>2, <3>3, <3>4
  <2>3. \A i \in 0 .. n : i \in P
    <3> HIDE DEF P, n
    <3> QED BY <1>2, <2>1, <2>2, UptoInduction
  <2> QED
    BY <2>3
<1>9. F = [i \in 0 .. n |-> IF i = 0 THEN <<>>
                            ELSE Append(F[i - 1], NewLabel(F[i - 1], titles[i], i))]
  <2>1. ASSUME NEW i \in 1 .. n
        PROVE  F[i] = Append(F[i - 1], NewLabel(F[i - 1], titles[i], i))
    <3>1. i - 1 \in 0 .. n
      BY <1>2
    <3>2. Len(F[i - 1]) = i - 1 /\ Distinct(F[i - 1])
      BY <1>8, <3>1
    <3> QED
      BY <1>7, <3>2
  <2>2. F \in [0 .. n -> T] /\ \A i \in 0 .. n : i # 0 => i \in 1 .. n
    <3> HIDE DEF T, step, n
    <3> QED BY <1>6 DEF Folds
  <2> HIDE DEF T, next, step, n
  <2> QED
    BY <1>7, <2>1, <2>2
<1>10. L = [i \in 0 .. n |-> IF i = 0 THEN <<>>
                             ELSE Append(L[i - 1], NewLabel(L[i - 1], titles[i], i))]
  BY <1>9
<1> HIDE DEF L, next, step
<1>11. L[0] = <<>> /\ \A i \in 1 .. n : L[i] = Append(L[i - 1], NewLabel(L[i - 1], titles[i], i))
  <2>1. 0 \in 0 .. n /\ \A i \in 1 .. n : i \in 0 .. n /\ i # 0
    BY <1>2
  <2> HIDE DEF n
  <2> QED
    BY <1>10, <2>1
<1>12. \A i \in 0 .. n : L[i] \in T /\ Len(L[i]) = i /\ Distinct(L[i])
  <2> DEFINE P == {i \in 0 .. n : L[i] \in T /\ Len(L[i]) = i /\ Distinct(L[i])}
  <2>1. 0 \in P
    <3>1. Len(<<>>) = 0 /\ Distinct(<<>>) /\ 0 \in 0 .. n
      BY <1>2 DEF Distinct
    <3> QED
      BY <1>4, <1>11, <3>1
  <2>2. ASSUME NEW i \in 1 .. n, i - 1 \in P PROVE i \in P
    <3> DEFINE v == L[i - 1]
               w == Append(v, NewLabel(v, titles[i], i))
    <3>1. v \in T /\ Len(v) = i - 1 /\ Distinct(v)
      BY <2>2
    <3>2. L[i] = w
      BY <1>11
    <3>3. w \in T /\ Len(w) = i /\ Distinct(w)
      <4> HIDE DEF T, n, v
      <4> QED BY <1>3, <3>1
    <3>4. i \in 0 .. n
      BY <1>2
    <3> HIDE DEF w, v, T
    <3> QED
      BY <3>2, <3>3, <3>4
  <2>3. \A i \in 0 .. n : i \in P
    <3> HIDE DEF P, n
    <3> QED BY <1>2, <2>1, <2>2, UptoInduction
  <2> QED
    BY <2>3
<1>13. n \in 0 .. n
  BY <1>2
<1> QED
  BY <1>1, <1>12, <1>13

(* The sources: finitely many chunks of the books.                         *)
Sources(titles, sources) ==
    sources \in SUBSET ((1 .. Len(titles)) \X Nat) /\ IsFiniteSet(sources)

(* The markers of the sources are members, one for each source.            *)
LEMMA MarkersAre ==
    ASSUME NEW titles \in Seq(Plain), NEW sources, Sources(titles, sources)
    PROVE  /\ Markers(titles, sources) \in SUBSET Members
           /\ Cardinality(Markers(titles, sources)) = Cardinality(sources)
<1> DEFINE K == Labels(titles)
           n == Len(titles)
           S == sources
           M == {Marker(K[s[1]], s[2]) : s \in S}
           f == [x \in S |-> Marker(K[x[1]], x[2])]
<1>1. Markers(titles, sources) = M
  BY DEF Markers
<1>2. /\ K \in Seq(Plain) /\ Len(K) = n /\ n \in Nat /\ \A i \in 1 .. n : K[i] \in Plain
      /\ \A i, j \in 1 .. n : i # j => K[i] # K[j]
  <2>1. K \in Seq(Plain) /\ Len(K) = n /\ Distinct(K)
    BY LabelsAre
  <2>2. n \in Nat
    OBVIOUS
  <2> HIDE DEF K, n
  <2>3. \A i \in 1 .. n : K[i] \in Plain
    BY <2>1, <2>2
  <2> QED
    BY <2>1, <2>2, <2>3 DEF Distinct
<1> HIDE DEF K, n
<1>3. IsFiniteSet(S) /\ \A x \in S : x = <<x[1], x[2]>> /\ x[1] \in 1 .. n /\ x[2] \in Nat
  BY DEF Sources, n
<1>4. M \in SUBSET Members
  <2> SUFFICES ASSUME NEW x \in S PROVE Marker(K[x[1]], x[2]) \in Members
    OBVIOUS
  <2> QED
    BY <1>2, <1>3, MarkerIsAMember
<1> HIDE DEF S
<1>5. f \in Surjection(S, M)
  <2>1. f \in [S -> M]
    OBVIOUS
  <2>2. ASSUME NEW t \in M PROVE \E x \in S : f[x] = t
    <3>1. PICK x \in S : t = Marker(K[x[1]], x[2])
      OBVIOUS
    <3>2. f[x] = t
      BY <3>1
    <3> QED
      BY <3>2
  <2> HIDE DEF f, M
  <2> QED
    BY <2>1, <2>2 DEF Surjection
<1>6. f \in Injection(S, M)
  <2>1. ASSUME NEW i \in 1 .. n, NEW c \in Nat, NEW j \in 1 .. n, NEW d \in Nat,
               Marker(K[i], c) = Marker(K[j], d)
        PROVE  i = j /\ c = d
    <3>1. K[i] \in Phrases /\ K[j] \in Phrases
      BY <1>2 DEF Plain
    <3>2. Index(c) \in Vocabulary /\ Index(d) \in Vocabulary
      BY WordsAre
    <3>3. AddWord(K[i], Index(c)) = AddWord(K[j], Index(d))
      BY <2>1 DEF Marker
    <3>4. K[i] = K[j] /\ Index(c) = Index(d)
      BY <3>1, <3>2, <3>3, AddWordOnce
    <3>5. c = d
      BY <3>1, <3>4, WordsAre
    <3> QED
      BY <1>2, <3>4, <3>5
  <2>2. ASSUME NEW x \in S, NEW y \in S, f[x] = f[y] PROVE x = y
    <3>1. Marker(K[x[1]], x[2]) = Marker(K[y[1]], y[2])
      BY <2>2
    <3>2. x[1] = y[1] /\ x[2] = y[2]
      BY <1>3, <2>1, <3>1
    <3> QED
      BY <1>3, <3>2
  <2>3. f \in [S -> M] /\ DOMAIN f = S
    OBVIOUS
  <2> HIDE DEF f, M
  <2>4. IsInjective(f)
    BY <2>2, <2>3 DEF IsInjective
  <2> QED
    BY <2>3, <2>4 DEF Injection
<1>7. Cardinality(M) = Cardinality(S)
  <2> HIDE DEF f, M
  <2> QED
    BY <1>3, <1>5, <1>6, FS_Surjection
<1> QED
  BY <1>1, <1>4, <1>7 DEF S

-----------------------------------------------------------------------------
(* The markers that match at a position, and the longest of them.          *)
Here(inner, markers, p) == {m \in markers : MatchesAt(inner, p, m)}
Longest(here) == CHOOSE m \in here : \A k \in here : Len(k) <= Len(m)

(* Markers are members.                                                    *)
AreMembers(markers) == markers \in SUBSET Members

(* What a member is: only its last piece is numbered.                      *)
LEMMA MembersAre ==
    ASSUME NEW x \in Members
    PROVE  /\ x \in Seq(Seq(Vocabulary)) /\ Len(x) \in Nat /\ Len(x) >= 1
           /\ \A i \in 1 .. Len(x) : Numbered(x[i]) <=> i = Len(x)
BY DEF Members, Phrases

(* Among the markers that match there is a longest.                        *)
LEMMA LongestIsHere ==
    ASSUME NEW inner \in Seq(Seq(Vocabulary)), NEW markers, AreMembers(markers), NEW p \in Nat,
           Here(inner, markers, p) # {}
    PROVE  /\ Longest(Here(inner, markers, p)) \in Here(inner, markers, p)
           /\ Len(Longest(Here(inner, markers, p))) \in Nat
           /\ Len(Longest(Here(inner, markers, p))) >= 1
<1> DEFINE here == Here(inner, markers, p)
           short(m) == Len(inner) + 1 - Len(m)
           T == {short(m) : m \in here}
<1>1. \A m \in here : Len(m) \in Nat /\ Len(m) >= 1 /\ p + Len(m) - 1 <= Len(inner)
  <2> TAKE m \in here
  <2>1. m \in Members /\ MatchesAt(inner, p, m)
    BY DEF Here, AreMembers
  <2> QED
    BY <2>1, MembersAre DEF MatchesAt
<1>2. Len(inner) \in Nat
  OBVIOUS
<1>3. T \subseteq Nat /\ T # {}
  <2> HIDE DEF here
  <2>1. \A m \in here : short(m) \in Nat
    BY <1>1, <1>2
  <2>2. here # {}
    BY DEF here
  <2> QED
    BY <2>1, <2>2
<1>4. PICK n \in T : \A k \in T : n <= k
  <2> HIDE DEF T
  <2> QED BY <1>3, LeastNumber
<1>5. PICK m \in here : n = short(m)
  <2> HIDE DEF here
  <2> QED OBVIOUS
<1>6. \A k \in here : Len(k) <= Len(m)
  <2> TAKE k \in here
  <2>1. short(m) <= short(k)
    <3> HIDE DEF here
    <3> QED BY <1>4, <1>5
  <2>2. Len(k) \in Nat /\ Len(m) \in Nat
    BY <1>1
  <2> HIDE DEF here
  <2> QED
    BY <1>2, <2>1, <2>2
<1>7. Longest(here) \in here
  <2> HIDE DEF here
  <2> QED BY <1>6 DEF Longest
<1> HIDE DEF T
<1> QED
  BY <1>1, <1>7

(* The recursion of the resolution, one position after the other.          *)
Resolved(inner, markers, p, f) ==
    IF p > Len(inner) THEN <<>>
    ELSE IF Here(inner, markers, p) = {} THEN f[p + 1]
    ELSE <<Longest(Here(inner, markers, p))>> \o f[p + Len(Longest(Here(inner, markers, p)))]

(* What is left of the text at a position.                                 *)
Left(inner) == [p \in Nat |-> IF p > Len(inner) THEN 0 ELSE Len(inner) + 1 - p]

(* The resolution leaves less of the text at each step.                    *)
LEMMA LeftShrinks ==
    ASSUME NEW inner \in Seq(Seq(Vocabulary)), NEW markers, AreMembers(markers)
    PROVE  /\ Left(inner) \in [Nat -> Nat]
           /\ \A p \in Nat : ~(p > Len(inner)) =>
                /\ p + 1 \in Nat /\ Left(inner)[p + 1] < Left(inner)[p]
                /\ Here(inner, markers, p) # {} =>
                     LET best == Longest(Here(inner, markers, p))
                     IN /\ p + Len(best) \in Nat /\ Left(inner)[p + Len(best)] < Left(inner)[p]
                        /\ <<best>> \in Seq(markers)
<1> DEFINE n == Len(inner)
           m == Left(inner)
           long(p) == Len(Longest(Here(inner, markers, p)))
<1>1. n \in Nat
  OBVIOUS
<1>2. m \in [Nat -> Nat] /\ \A p \in Nat : m[p] = IF p > n THEN 0 ELSE n + 1 - p
  <2> HIDE DEF n
  <2> QED BY <1>1 DEF Left, n
<1> HIDE DEF m
<1>3. ASSUME NEW p \in Nat, ~(p > n)
      PROVE  p + 1 \in Nat /\ m[p + 1] < m[p]
  <2> HIDE DEF n
  <2>1. p + 1 \in Nat
    OBVIOUS
  <2>2. m[p] = IF p > n THEN 0 ELSE n + 1 - p
    BY <1>2
  <2>3. m[p] = n + 1 - p
    BY <1>3, <2>2
  <2>4. m[p + 1] = IF p + 1 > n THEN 0 ELSE n + 1 - (p + 1)
    BY <1>2, <2>1
  <2> QED BY <1>1, <1>3, <2>1, <2>3, <2>4
<1>4. ASSUME NEW p \in Nat, ~(p > n), Here(inner, markers, p) # {}
      PROVE  /\ p + long(p) \in Nat /\ m[p + long(p)] < m[p]
             /\ <<Longest(Here(inner, markers, p))>> \in Seq(markers)
  <2>1. /\ Longest(Here(inner, markers, p)) \in Here(inner, markers, p)
        /\ long(p) \in Nat /\ long(p) >= 1
    BY <1>4, LongestIsHere
  <2>2. Longest(Here(inner, markers, p)) \in markers
    BY <2>1 DEF Here
  <2> DEFINE l == long(p)
  <2>3. l \in Nat /\ l >= 1
    BY <2>1
  <2> HIDE DEF l, n
  <2>4. p + l \in Nat /\ m[p + l] < m[p]
    <3>1. p + l \in Nat
      BY <2>3
    <3>2. m[p] = IF p > n THEN 0 ELSE n + 1 - p
      BY <1>2
    <3>3. m[p] = n + 1 - p
      BY <1>4, <3>2
    <3>4. m[p + l] = IF p + l > n THEN 0 ELSE n + 1 - (p + l)
      BY <1>2, <3>1
    <3> QED BY <1>1, <1>4, <2>3, <3>3, <3>4
  <2>5. <<Longest(Here(inner, markers, p))>> \in Seq(markers)
    BY <2>2
  <2> QED
    BY <2>4, <2>5 DEF l
<1> QED
  BY <1>2, <1>3, <1>4 DEF m

(* One step of it gives markers when what follows does.                    *)
LEMMA ResolvedStep ==
    ASSUME NEW inner \in Seq(Seq(Vocabulary)), NEW markers, AreMembers(markers),
           NEW p \in Nat, NEW f,
           \A v \in Nat : Left(inner)[v] < Left(inner)[p] => f[v] \in Seq(markers)
    PROVE  Resolved(inner, markers, p, f) \in Seq(markers)
<1> DEFINE T == Seq(markers)
           best == Longest(Here(inner, markers, p))
<1>1. <<>> \in T /\ \A u, v \in T : u \o v \in T
  OBVIOUS
<1>2. CASE p > Len(inner)
  <2> HIDE DEF T
  <2> QED BY <1>1, <1>2 DEF Resolved, T
<1>3. CASE ~(p > Len(inner)) /\ Here(inner, markers, p) = {}
  <2>1. Resolved(inner, markers, p, f) = f[p + 1]
    BY <1>3 DEF Resolved
  <2>2. p + 1 \in Nat /\ Left(inner)[p + 1] < Left(inner)[p]
    BY <1>3, LeftShrinks
  <2> QED
    BY <2>1, <2>2
<1>4. CASE ~(p > Len(inner)) /\ Here(inner, markers, p) # {}
  <2>1. Resolved(inner, markers, p, f) = <<best>> \o f[p + Len(best)]
    BY <1>4 DEF Resolved
  <2>2. /\ p + Len(best) \in Nat /\ Left(inner)[p + Len(best)] < Left(inner)[p]
        /\ <<best>> \in T
    BY <1>4, LeftShrinks
  <2>3. f[p + Len(best)] \in T
    <3> HIDE DEF best
    <3> QED BY <2>2
  <2> HIDE DEF best, T
  <2> QED
    BY <1>1, <2>1, <2>2, <2>3 DEF T
<1> QED
  BY <1>2, <1>3, <1>4

(* So the resolution gives markers.                                        *)
LEMMA ResolvedTyped ==
    ASSUME NEW inner \in Seq(Seq(Vocabulary)), NEW markers, AreMembers(markers), NEW From,
           \A p \in Nat : From[p] = Resolved(inner, markers, p, From)
    PROVE  \A p \in Nat : From[p] \in Seq(markers)
<1> DEFINE m == Left(inner)
           P == {p \in Nat : From[p] \in Seq(markers)}
<1>1. \A p \in Nat : m[p] \in Nat
  BY LeftShrinks
<1>2. ASSUME NEW p \in Nat, \A v \in Nat : m[v] < m[p] => v \in P PROVE p \in P
  <2>1. Resolved(inner, markers, p, From) \in Seq(markers)
    BY <1>2, ResolvedStep
  <2> QED
    BY <2>1
<1>3. Nat \subseteq P
  <2>1. PICK Q : Q = P
    OBVIOUS
  <2>2. PICK q : q = m
    OBVIOUS
  <2> HIDE DEF P, m
  <2>3. \A p \in Nat : q[p] \in Nat
    BY <1>1, <2>2
  <2>4. \A p \in Nat : (\A v \in Nat : q[v] < q[p] => v \in Q) => p \in Q
    BY <1>2, <2>1, <2>2
  <2>5. Nat \subseteq Q
    BY <2>3, <2>4, MeasureInduction, ZenonT(40)
  <2> QED
    BY <2>1, <2>5
<1> QED
  BY <1>3

(* The resolution has a value, and gives markers.                          *)
LEMMA ResolveIs ==
    ASSUME NEW inner \in Seq(Seq(Vocabulary)), NEW markers, AreMembers(markers)
    PROVE  \E From \in [Nat -> Seq(markers)] :
             /\ Resolve(inner, markers) = From[1]
             /\ \A p \in Nat : From[p] = Resolved(inner, markers, p, From)
<1> DEFINE From[p \in Nat] ==
             IF p > Len(inner) THEN <<>>
             ELSE LET here == {m \in markers : MatchesAt(inner, p, m)}
                      best == CHOOSE m \in here : \A k \in here : Len(k) <= Len(m)
                  IN IF here = {} THEN From[p + 1] ELSE <<best>> \o From[p + Len(best)]
           body(f) == [p \in Nat |->
             IF p > Len(inner) THEN <<>>
             ELSE LET here == {m \in markers : MatchesAt(inner, p, m)}
                      best == CHOOSE m \in here : \A k \in here : Len(k) <= Len(m)
                  IN IF here = {} THEN f[p + 1] ELSE <<best>> \o f[p + Len(best)]]
           S == Nat
           T == Seq(markers)
           n == Len(inner)
           m == Left(inner)
           G == [q \in S \X [S -> T] |-> Resolved(inner, markers, q[1], q[2])]
           long(p) == Len(Longest(Here(inner, markers, p)))
<1>1. Resolve(inner, markers) = From[1]
  BY DEF Resolve
<1>0. <<>> \in T /\ \A u, v \in T : u \o v \in T
  OBVIOUS
<1>2. n \in Nat
  OBVIOUS
<1>3. m \in [S -> Nat]
  BY LeftShrinks
<1>4. \A p \in S : ~(p > n) =>
        /\ p + 1 \in S /\ m[p + 1] < m[p]
        /\ Here(inner, markers, p) # {} => p + long(p) \in S /\ m[p + long(p)] < m[p]
  BY LeftShrinks
<1>5. \A p \in S : \A f \in [S -> T] : G[<<p, f>>] = Resolved(inner, markers, p, f)
  <2> TAKE p \in S
  <2> TAKE f \in [S -> T]
  <2>1. <<p, f>> \in S \X [S -> T]
    OBVIOUS
  <2> HIDE DEF S, T
  <2> QED
    BY <2>1
<1>a. ASSUME NEW p \in S, NEW f, \A v \in S : m[v] < m[p] => f[v] \in T
      PROVE  Resolved(inner, markers, p, f) \in T
  BY <1>a, ResolvedStep
<1>6. PICK F \in [S -> T] : Solves(F, S, G)
  <2>1. T # {} /\ <<>> \in T
    BY <1>0
  <2>2. G \in [S \X [S -> T] -> T]
    <3>1. \A q \in S \X [S -> T] : G[q] \in T
      <4> TAKE q \in S \X [S -> T]
      <4> PICK p \in S, f \in [S -> T] : q = <<p, f>>
        OBVIOUS
      <4> HIDE DEF G, m, T, S, n
      <4>1. G[q] = Resolved(inner, markers, p, f)
        BY <1>5
      <4>2. Resolved(inner, markers, p, f) \in T
        BY <1>a
      <4> QED
        BY <4>1, <4>2
    <3>2. G = [q \in S \X [S -> T] |-> G[q]]
      OBVIOUS
    <3> HIDE DEF G, S, T
    <3> QED
      BY <3>1, <3>2
  <2>3. \A p \in S : \A f, g \in [S -> T] :
          (\A v \in S : m[v] < m[p] => f[v] = g[v]) => G[<<p, f>>] = G[<<p, g>>]
    <3> TAKE p \in S
    <3> TAKE f, g \in [S -> T]
    <3> HAVE \A v \in S : m[v] < m[p] => f[v] = g[v]
    <3> HIDE DEF m, G, S, T, n
    <3>1. ~(p > n) => /\ f[p + 1] = g[p + 1]
                      /\ Here(inner, markers, p) # {} => f[p + long(p)] = g[p + long(p)]
      BY <1>4
    <3>2. Resolved(inner, markers, p, f) = Resolved(inner, markers, p, g)
      BY <3>1 DEF Resolved, n
    <3> QED
      BY <1>5, <3>2
  <2> HIDE DEF S, T, m, G
  <2>4. RecursionOn(S, T, m, G)
    BY <1>3, <2>2, <2>3 DEF RecursionOn
  <2> QED
    BY <2>1, <2>4, MeasureRecursion
<1>7. \A p \in S : F[p] = Resolved(inner, markers, p, F)
  <2> HIDE DEF G, S, T
  <2> QED
    BY <1>5, <1>6 DEF Solves
<1>8. \A p \in S : \A f : body(f)[p] = Resolved(inner, markers, p, f)
  BY DEF Resolved, Here, Longest
<1>9. F = body(F)
  <2> HIDE DEF T
  <2>1. \A p \in S : F[p] = body(F)[p]
    BY <1>7, <1>8
  <2>2. F = [p \in S |-> F[p]]
    OBVIOUS
  <2>3. body(F) = [p \in S |-> body(F)[p]]
    OBVIOUS
  <2> HIDE DEF body, S
  <2> QED
    BY <2>1, <2>2, <2>3
<1>10. From = body(From)
  BY <1>9
<1> HIDE DEF From
<1>11. \A p \in S : From[p] = Resolved(inner, markers, p, From)
  <2> TAKE p \in S
  <2>1. body(From)[p] = Resolved(inner, markers, p, From)
    BY <1>8
  <2> HIDE DEF body, S
  <2> QED
    BY <1>10, <2>1
<1>12. From = [p \in S |-> From[p]]
  <2>1. body(From) = [p \in S |-> body(From)[p]]
    OBVIOUS
  <2> HIDE DEF body, S
  <2> QED
    BY <1>10, <2>1
<1>14. \A p \in S : From[p] \in T
  BY <1>11, ResolvedTyped
<1>15. From \in [S -> T]
  <2> HIDE DEF T, S, body, m, G
  <2> QED BY <1>12, <1>14
<1> HIDE DEF body, G, m
<1> QED
  BY <1>1, <1>11, <1>15

(* Where a marker matches, its pieces are there.                           *)
LEMMA MatchIs ==
    ASSUME NEW inner \in Seq(Seq(Vocabulary)), NEW p \in Nat, p >= 1, NEW x \in Members,
           MatchesAt(inner, p, x)
    PROVE  /\ p + Len(x) - 1 <= Len(inner)
           /\ \A i \in 1 .. Len(x) : x[i] = inner[p + i - 1]
<1> DEFINE l == Len(x)
           n == Len(inner)
           to == p + l - 1
           q == SubSeq(inner, p, to)
<1>1. l \in Nat /\ l >= 1 /\ n \in Nat
  BY MembersAre
<1>2. to <= n /\ q = x
  BY DEF MatchesAt
<1>3. to \in Int /\ p <= to /\ to - p + 1 = l /\ \A i \in p .. to : i \in 1 .. n
  <2> HIDE DEF l, n, q
  <2> QED BY <1>1, <1>2
<1>4. \A i \in p .. to : inner[i] \in Seq(Vocabulary)
  BY <1>3
<1>5. \A i \in 1 .. to - p + 1 : q[i] = inner[p + i - 1]
  <2> HIDE DEF to
  <2> QED BY <1>3, <1>4, SubSeqProperties DEF q
<1> HIDE DEF l, n, q, to
<1>6. \A i \in 1 .. l : x[i] = inner[p + i - 1]
  BY <1>2, <1>3, <1>5
<1> QED
  BY <1>2, <1>6 DEF l, n, to

(* A marker that matches inside a member is a suffix of it, as it ends     *)
(* with the first numbered piece.                                          *)
LEMMA OnlySuffixes ==
    ASSUME NEW inner \in Seq(Seq(Vocabulary)), NEW p \in Nat, p >= 1, NEW w \in Members,
           MatchesAt(inner, p, w), NEW j \in 1 .. Len(w), NEW x \in Members,
           MatchesAt(inner, p + j - 1, x)
    PROVE  /\ Len(x) = Len(w) - j + 1
           /\ \A i \in 1 .. Len(x) : x[i] = w[j + i - 1]
<1> DEFINE l == Len(w)
           k == Len(x)
           r == p + j - 1
<1>1. /\ l \in Nat /\ l >= 1 /\ \A i \in 1 .. l : Numbered(w[i]) <=> i = l
      /\ k \in Nat /\ k >= 1 /\ \A i \in 1 .. k : Numbered(x[i]) <=> i = k
  BY MembersAre
<1>2. \A i \in 1 .. l : w[i] = inner[p + i - 1]
  BY MatchIs
<1>3. \A i \in 1 .. k : x[i] = inner[r + i - 1]
  <2>1. r \in Nat /\ r >= 1 /\ MatchesAt(inner, r, x)
    OBVIOUS
  <2> HIDE DEF r
  <2> QED
    BY <2>1, MatchIs
<1>4. j \in 1 .. l
  OBVIOUS
<1> HIDE DEF l, k
<1>5. \A i \in 1 .. k : j + i - 1 <= l => x[i] = w[j + i - 1]
  <2> TAKE i \in 1 .. k
  <2> HAVE j + i - 1 <= l
  <2> DEFINE h == j + i - 1
  <2>1. h \in 1 .. l /\ p + h - 1 = r + i - 1
    BY <1>1, <1>4
  <2>2. w[h] = inner[p + h - 1] /\ x[i] = inner[r + i - 1]
    <3> HIDE DEF h, r
    <3> QED BY <1>2, <1>3, <2>1
  <2> QED
    BY <2>1, <2>2
<1> HIDE DEF r
<1>6. ~(k < l - j + 1)
  <2> SUFFICES ASSUME k < l - j + 1 PROVE FALSE
    OBVIOUS
  <2> DEFINE h == j + k - 1
  <2>1. k \in 1 .. k /\ h \in 1 .. l /\ h # l /\ h <= l
    BY <1>1, <1>4
  <2>2. x[k] = w[h]
    BY <1>5, <2>1
  <2>3. Numbered(x[k]) /\ ~Numbered(w[h])
    <3> HIDE DEF h
    <3> QED BY <1>1, <2>1
  <2> QED
    BY <2>2, <2>3
<1>7. ~(k > l - j + 1)
  <2> SUFFICES ASSUME k > l - j + 1 PROVE FALSE
    OBVIOUS
  <2> DEFINE i == l - j + 1
  <2>1. i \in 1 .. k /\ i # k /\ j + i - 1 = l /\ l \in 1 .. l
    BY <1>1, <1>4
  <2>2. x[i] = w[l]
    <3> HIDE DEF i
    <3>1. j + i - 1 <= l
      BY <1>1, <2>1
    <3>2. x[i] = w[j + i - 1]
      BY <1>5, <2>1, <3>1
    <3> QED BY <2>1, <3>2
  <2>3. ~Numbered(x[i]) /\ Numbered(w[l])
    <3> HIDE DEF i
    <3> QED BY <1>1, <2>1
  <2> QED
    BY <2>2, <2>3
<1>8. k = l - j + 1
  BY <1>1, <1>4, <1>6, <1>7
<1>9. \A i \in 1 .. k : x[i] = w[j + i - 1]
  BY <1>1, <1>4, <1>5, <1>8
<1> QED
  BY <1>8, <1>9 DEF l, k

(* At the start of a member only the member itself matches.                *)
LEMMA OnlyItself ==
    ASSUME NEW inner \in Seq(Seq(Vocabulary)), NEW p \in Nat, p >= 1, NEW w \in Members,
           MatchesAt(inner, p, w), NEW x \in Members, MatchesAt(inner, p, x)
    PROVE  x = w
<1>1. w \in Seq(Seq(Vocabulary)) /\ x \in Seq(Seq(Vocabulary)) /\ Len(w) \in Nat /\ Len(w) >= 1
  BY MembersAre
<1>2. 1 \in 1 .. Len(w) /\ p + 1 - 1 = p
  BY <1>1
<1>3. MatchesAt(inner, p + 1 - 1, x)
  BY <1>2
<1>4. Len(x) = Len(w) - 1 + 1 /\ \A i \in 1 .. Len(x) : x[i] = w[1 + i - 1]
  BY <1>2, <1>3, OnlySuffixes
<1>5. Len(x) = Len(w) /\ \A i \in 1 .. Len(x) : x[i] = w[i]
  BY <1>1, <1>4
<1> QED
  BY <1>1, <1>5, SeqEqual

(* The ends of a member.                                                   *)
LEMMA EndIs ==
    ASSUME NEW w \in Members, NEW j \in 1 .. Len(w)
    PROVE  LET q == SubSeq(w, j, Len(w))
           IN /\ q \in Seq(Seq(Vocabulary)) /\ Len(q) = Len(w) - j + 1
              /\ \A i \in 1 .. Len(q) : q[i] = w[j + i - 1]
<1> DEFINE l == Len(w)
           q == SubSeq(w, j, l)
<1>1. w \in Seq(Seq(Vocabulary)) /\ l \in Nat /\ l >= 1
  BY MembersAre
<1>2. j \in Int /\ l \in Int /\ j <= l /\ \A i \in j .. l : w[i] \in Seq(Vocabulary)
  <2>1. j \in Int /\ l \in Int /\ j <= l /\ \A i \in j .. l : i \in 1 .. l
    BY <1>1
  <2> QED
    BY <1>1, <2>1
<1>3. /\ q \in Seq(Seq(Vocabulary)) /\ Len(q) = IF j <= l THEN l - j + 1 ELSE 0
      /\ \A i \in 1 .. l - j + 1 : q[i] = w[j + i - 1]
  BY <1>2, SubSeqProperties
<1> HIDE DEF q, l
<1>4. Len(q) = l - j + 1
  BY <1>2, <1>3
<1> QED
  BY <1>3, <1>4 DEF q, l

(* What matches inside a member is the end of it there, if it is a marker. *)
LEMMA HereInside ==
    ASSUME NEW inner \in Seq(Seq(Vocabulary)), NEW markers, AreMembers(markers),
           NEW p \in Nat, p >= 1, NEW w \in Members, MatchesAt(inner, p, w), NEW j \in 1 .. Len(w)
    PROVE  Here(inner, markers, p + j - 1) = {SubSeq(w, j, Len(w))} \cap markers
<1> DEFINE l == Len(w)
           q == SubSeq(w, j, l)
           r == p + j - 1
<1>1. /\ w \in Seq(Seq(Vocabulary)) /\ l \in Nat /\ l >= 1
      /\ q \in Seq(Seq(Vocabulary)) /\ Len(q) = l - j + 1
      /\ \A i \in 1 .. Len(q) : q[i] = w[j + i - 1]
  BY MembersAre, EndIs
<1>2. ASSUME NEW x \in markers, MatchesAt(inner, r, x) PROVE x = q
  <2>1. x \in Members
    BY DEF AreMembers
  <2>2. Len(x) = l - j + 1 /\ \A i \in 1 .. Len(x) : x[i] = w[j + i - 1]
    BY <1>2, <2>1, OnlySuffixes
  <2>3. x \in Seq(Seq(Vocabulary))
    BY <2>1, MembersAre
  <2> HIDE DEF q, l
  <2>4. Len(x) = Len(q) /\ \A i \in 1 .. Len(x) : x[i] = q[i]
    BY <1>1, <2>2
  <2> QED
    BY <1>1, <2>3, <2>4, SeqEqual
<1>3. MatchesAt(inner, r, q)
  <2>1. p + l - 1 <= Len(inner) /\ Len(inner) \in Nat /\ \A i \in 1 .. l : w[i] = inner[p + i - 1]
    BY MatchIs
  <2>2. j \in 1 .. l
    OBVIOUS
  <2> DEFINE to == r + Len(q) - 1
             v == SubSeq(inner, r, to)
  <2> HIDE DEF q, l
  <2>3. r \in Nat /\ r >= 1 /\ to \in Nat /\ to = p + l - 1 /\ r <= to /\ to - r + 1 = l - j + 1
    BY <1>1, <2>2
  <2>4. \A i \in r .. to : i \in 1 .. Len(inner)
    BY <2>1, <2>3
  <2>5. \A i \in r .. to : inner[i] \in Seq(Vocabulary)
    BY <2>4
  <2> HIDE DEF to
  <2>6. /\ v \in Seq(Seq(Vocabulary)) /\ Len(v) = IF r <= to THEN to - r + 1 ELSE 0
        /\ \A i \in 1 .. to - r + 1 : v[i] = inner[r + i - 1]
    <3> HIDE DEF r
    <3> QED BY <2>3, <2>5, SubSeqProperties
  <2> HIDE DEF v
  <2>7. Len(v) = Len(q)
    BY <1>1, <2>3, <2>6
  <2>8. \A i \in 1 .. Len(q) : v[i] = q[i]
    <3> TAKE i \in 1 .. Len(q)
    <3> DEFINE h == j + i - 1
    <3>1. h \in 1 .. l /\ r + i - 1 = p + h - 1 /\ i \in 1 .. to - r + 1
      BY <1>1, <2>2, <2>3
    <3>2. v[i] = inner[r + i - 1] /\ q[i] = w[h] /\ w[h] = inner[p + h - 1]
      <4> HIDE DEF r
      <4>1. w[h] = inner[p + h - 1]
        <5> HIDE DEF h
        <5> QED BY <2>1, <3>1
      <4> QED BY <1>1, <2>6, <3>1, <4>1
    <3> HIDE DEF r, h
    <3> QED
      BY <3>1, <3>2
  <2>9. v = q
    BY <1>1, <2>6, <2>7, <2>8, SeqEqual
  <2>10. to <= Len(inner)
    BY <2>1, <2>3
  <2> QED
    BY <2>9, <2>10 DEF MatchesAt, to, v
<1>4. Here(inner, markers, r) = {x \in markers : MatchesAt(inner, r, x)}
  BY DEF Here
<1> HIDE DEF q, r
<1>5. Here(inner, markers, r) = {q} \cap markers
  BY <1>2, <1>3, <1>4
<1> QED
  BY <1>5 DEF q, r, l

(* What a member is taken for: one marker at most, that of its first end   *)
(* which is one.                                                           *)
LEMMA TakenIs ==
    ASSUME NEW markers, NEW w \in Members
    PROVE  /\ TakenFor(w, markers) \in Seq(markers)
           /\ (\A j \in 1 .. Len(w) : SubSeq(w, j, Len(w)) \notin markers)
                => TakenFor(w, markers) = <<>>
           /\ \A j \in 1 .. Len(w) :
                /\ SubSeq(w, j, Len(w)) \in markers
                /\ \A k \in 1 .. j - 1 : SubSeq(w, k, Len(w)) \notin markers
                => TakenFor(w, markers) = <<SubSeq(w, j, Len(w))>>
<1> DEFINE l == Len(w)
           end(j) == SubSeq(w, j, l)
           named == Ends(w) \cap markers
           most(m) == \A k \in named : Len(k) <= Len(m)
<1>1. l \in Nat /\ l >= 1
  BY MembersAre
<1>2. \A j \in 1 .. l : Len(end(j)) = l - j + 1
  BY EndIs
<1>3. named = {end(j) : j \in 1 .. l} \cap markers
  BY DEF Ends
<1>4. TakenFor(w, markers) = IF named = {} THEN <<>> ELSE <<CHOOSE m \in named : most(m)>>
  BY DEF TakenFor
<1> HIDE DEF end, l, named
<1>5. ASSUME \A j \in 1 .. l : end(j) \notin markers PROVE TakenFor(w, markers) = <<>>
  <2>1. named = {}
    BY <1>3, <1>5
  <2> QED
    BY <1>4, <2>1
<1>6. ASSUME NEW j \in 1 .. l, end(j) \in markers, \A k \in 1 .. j - 1 : end(k) \notin markers
      PROVE  TakenFor(w, markers) = <<end(j)>>
  <2>1. end(j) \in named
    BY <1>3, <1>6
  <2>2. ASSUME NEW k \in 1 .. l, end(k) \in markers PROVE j <= k
    <3>1. k \notin 1 .. j - 1
      BY <1>6, <2>2
    <3> QED
      BY <1>1, <3>1
  <2>3. ASSUME NEW m \in named PROVE Len(m) <= Len(end(j)) /\ (Len(m) = Len(end(j)) => m = end(j))
    <3>1. PICK k \in 1 .. l : m = end(k) /\ end(k) \in markers
      BY <1>3
    <3>2. j <= k /\ Len(m) = l - k + 1 /\ Len(end(j)) = l - j + 1
      BY <1>2, <2>2, <3>1
    <3>3. Len(m) <= Len(end(j))
      BY <1>1, <3>2
    <3>4. Len(m) = Len(end(j)) => k = j
      BY <1>1, <3>2
    <3> QED
      BY <3>1, <3>3, <3>4
  <2> DEFINE best == CHOOSE m \in named : most(m)
  <2>4. best \in named /\ most(best)
    <3>1. most(end(j))
      BY <2>3
    <3> HIDE DEF most
    <3> QED
      BY <2>1, <3>1
  <2>5. Len(end(j)) <= Len(best)
    BY <2>1, <2>4
  <2> HIDE DEF best
  <2>6. Len(best) <= Len(end(j)) /\ (Len(best) = Len(end(j)) => best = end(j))
    BY <2>3, <2>4
  <2>7. Len(best) \in Int /\ Len(end(j)) \in Int
    <3>1. PICK k \in 1 .. l : best = end(k)
      BY <1>3, <2>4
    <3> QED
      BY <1>1, <1>2, <3>1
  <2>8. best = end(j)
    BY <2>5, <2>6, <2>7
  <2>9. named # {}
    BY <2>1
  <2> QED
    BY <1>4, <2>8, <2>9 DEF best
<1>7. TakenFor(w, markers) \in Seq(markers)
  <2>1. CASE \A j \in 1 .. l : end(j) \notin markers
    <3>1. TakenFor(w, markers) = <<>>
      BY <1>5, <2>1
    <3>2. <<>> \in Seq(markers)
      OBVIOUS
    <3> QED
      BY <3>1, <3>2
  <2>2. CASE \E j \in 1 .. l : end(j) \in markers
    <3> DEFINE T == {j \in 1 .. l : end(j) \in markers}
    <3>1. T \subseteq Nat /\ T # {}
      BY <2>2
    <3>2. PICK j \in T : \A k \in T : j <= k
      <4> HIDE DEF T
      <4> QED BY <3>1, LeastNumber
    <3>3. j \in 1 .. l /\ end(j) \in markers
      OBVIOUS
    <3>4. \A k \in 1 .. j - 1 : end(k) \notin markers
      <4> TAKE k \in 1 .. j - 1
      <4>1. k \in 1 .. l /\ ~(j <= k)
        BY <1>1, <3>3
      <4> QED
        BY <3>2, <4>1
    <3>5. TakenFor(w, markers) = <<end(j)>>
      BY <1>6, <3>3, <3>4
    <3> QED
      BY <3>3, <3>5
  <2> QED
    BY <2>1, <2>2
<1> QED
  BY <1>5, <1>6, <1>7 DEF end, l

(* The resolution of a text, from each position on.                        *)
Walks(From, inner, markers) ==
    /\ inner \in Seq(Seq(Vocabulary)) /\ AreMembers(markers)
    /\ \A p \in Nat : From[p] \in Seq(markers) /\ From[p] = Resolved(inner, markers, p, From)

(* Ends that are no markers are passed over.                               *)
LEMMA PassedOver ==
    ASSUME NEW inner, NEW markers, NEW From, Walks(From, inner, markers),
           NEW p \in Nat, p >= 1, NEW w \in Members, MatchesAt(inner, p, w), NEW k \in 0 .. Len(w),
           \A i \in 1 .. k : SubSeq(w, i, Len(w)) \notin markers
    PROVE  From[p + k] = From[p]
<1>0. /\ inner \in Seq(Seq(Vocabulary)) /\ AreMembers(markers)
      /\ \A q \in Nat : From[q] = Resolved(inner, markers, q, From)
  BY DEF Walks
<1> DEFINE l == Len(w)
           n == Len(inner)
<1>1. l \in Nat /\ l >= 1 /\ n \in Nat /\ p + l - 1 <= n /\ k \in Nat /\ k <= l
  <2>1. l \in Nat /\ l >= 1
    BY MembersAre
  <2>2. n \in Nat /\ p + l - 1 <= n
    BY <1>0 DEF MatchesAt
  <2> QED
    BY <2>1, <2>2
<1> DEFINE P == {i \in 0 .. k : From[p + i] = From[p]}
<1>2. 0 \in P
  BY <1>1
<1>3. ASSUME NEW i \in 1 .. k, i - 1 \in P PROVE i \in P
  <2>1. Here(inner, markers, p + i - 1) = {}
    <3>1. i \in 1 .. Len(w) /\ SubSeq(w, i, Len(w)) \notin markers
      BY <1>1
    <3>2. Here(inner, markers, p + i - 1) = {SubSeq(w, i, Len(w))} \cap markers
      BY <1>0, <3>1, HereInside
    <3> QED
      BY <3>1, <3>2
  <2> HIDE DEF l, n
  <2>2. p + i - 1 \in Nat /\ ~(p + i - 1 > n) /\ p + (i - 1) = p + i - 1 /\ i \in 0 .. k
    BY <1>1
  <2> DEFINE r == p + i - 1
  <2>3. r + 1 = p + i
    BY <1>1
  <2>4. Resolved(inner, markers, r, From) = From[r + 1]
    <3> HIDE DEF r
    <3>1. Here(inner, markers, r) = {} /\ ~(r > n)
      BY <2>1, <2>2 DEF r
    <3> QED
      BY <3>1 DEF Resolved, n
  <2>5. From[r] = From[p]
    BY <1>3, <2>2
  <2>6. From[r] = From[r + 1]
    <3> HIDE DEF r
    <3>1. r \in Nat
      BY <2>2 DEF r
    <3> QED BY <1>0, <2>4, <3>1
  <2>7. From[p + i] = From[p]
    <3> HIDE DEF r
    <3> QED BY <2>3, <2>5, <2>6
  <2> QED
    BY <2>2, <2>7
<1>4. \A i \in 0 .. k : i \in P
  <2> HIDE DEF P, l
  <2> QED BY <1>1, <1>2, <1>3, UptoInduction
<1>5. k \in 0 .. k
  BY <1>1
<1> QED
  BY <1>4, <1>5

(* A member is resolved to what it is taken for.                           *)
LEMMA ResolveMember ==
    ASSUME NEW inner, NEW markers, NEW From, Walks(From, inner, markers),
           NEW p \in Nat, p >= 1, NEW w \in Members, MatchesAt(inner, p, w)
    PROVE  From[p] = TakenFor(w, markers) \o From[p + Len(w)]
<1>0. /\ inner \in Seq(Seq(Vocabulary)) /\ AreMembers(markers)
      /\ \A q \in Nat : From[q] \in Seq(markers) /\ From[q] = Resolved(inner, markers, q, From)
  BY DEF Walks
<1> DEFINE l == Len(w)
           n == Len(inner)
           end(j) == SubSeq(w, j, l)
<1>1. l \in Nat /\ l >= 1 /\ n \in Nat /\ p + l - 1 <= n /\ l \in 0 .. l /\ p + l \in Nat
  <2>1. l \in Nat /\ l >= 1
    BY MembersAre
  <2>2. n \in Nat /\ p + l - 1 <= n
    BY <1>0 DEF MatchesAt
  <2> QED
    BY <2>1, <2>2
<1>2. CASE \A j \in 1 .. l : end(j) \notin markers
  <2>1. From[p + l] = From[p]
    BY <1>1, <1>2, PassedOver
  <2>2. TakenFor(w, markers) = <<>>
    BY <1>2, TakenIs
  <2>3. From[p + l] \in Seq(markers)
    BY <1>0, <1>1
  <2> HIDE DEF l
  <2>4. <<>> \o From[p + l] = From[p + l]
    BY <2>3
  <2> QED
    BY <2>1, <2>2, <2>4 DEF l
<1>3. CASE \E j \in 1 .. l : end(j) \in markers
  <2> DEFINE T == {j \in 1 .. l : end(j) \in markers}
  <2>1. T \subseteq Nat /\ T # {}
    BY <1>3
  <2>2. PICK j \in T : \A k \in T : j <= k
    <3> HIDE DEF T
    <3> QED BY <2>1, LeastNumber
  <2>3. j \in 1 .. l /\ end(j) \in markers
    OBVIOUS
  <2>4. \A k \in 1 .. j - 1 : end(k) \notin markers
    <3> HIDE DEF end
    <3> TAKE k \in 1 .. j - 1
    <3>1. k \in 1 .. l /\ ~(j <= k)
      BY <1>1, <2>3
    <3> QED
      BY <2>2, <3>1
  <2>5. TakenFor(w, markers) = <<end(j)>>
    BY <2>3, <2>4, TakenIs
  <2> DEFINE r == p + j - 1
  <2>6. From[r] = From[p]
    <3>1. j - 1 \in 0 .. l /\ p + (j - 1) = r
      BY <1>1, <2>3
    <3>2. \A i \in 1 .. j - 1 : SubSeq(w, i, Len(w)) \notin markers
      BY <2>4
    <3> HIDE DEF r, end, T
    <3>3. From[p + (j - 1)] = From[p]
      BY <3>1, <3>2, PassedOver
    <3> QED
      BY <3>1, <3>3
  <2>7. Here(inner, markers, r) = {end(j)}
    <3>1. Here(inner, markers, r) = {end(j)} \cap markers
      BY <1>0, <2>3, HereInside
    <3> QED
      BY <2>3, <3>1
  <2>8. Len(end(j)) = l - j + 1
    BY <2>3, EndIs
  <2> HIDE DEF end, l, n
  <2>9. r \in Nat /\ ~(r > n) /\ r + Len(end(j)) = p + l
    BY <1>1, <2>3, <2>8
  <2>10. Longest({end(j)}) = end(j)
    <3>1. Len(end(j)) <= Len(end(j))
      BY <1>1, <2>3, <2>8
    <3> QED
      BY <3>1 DEF Longest
  <2> HIDE DEF r
  <2>11. From[r] = <<end(j)>> \o From[p + l]
    <3>1. From[r] = Resolved(inner, markers, r, From)
      BY <1>0, <2>9
    <3> QED
      BY <2>7, <2>9, <2>10, <3>1 DEF Resolved, n
  <2> QED
    BY <2>5, <2>6, <2>11 DEF l
<1> QED
  BY <1>2, <1>3

(* What the members of a group are taken for.                              *)
AllTaken(members, markers) == [i \in 1 .. Len(members) |-> TakenFor(members[i], markers)]

(* The elements of a join are those of its lists.                          *)
LEMMA JoinedElements ==
    ASSUME NEW S, NEW lists \in Seq(Seq(S))
    PROVE  /\ Join(lists) \in Seq(S)
           /\ Elements(Join(lists)) = UNION {Elements(lists[k]) : k \in 1 .. Len(lists)}
<1> DEFINE n == Len(lists)
           B == JoinUpTo(lists)
           all(i) == UNION {Elements(lists[k]) : k \in 1 .. i}
<1>1. /\ n \in Nat /\ \A i \in 1 .. n : lists[i] \in Seq(S)
      /\ B[0] = <<>> /\ \A i \in 1 .. n : i \in 0 .. n /\ B[i] = B[i - 1] \o lists[i]
      /\ \A i \in 0 .. n : B[i] \in Seq(S)
  BY JoinsAre
<1>2. Join(lists) = B[n]
  BY DEF Join
<1> HIDE DEF n, B
<1> DEFINE P == {i \in 0 .. n : Elements(B[i]) = all(i)}
<1>3. 0 \in P
  <2>1. 0 \in 0 .. n /\ 1 .. 0 = {} /\ Len(<<>>) = 0
    BY <1>1
  <2>2. Elements(<<>>) = {}
    BY <2>1 DEF Elements
  <2> QED
    BY <1>1, <2>1, <2>2
<1>4. ASSUME NEW i \in 1 .. n, i - 1 \in P PROVE i \in P
  <2>1. i \in 0 .. n /\ i - 1 \in 0 .. n /\ \A k : k \in 1 .. i <=> k \in 1 .. i - 1 \/ k = i
    BY <1>1
  <2> DEFINE u == B[i - 1]
             v == lists[i]
  <2>2. u \in Seq(S) /\ v \in Seq(S) /\ B[i] = u \o v /\ Elements(u) = all(i - 1)
    BY <1>1, <1>4, <2>1
  <2>3. all(i) = all(i - 1) \cup Elements(v)
    BY <2>1
  <2> HIDE DEF u, v, all
  <2>4. Elements(u \o v) = Elements(u) \cup Elements(v)
    BY <2>2, ElementsOfJoin
  <2> QED
    BY <2>1, <2>2, <2>3, <2>4
<1>5. \A i \in 0 .. n : i \in P
  <2> HIDE DEF P
  <2> QED BY <1>1, <1>3, <1>4, UptoInduction
<1>6. n \in 0 .. n
  BY <1>1
<1> QED
  BY <1>1, <1>2, <1>5, <1>6 DEF n

(* The resolution of a group is what its members are taken for.            *)
LEMMA ResolveJoin ==
    ASSUME NEW markers, AreMembers(markers), NEW members \in Seq(Members)
    PROVE  /\ AllTaken(members, markers) \in Seq(Seq(markers))
           /\ Resolve(Join(members), markers) = Join(AllTaken(members, markers))
           /\ Resolve(Join(members), markers) \in Seq(markers)
<1> DEFINE n == Len(members)
           B == JoinUpTo(members)
           inner == B[n]
           S == Seq(Vocabulary)
<1>1. members \in Seq(Members) /\ n \in Nat /\ \A i \in 1 .. n : members[i] \in Members
  OBVIOUS
<1>2. members \in Seq(Seq(S))
  <2>1. Members \in SUBSET Seq(S)
    BY DEF Members, Phrases
  <2>2. \A i \in 1 .. n : members[i] \in Seq(S)
    BY <1>1, <2>1
  <2>3. members = [i \in 1 .. n |-> members[i]]
    BY <1>1
  <2> DEFINE R == Seq(S)
  <2> HIDE DEF n, R
  <2>4. members \in Seq(R)
    BY <1>1, <2>2, <2>3 DEF R
  <2> QED
    BY <2>4 DEF R
<1>3. /\ B[0] = <<>> /\ \A i \in 0 .. n : B[i] \in Seq(S) /\ Len(B[i]) \in Nat
      /\ \A i \in 1 .. n :
           /\ Len(B[i]) = Len(B[i - 1]) + Len(members[i])
           /\ SubSeq(B[n], Len(B[i - 1]) + 1, Len(B[i - 1]) + Len(members[i])) = members[i]
  <2> HIDE DEF S
  <2> QED BY <1>2, BatchIs
<1>4. Join(members) = inner
  BY DEF Join
<1> HIDE DEF B
<1>5. inner \in Seq(S) /\ n \in 0 .. n
  BY <1>1, <1>3
<1> DEFINE o == [i \in 0 .. n |-> Len(B[i])]
<1>6. /\ o[0] = 0 /\ o[n] = Len(inner) /\ \A i \in 0 .. n : o[i] \in Nat
      /\ \A i \in 1 .. n : i \in 0 .. n /\ i - 1 \in 0 .. n /\ o[i] = o[i - 1] + Len(members[i])
  <2>1. 0 \in 0 .. n /\ n \in 0 .. n /\ \A i \in 1 .. n : i \in 0 .. n /\ i - 1 \in 0 .. n
    BY <1>1
  <2>2. \A i \in 0 .. n : o[i] = Len(B[i])
    OBVIOUS
  <2> HIDE DEF n, o
  <2>3. Len(<<>>) = 0
    OBVIOUS
  <2> QED
    BY <1>3, <2>1, <2>2, <2>3
<1>7. \A i \in 1 .. n : SubSeq(inner, o[i - 1] + 1, o[i - 1] + Len(members[i])) = members[i]
  <2> TAKE i \in 1 .. n
  <2>1. o[i - 1] = Len(B[i - 1])
    BY <1>6
  <2> HIDE DEF n, o
  <2> QED
    BY <1>3, <2>1
<1> HIDE DEF inner, o
<1>8. \A i \in 1 .. n : o[i] <= Len(inner)
  <2> DEFINE P == {j \in 0 .. n : \A i \in 1 .. n : i <= j => o[i] <= o[j]}
  <2>1. 0 \in P
    BY <1>1
  <2>2. ASSUME NEW j \in 1 .. n, j - 1 \in P PROVE j \in P
    <3>1. Len(members[j]) \in Nat
      BY <1>1, MembersAre
    <3> HIDE DEF n
    <3>2. o[j - 1] \in Nat /\ o[j] \in Nat /\ o[j - 1] <= o[j] /\ j \in 0 .. n
      BY <1>6, <3>1
    <3>3. ASSUME NEW i \in 1 .. n, i <= j PROVE o[i] <= o[j]
      <4>1. CASE i = j
        BY <3>2, <4>1
      <4>2. CASE i # j
        <5>1. i <= j - 1
          BY <1>1, <3>3, <4>2
        <5>2. o[i] <= o[j - 1]
          BY <2>2, <5>1
        <5>3. o[i] \in Nat
          BY <1>6
        <5> QED
          BY <3>2, <5>2, <5>3
      <4> QED
        BY <4>1, <4>2
    <3> QED
      BY <3>2, <3>3
  <2>3. \A j \in 0 .. n : j \in P
    <3> HIDE DEF P, n
    <3> QED BY <1>1, <2>1, <2>2, UptoInduction
  <2>4. n \in P
    BY <1>5, <2>3
  <2> HIDE DEF n
  <2> QED
    BY <1>1, <1>6, <2>4 DEF n
<1>9. PICK From :
        /\ From \in [Nat -> Seq(markers)]
        /\ Resolve(inner, markers) = From[1]
        /\ \A p \in Nat : From[p] = Resolved(inner, markers, p, From)
  BY <1>5, ResolveIs
<1>b. Walks(From, inner, markers)
  <2>1. \A p \in Nat : From[p] \in Seq(markers)
    BY <1>9
  <2> QED
    BY <1>5, <1>9, <2>1 DEF Walks
<1>10. \A i \in 1 .. n : From[o[i - 1] + 1] = TakenFor(members[i], markers) \o From[o[i] + 1]
  <2> TAKE i \in 1 .. n
  <2> DEFINE w == members[i]
             p == o[i - 1] + 1
             l == Len(w)
  <2>1. w \in Members /\ l \in Nat
    BY <1>1, MembersAre
  <2>2. SubSeq(inner, p, o[i - 1] + l) = w /\ o[i] = o[i - 1] + l
    BY <1>6, <1>7
  <2> HIDE DEF w, l, n
  <2>3. /\ p \in Nat /\ p >= 1 /\ p + l - 1 = o[i - 1] + l
        /\ p + l - 1 <= Len(inner) /\ p + l = o[i] + 1
    <3> DEFINE a == o[i - 1]
               b == o[i]
               h == Len(inner)
    <3>1. a \in Nat /\ b \in Nat /\ b = a + l /\ b <= h
      BY <1>6, <1>8, <2>2
    <3> HIDE DEF a, b, h
    <3>2. a + 1 \in Nat /\ a + 1 >= 1 /\ (a + 1) + l - 1 = a + l /\ (a + 1) + l = b + 1
      BY <2>1, <3>1
    <3>3. (a + 1) + l - 1 <= h
      BY <3>1, <3>2
    <3> QED
      BY <3>2, <3>3 DEF a, b, h
  <2> HIDE DEF p
  <2>4. MatchesAt(inner, p, w)
    BY <2>2, <2>3 DEF MatchesAt, l
  <2>5. From[p] = TakenFor(w, markers) \o From[p + Len(w)]
    <3>1. p \in Nat /\ p >= 1
      BY <2>3
    <3> HIDE DEF S
    <3> QED
      BY <1>b, <2>1, <2>4, <3>1, ResolveMember
  <2> QED
    BY <2>3, <2>5 DEF p, w, l
<1> DEFINE taken == AllTaken(members, markers)
           K == JoinUpTo(taken)
<1>11. /\ taken \in Seq(Seq(markers)) /\ Len(taken) = n
       /\ \A i \in 1 .. n : taken[i] = TakenFor(members[i], markers)
  <2>1. \A i \in 1 .. n : TakenFor(members[i], markers) \in Seq(markers)
    BY <1>1, TakenIs
  <2>2. taken = [i \in 1 .. n |-> TakenFor(members[i], markers)]
    BY DEF AllTaken
  <2> DEFINE R == Seq(markers)
  <2> HIDE DEF R, n, taken
  <2>3. taken \in Seq(R) /\ Len(taken) = n
    BY <1>1, <2>1, <2>2 DEF R
  <2> QED
    BY <2>2, <2>3 DEF R
<1> HIDE DEF taken
<1>12. /\ K[0] = <<>> /\ \A i \in 1 .. n : K[i] = K[i - 1] \o taken[i]
       /\ \A i \in 0 .. n : K[i] \in Seq(markers)
       /\ \A i \in 1 .. n : taken[i] \in Seq(markers)
  <2> HIDE DEF n
  <2> QED BY <1>11, JoinsAre
<1>13. Join(taken) = K[n]
  BY <1>11 DEF Join
<1> HIDE DEF K
<1>14. \A i \in 0 .. n : From[o[i] + 1] \in Seq(markers)
  <2> TAKE i \in 0 .. n
  <2> DEFINE a == o[i]
  <2>1. a \in Nat
    BY <1>6
  <2> HIDE DEF a
  <2>2. a + 1 \in Nat
    BY <2>1
  <2> QED
    BY <1>9, <2>2 DEF a
<1> DEFINE P == {i \in 0 .. n : From[1] = K[i] \o From[o[i] + 1]}
<1>15. 0 \in P
  <2>1. 0 \in 0 .. n /\ o[0] + 1 = 1
    BY <1>1, <1>6
  <2>2. From[1] \in Seq(markers)
    BY <1>14, <2>1
  <2>3. <<>> \o From[1] = From[1]
    BY <2>2
  <2> QED
    BY <1>12, <2>1, <2>3
<1>16. ASSUME NEW i \in 1 .. n, i - 1 \in P PROVE i \in P
  <2> DEFINE t == taken[i]
             u == K[i - 1]
             r == From[o[i] + 1]
             q == From[o[i - 1] + 1]
  <2>1. i \in 0 .. n /\ i - 1 \in 0 .. n
    BY <1>6
  <2>2. u \in Seq(markers) /\ r \in Seq(markers) /\ t \in Seq(markers)
    BY <1>12, <1>14, <2>1
  <2>3. From[1] = u \o q
    BY <1>16
  <2>4. K[i] = u \o t
    BY <1>12
  <2>5. q = t \o r
    BY <1>10, <1>11
  <2> HIDE DEF t, u, r, q
  <2>6. (u \o t) \o r = u \o (t \o r)
    BY <2>2, SMTT(30)
  <2>7. From[1] = K[i] \o r
    BY <2>3, <2>4, <2>5, <2>6, Zenon
  <2> QED
    BY <2>1, <2>7 DEF r
<1>17. n \in P
  <2>1. \A i \in 0 .. n : i \in P
    <3> HIDE DEF P, n
    <3> QED BY <1>1, <1>15, <1>16, UptoInduction
  <2> QED
    BY <1>5, <2>1
<1>18. From[1] = K[n]
  <2>1. From[1] = K[n] \o From[o[n] + 1] /\ K[n] \in Seq(markers)
    BY <1>5, <1>12, <1>17
  <2>2. From[o[n] + 1] = <<>>
    <3> DEFINE p == o[n] + 1
    <3>1. p \in Nat /\ p > Len(inner)
      <4> HIDE DEF n
      <4> QED BY <1>5, <1>6
    <3>2. From[p] = Resolved(inner, markers, p, From)
      BY <1>9, <3>1
    <3> HIDE DEF p
    <3>3. From[p] = <<>>
      BY <3>1, <3>2 DEF Resolved
    <3> QED
      BY <3>3 DEF p
  <2> HIDE DEF n
  <2>3. K[n] \o <<>> = K[n]
    BY <2>1
  <2> QED
    BY <2>1, <2>2, <2>3
<1>19. From[1] \in Seq(markers)
  <2>1. 1 \in Nat
    OBVIOUS
  <2> QED BY <1>9, <2>1
<1> QED
  BY <1>4, <1>9, <1>11, <1>13, <1>18, <1>19 DEF taken

(* New citations join the old ones, each once.                             *)
LEMMA AddedIs ==
    ASSUME NEW S, NEW cited \in Seq(S), NEW new \in Seq(S)
    PROVE  /\ Added(cited, new) \in Seq(S)
           /\ Elements(Added(cited, new)) = Elements(cited) \cup Elements(new)
           /\ Distinct(cited) => Distinct(Added(cited, new))
<1> DEFINE n == Len(new)
           T == Seq(S)
           A[j \in 0 .. Len(new)] ==
             IF j = 0 THEN cited
             ELSE IF new[j] \in Elements(A[j - 1]) THEN A[j - 1] ELSE Append(A[j - 1], new[j])
           next(j, v) == IF new[j] \in Elements(v) THEN v ELSE Append(v, new[j])
           step == [x \in (1 .. n) \X T |-> next(x[1], x[2])]
<1>1. Added(cited, new) = A[n]
  BY DEF Added
<1>2. n \in Nat /\ \A j \in 1 .. n : new[j] \in S
  OBVIOUS
<1>3. \A j \in 1 .. n, v \in T : step[<<j, v>>] = next(j, v) /\ step[<<j, v>>] \in T
  <2> TAKE j \in 1 .. n, v \in T
  <2>1. next(j, v) \in T
    BY <1>2
  <2> HIDE DEF T, next, n
  <2> QED
    BY <2>1
<1>4. cited \in T
  OBVIOUS
<1>5. PICK F : Folds(F, n, T, cited, step)
  <2> HIDE DEF T, step, n
  <2>1. FoldOn(n, T, cited, step)
    BY <1>2, <1>3, <1>4 DEF FoldOn
  <2> QED
    BY <2>1, FoldExists
<1>6. F = [j \in 0 .. n |-> IF j = 0 THEN cited ELSE next(j, F[j - 1])]
  <2> HIDE DEF T, step, next, n
  <2> QED
    BY <1>3, <1>5 DEF Folds
<1>7. A = [j \in 0 .. n |-> IF j = 0 THEN cited ELSE next(j, A[j - 1])]
  BY <1>6
<1> HIDE DEF A
<1>8. A[0] = cited /\ \A j \in 1 .. n : j \in 0 .. n /\ A[j] = next(j, A[j - 1])
  <2>1. 0 \in 0 .. n /\ \A j \in 1 .. n : j \in 0 .. n /\ j # 0
    BY <1>2
  <2> HIDE DEF next, n
  <2> QED
    BY <1>7, <2>1
<1> DEFINE P == {j \in 0 .. n :
                   /\ A[j] \in Seq(S)
                   /\ \A h : h \in Elements(A[j]) <=>
                               h \in Elements(cited) \/ \E i \in 1 .. j : h = new[i]
                   /\ Distinct(cited) => Distinct(A[j])}
<1> HIDE DEF n
<1>9. 0 \in P
  <2>1. 0 \in 0 .. n /\ 1 .. 0 = {}
    BY <1>2
  <2> QED
    BY <1>8, <2>1
<1>10. ASSUME NEW j \in 1 .. n, j - 1 \in P PROVE j \in P
  <2> DEFINE u == A[j - 1]
             x == new[j]
  <2>1. /\ u \in Seq(S)
        /\ \A h : h \in Elements(u) <=> h \in Elements(cited) \/ \E i \in 1 .. j - 1 : h = new[i]
        /\ Distinct(cited) => Distinct(u)
    BY <1>10
  <2>2. j \in 0 .. n /\ x \in S /\ \A i : i \in 1 .. j <=> i \in 1 .. j - 1 \/ i = j
    BY <1>2
  <2>3. A[j] = IF x \in Elements(u) THEN u ELSE Append(u, x)
    BY <1>8
  <2>4. \A h : (\E i \in 1 .. j : h = new[i]) <=> (\E i \in 1 .. j - 1 : h = new[i]) \/ h = x
    BY <2>2
  <2> HIDE DEF u, x
  <2>5. CASE x \in Elements(u)
    <3>1. A[j] = u
      BY <2>3, <2>5
    <3>2. \A h : h \in Elements(u) <=> h \in Elements(cited) \/ \E i \in 1 .. j : h = new[i]
      BY <2>1, <2>4, <2>5
    <3> QED
      BY <2>1, <2>2, <3>1, <3>2
  <2>6. CASE x \notin Elements(u)
    <3> DEFINE v == Append(u, x)
    <3>1. v \in Seq(S) /\ Elements(v) = Elements(u) \cup {x} /\ (Distinct(u) => Distinct(v))
      BY <2>1, <2>2, <2>6, AppendIs
    <3>2. A[j] = v
      BY <2>3, <2>6
    <3> HIDE DEF v
    <3>3. \A h : h \in Elements(v) <=> h \in Elements(cited) \/ \E i \in 1 .. j : h = new[i]
      BY <2>1, <2>4, <3>1
    <3> QED
      BY <2>1, <2>2, <3>1, <3>2, <3>3
  <2> QED
    BY <2>5, <2>6
<1>11. n \in P
  <2>1. \A j \in 0 .. n : j \in P
    <3> HIDE DEF P
    <3> QED BY <1>2, <1>9, <1>10, UptoInduction
  <2>2. n \in 0 .. n
    BY <1>2
  <2> QED
    BY <2>1, <2>2
<1>12. Elements(A[n]) = Elements(cited) \cup Elements(new)
  <2>1. \A h : h \in Elements(new) <=> \E i \in 1 .. n : h = new[i]
    BY DEF Elements, n
  <2>2. \A h : h \in Elements(A[n]) <=> h \in Elements(cited) \/ \E i \in 1 .. n : h = new[i]
    BY <1>11
  <2> QED
    BY <2>1, <2>2
<1>13. A[n] \in Seq(S) /\ (Distinct(cited) => Distinct(A[n]))
  BY <1>11
<1> QED
  BY <1>1, <1>12, <1>13

(* The citations are the markers of all groups, each once.                 *)
LEMMA CitationsAre ==
    ASSUME NEW markers, NEW groups, Len(groups) \in Nat,
           \A i \in 1 .. Len(groups) : Resolve(groups[i], markers) \in Seq(markers)
    PROVE  LET cited == Citations(groups, markers)
           IN /\ cited \in Seq(markers) /\ Distinct(cited)
              /\ \A h : h \in Elements(cited) <=>
                   \E i \in 1 .. Len(groups) : h \in Elements(Resolve(groups[i], markers))
<1> DEFINE n == Len(groups)
           T == Seq(markers)
           C[i \in 0 .. Len(groups)] ==
             IF i = 0 THEN <<>> ELSE Added(C[i - 1], Resolve(groups[i], markers))
           step == [x \in (1 .. n) \X T |-> Added(x[2], Resolve(groups[x[1]], markers))]
<1>1. Citations(groups, markers) = C[n]
  BY DEF Citations
<1>2. n \in Nat /\ \A i \in 1 .. n : Resolve(groups[i], markers) \in T
  OBVIOUS
<1>3. \A i \in 1 .. n, v \in T : /\ step[<<i, v>>] = Added(v, Resolve(groups[i], markers))
                                /\ step[<<i, v>>] \in T
  <2> TAKE i \in 1 .. n, v \in T
  <2>1. Added(v, Resolve(groups[i], markers)) \in T
    BY <1>2, AddedIs
  <2> HIDE DEF T, n
  <2> QED
    BY <2>1
<1>4. <<>> \in T
  OBVIOUS
<1>5. PICK F : Folds(F, n, T, <<>>, step)
  <2> HIDE DEF T, step, n
  <2>1. FoldOn(n, T, <<>>, step)
    BY <1>2, <1>3, <1>4 DEF FoldOn
  <2> QED
    BY <2>1, FoldExists
<1>6. F = [i \in 0 .. n |-> IF i = 0 THEN <<>> ELSE Added(F[i - 1], Resolve(groups[i], markers))]
  <2> HIDE DEF T, step, n
  <2> QED
    BY <1>3, <1>5 DEF Folds
<1>7. C = [i \in 0 .. n |-> IF i = 0 THEN <<>> ELSE Added(C[i - 1], Resolve(groups[i], markers))]
  BY <1>6
<1> HIDE DEF C
<1>8. C[0] = <<>> /\ \A i \in 1 .. n : /\ i \in 0 .. n
                                       /\ C[i] = Added(C[i - 1], Resolve(groups[i], markers))
  <2>1. 0 \in 0 .. n /\ \A i \in 1 .. n : i \in 0 .. n /\ i # 0
    BY <1>2
  <2> HIDE DEF n
  <2> QED
    BY <1>7, <2>1
<1> HIDE DEF n
<1> DEFINE P == {i \in 0 .. n :
                   /\ C[i] \in T /\ Distinct(C[i])
                   /\ \A h : h \in Elements(C[i]) <=>
                        \E j \in 1 .. i : h \in Elements(Resolve(groups[j], markers))}
<1>9. 0 \in P
  <2>1. 0 \in 0 .. n /\ 1 .. 0 = {} /\ Len(<<>>) = 0
    BY <1>2
  <2>2. Distinct(<<>>) /\ Elements(<<>>) = {}
    BY <2>1 DEF Distinct, Elements
  <2> HIDE DEF T
  <2> QED
    BY <1>4, <1>8, <2>1, <2>2
<1>10. ASSUME NEW i \in 1 .. n, i - 1 \in P PROVE i \in P
  <2> DEFINE u == C[i - 1]
             r == Resolve(groups[i], markers)
  <2>1. /\ u \in T /\ Distinct(u)
        /\ \A h : h \in Elements(u) <=> \E j \in 1 .. i - 1 : h \in Elements(Resolve(groups[j], markers))
    BY <1>10
  <2>2. i \in 0 .. n /\ r \in T /\ \A j : j \in 1 .. i <=> j \in 1 .. i - 1 \/ j = i
    BY <1>2
  <2>3. C[i] = Added(u, r)
    BY <1>8
  <2>4. \A h : (\E j \in 1 .. i : h \in Elements(Resolve(groups[j], markers))) <=>
                (\E j \in 1 .. i - 1 : h \in Elements(Resolve(groups[j], markers))) \/ h \in Elements(r)
    BY <2>2
  <2> HIDE DEF u, r
  <2>5. C[i] \in T /\ Distinct(C[i]) /\ Elements(C[i]) = Elements(u) \cup Elements(r)
    BY <2>1, <2>2, <2>3, AddedIs
  <2> HIDE DEF T
  <2> QED
    BY <2>1, <2>2, <2>4, <2>5
<1>11. n \in P
  <2>1. \A i \in 0 .. n : i \in P
    <3> HIDE DEF P
    <3> QED BY <1>2, <1>9, <1>10, UptoInduction
  <2>2. n \in 0 .. n
    BY <1>2
  <2> QED
    BY <2>1, <2>2
<1> QED
  BY <1>1, <1>11 DEF n

(* One list joined is the list.                                            *)
LEMMA JoinOne ==
    ASSUME NEW S, NEW w \in Seq(S)
    PROVE  Join(<<w>>) = w
<1> DEFINE hits == <<w>>
           B == JoinUpTo(hits)
<1>1. hits \in Seq(Seq(S)) /\ Len(hits) = 1 /\ hits[1] = w
  OBVIOUS
<1>2. /\ B[0] = <<>> /\ \A i \in 0 .. Len(hits) : B[i] \in Seq(S) /\ Len(B[i]) \in Nat
      /\ \A i \in 1 .. Len(hits) :
           /\ Len(B[i]) = Len(B[i - 1]) + Len(hits[i])
           /\ SubSeq(B[Len(hits)], Len(B[i - 1]) + 1, Len(B[i - 1]) + Len(hits[i])) = hits[i]
  <2> HIDE DEF hits
  <2> QED BY <1>1, BatchIs
<1> HIDE DEF B, hits
<1>3. Len(<<>>) = 0 /\ 1 - 1 = 0 /\ 1 \in 1 .. 1 /\ 1 \in 0 .. 1 /\ Len(w) \in Nat
  OBVIOUS
<1>4. /\ B[1] \in Seq(S) /\ Len(B[1]) = 0 + Len(w)
      /\ SubSeq(B[1], 0 + 1, 0 + Len(w)) = w
  BY <1>1, <1>2, <1>3
<1> DEFINE b == B[1]
           l == Len(w)
<1>5. b \in Seq(S) /\ Len(b) = l /\ SubSeq(b, 1, l) = w
  <2>1. 0 + l = l /\ 0 + 1 = 1
    BY <1>3
  <2> QED
    BY <1>4, <2>1
<1> HIDE DEF b, l
<1>6. SubSeq(b, 1, l) = b
  BY <1>5, SubSeqFull
<1>7. Join(hits) = B[1]
  BY <1>1 DEF Join, B
<1> QED
  BY <1>5, <1>6, <1>7 DEF b, hits

(* Two sources never share a marker, and a group cites what its members    *)
(* are taken for, each once: whatever commas the titles hold, and whether  *)
(* or not its members are sources.  A group is any text whose members end  *)
(* like markers and only there.                                            *)
THEOREM EveryCitationIsASource ==
    ASSUME NEW titles \in Seq(Plain), NEW sources, Sources(titles, sources),
           NEW members \in Seq(Members)
    PROVE  CitationsTellTheSources(titles, sources, members)
<1> DEFINE markers == Markers(titles, sources)
           taken == AllTaken(members, markers)
           all == UNION {Elements(taken[k]) : k \in 1 .. Len(members)}
<1>1. AreMembers(markers) /\ Cardinality(markers) = Cardinality(sources)
  BY MarkersAre DEF AreMembers
<1> HIDE DEF markers
<1>2. Len(members) \in Nat /\ \A i \in 1 .. Len(members) : members[i] \in Members
  OBVIOUS
<1>3. /\ taken \in Seq(Seq(markers)) /\ Resolve(Join(members), markers) = Join(taken)
      /\ Resolve(Join(members), markers) \in Seq(markers)
  BY <1>1, ResolveJoin
<1>4. taken = [i \in 1 .. Len(members) |-> TakenFor(members[i], markers)]
  BY DEF AllTaken
<1>5. Len(taken) = Len(members)
  BY <1>2, <1>4
<1> HIDE DEF taken
<1>6. Elements(Resolve(Join(members), markers)) = all
  BY <1>3, <1>5, JoinedElements
<1>7. ASSUME NEW i \in 1 .. Len(members)
      PROVE  LET cited == Citations(<<Join(members), members[i]>>, markers)
             IN /\ Elements(cited) = all
                /\ \A j, k \in 1 .. Len(cited) : cited[j] = cited[k] => j = k
  <2> DEFINE w == members[i]
             one == <<w>>
             alone == AllTaken(one, markers)
             groups == <<Join(members), w>>
             cited == Citations(groups, markers)
  <2>1. w \in Members /\ taken[i] = TakenFor(w, markers)
    BY <1>2, <1>4
  <2> HIDE DEF w
  <2>2. one \in Seq(Members) /\ Len(one) = 1 /\ one[1] = w
    BY <2>1
  <2>3. Join(one) = w
    <3>1. w \in Seq(Seq(Vocabulary))
      BY <2>1, MembersAre
    <3> QED
      BY <3>1, JoinOne
  <2>4. TakenFor(w, markers) \in Seq(markers)
    BY <2>1, TakenIs
  <2>5. Join(alone) = TakenFor(w, markers)
    <3>1. alone = <<TakenFor(w, markers)>>
      <4>1. alone = [k \in 1 .. 1 |-> TakenFor(one[k], markers)]
        BY <2>2 DEF AllTaken
      <4>2. \A k \in 1 .. 1 : TakenFor(one[k], markers) = TakenFor(w, markers)
        BY <2>2
      <4> HIDE DEF alone, one
      <4> QED
        BY <4>1, <4>2
    <3> HIDE DEF alone
    <3> QED
      BY <2>4, <3>1, JoinOne
  <2>6. Resolve(w, markers) = TakenFor(w, markers) /\ Resolve(w, markers) \in Seq(markers)
    <3> HIDE DEF one
    <3> QED
      BY <1>1, <2>2, <2>3, <2>5, ResolveJoin
  <2>7. Len(groups) = 2 /\ groups[1] = Join(members) /\ groups[2] = w /\ 1 .. 2 = {1, 2}
    OBVIOUS
  <2>8. \A j \in 1 .. Len(groups) : Resolve(groups[j], markers) \in Seq(markers)
    <3> HIDE DEF groups
    <3> QED
      BY <1>3, <2>6, <2>7
  <2>9. /\ Distinct(cited)
        /\ \A h : h \in Elements(cited) <=>
             \E j \in 1 .. Len(groups) : h \in Elements(Resolve(groups[j], markers))
    <3>1. Len(groups) \in Nat
      BY <2>7
    <3> HIDE DEF groups
    <3> QED
      BY <2>8, <3>1, CitationsAre
  <2> HIDE DEF groups
  <2>10. \A h : h \in Elements(cited) <=> h \in all
    <3>1. \A h : h \in Elements(cited) <=>
                   \/ h \in Elements(Resolve(groups[1], markers))
                   \/ h \in Elements(Resolve(groups[2], markers))
      BY <2>7, <2>9
    <3>2. Elements(Resolve(groups[1], markers)) = all
      BY <1>6, <2>7
    <3>3. Elements(Resolve(groups[2], markers)) = Elements(taken[i])
      BY <2>1, <2>6, <2>7
    <3>4. Elements(taken[i]) \subseteq all
      OBVIOUS
    <3> HIDE DEF all
    <3> QED
      BY <3>1, <3>2, <3>3, <3>4
  <2> HIDE DEF cited, all
  <2>11. Elements(cited) = all
    BY <2>10
  <2>12. \A j, k \in 1 .. Len(cited) : cited[j] = cited[k] => j = k
    BY <2>9 DEF Distinct
  <2> QED
    BY <2>11, <2>12 DEF cited, groups, w
<1> QED
  BY <1>1, <1>3, <1>4, <1>7 DEF CitationsTellTheSources, markers

(* The titles the run tries hold no piece that looks like a marker's.      *)
LEMMA TitlesArePlain == Titles \subseteq Plain
<1>1. /\ WordA \in Vocabulary /\ WordB \in Vocabulary /\ Suffix(2) \in Vocabulary
  <2>1. WordA \in Vocabulary /\ WordB \in Vocabulary
    BY DEF WordA, WordB, Vocabulary, Name
  <2>2. Suffix(2) \in Vocabulary
    <3>1. 2 \in Nat
      OBVIOUS
    <3> QED
      BY <3>1, WordsAre
  <2> QED
    BY <2>1, <2>2
<1>2. \A n \in Nat : WordA # Index(n) /\ WordB # Index(n) /\ Suffix(2) # Index(n)
  <2>1. \A n \in Nat : WordA # Index(n) /\ WordB # Index(n)
    BY DEF WordA, WordB, Index
  <2>2. \A n \in Nat : Suffix(2) # Index(n)
    <3>1. 2 \in Nat
      OBVIOUS
    <3> QED
      BY <3>1, WordsAre
  <2> QED
    BY <2>1, <2>2
<1> HIDE DEF Vocabulary
<1>3. ASSUME NEW x \in Vocabulary, \A n \in Nat : x # Index(n)
      PROVE  <<x>> \in Seq(Vocabulary) /\ ~Numbered(<<x>>)
  BY <1>3 DEF Numbered
<1>4. ASSUME NEW x \in Vocabulary, NEW y \in Vocabulary, \A n \in Nat : y # Index(n)
      PROVE  <<x, y>> \in Seq(Vocabulary) /\ ~Numbered(<<x, y>>)
  BY <1>4 DEF Numbered
<1>5. ASSUME NEW p \in Seq(Vocabulary), ~Numbered(p) PROVE <<p>> \in Plain
  BY <1>5 DEF Plain, Phrases
<1>6. ASSUME NEW p \in Seq(Vocabulary), ~Numbered(p), NEW q \in Seq(Vocabulary), ~Numbered(q)
      PROVE <<p, q>> \in Plain
  BY <1>6 DEF Plain, Phrases
<1>7. <<<<WordA>>>> \in Plain
  BY <1>1, <1>2, <1>3, <1>5
<1>8. <<<<WordA, Suffix(2)>>>> \in Plain
  BY <1>1, <1>2, <1>4, <1>5
<1>9. <<<<WordB>>, <<WordA>>>> \in Plain
  BY <1>1, <1>2, <1>3, <1>6
<1> QED
  BY <1>7, <1>8, <1>9 DEF Titles

(* The titles, sources and groups the run tries are within the theorem's.  *)
LEMMA EveryTriedGroupIsReal ==
    ASSUME TryCitations
    PROVE  CitationsTellTheSources(input'.titles, input'.sources, input'.members)
<1> PICK n \in 1 .. 3 :
           \E titles \in [1 .. n -> Titles], sources \in SUBSET ((1 .. n) \X {5, 7}) :
             \E members \in UpTo(Markers(titles, sources) \cup Written, 2) :
               input' = [of |-> "citations", titles |-> titles, sources |-> sources,
                         members |-> members]
  BY DEF TryCitations
<1> PICK titles \in [1 .. n -> Titles], sources \in SUBSET ((1 .. n) \X {5, 7}) :
           \E members \in UpTo(Markers(titles, sources) \cup Written, 2) :
             input' = [of |-> "citations", titles |-> titles, sources |-> sources,
                       members |-> members]
  OBVIOUS
<1> DEFINE these == Markers(titles, sources) \cup Written
<1> PICK members \in UpTo(these, 2) :
             input' = [of |-> "citations", titles |-> titles, sources |-> sources,
                       members |-> members]
  OBVIOUS
<1>1. input'.titles = titles /\ input'.sources = sources /\ input'.members = members
  OBVIOUS
<1>2. titles \in Seq(Plain) /\ Len(titles) = n
  BY TitlesArePlain
<1>3. Sources(titles, sources)
  <2>1. IsFiniteSet(1 .. n)
    <3>1. 1 \in Int /\ n \in Int
      OBVIOUS
    <3> QED
      BY <3>1, FS_Interval
  <2>2. IsFiniteSet({5}) /\ IsFiniteSet({7}) /\ {5, 7} = {5} \cup {7}
    BY FS_Singleton
  <2>3. IsFiniteSet({5, 7})
    <3>1. IsFiniteSet({5} \cup {7})
      BY <2>2, FS_Union
    <3> QED
      BY <2>2, <3>1
  <2>4. IsFiniteSet((1 .. n) \X {5, 7})
    BY <2>1, <2>3, FS_Product
  <2>5. IsFiniteSet(sources)
    BY <2>4, FS_Subset
  <2>6. sources \in SUBSET ((1 .. n) \X Nat)
    OBVIOUS
  <2> QED
    BY <1>2, <2>5, <2>6 DEF Sources
<1>4. Markers(titles, sources) \in SUBSET Members
  BY <1>2, <1>3, MarkersAre
<1>5. Written \in SUBSET Members
  <2> SUFFICES ASSUME NEW title \in Titles, NEW c \in {5, 7} PROVE Marker(title, c) \in Members
    BY DEF Written
  <2>1. title \in Plain /\ c \in Nat
    BY TitlesArePlain
  <2> QED
    BY <2>1, MarkerIsAMember
<1>6. these \in SUBSET Members
  <2> HIDE DEF Members
  <2> QED BY <1>4, <1>5
<1> HIDE DEF these
<1>7. members \in Seq(Members)
  <2>1. PICK k \in 1 .. 2 : members \in [1 .. k -> these]
    BY DEF UpTo
  <2>2. members \in Seq(these)
    BY <2>1
  <2> HIDE DEF Members
  <2> QED
    BY <1>6, <2>2
<1> QED
  BY <1>1, <1>2, <1>3, <1>7, EveryCitationIsASource

(* What the run shows of the groups it tries follows from the theorem on   *)
(* all groups.                                                             *)
THEOREM InputsCitationsAreReal == Spec => []CitationsAreReal
<1>1. Init => CitationsAreReal
  BY DEF Init, CitationsAreReal
<1>2. CitationsAreReal /\ [input.of = "nothing" /\ Try]_input => CitationsAreReal'
  <2> SUFFICES ASSUME CitationsAreReal, [input.of = "nothing" /\ Try]_input PROVE CitationsAreReal'
    OBVIOUS
  <2>1. CASE TryCitations
    BY <2>1, EveryTriedGroupIsReal DEF CitationsAreReal
  <2>2. CASE TryDate \/ TryFusion \/ TrySlices \/ TryChunk \/ TryVectors \/ TryScores
    <3>1. input'.of # "citations"
      <4>1. CASE TryDate
        BY <4>1 DEF TryDate
      <4>2. CASE TryFusion
        BY <4>2 DEF TryFusion
      <4>3. CASE TrySlices
        BY <4>3 DEF TrySlices
      <4>4. CASE TryChunk
        BY <4>4 DEF TryChunk
      <4>5. CASE TryVectors
        BY <4>5 DEF TryVectors
      <4>6. CASE TryScores
        BY <4>6 DEF TryScores
      <4> QED
        BY <2>2, <4>1, <4>2, <4>3, <4>4, <4>5, <4>6
    <3> QED
      BY <3>1 DEF CitationsAreReal
  <2>3. CASE UNCHANGED input
    BY <2>3 DEF CitationsAreReal
  <2> QED
    BY <2>1, <2>2, <2>3 DEF Try
<1> QED
  BY <1>1, <1>2, PTL DEF Spec
===============================================================================
