----------------------------- MODULE MCAlgorithms ------------------------------
(* The algorithms on bounded inputs: each input is a state, the properties *)
(* are invariants.                                                         *)
EXTENDS Dates, Citations, Retrieval, Chunking, Inference

(* Three rungs, as there are in the code.                                  *)
Ladder == <<4, 3, 2>>

VARIABLE input

Init == input = [of |-> "nothing"]

(* Dates around the ends of months and years, steps of up to a year.       *)
InputYears == {100, 1900, 1999, 2000, 2023, 2024, 2100, 9998}
Deltas == {-59, -28, -7, -1, 0, 6, 7, 31, 366}
TryDate ==
    \E y \in InputYears, m \in 1 .. 12, d \in {1, 2, 28, 29, 30, 31}, delta \in Deltas :
       /\ d <= daysInMonth(y, m)
       /\ input' = [of |-> "date", date |-> Date(y, m, d), delta |-> delta]

(* Titles that are equal, that look like a numbered one, that hold commas; *)
(* up to three sources of them, whose chunks differ; groups of up to two   *)
(* members, also of books and of chunks that are no source.                *)
WordA == <<"A", 0>>
WordB == <<"B", 0>>
Titles == {<<<<WordA>>>>, <<<<WordA, Suffix(2)>>>>, <<<<WordB>>, <<WordA>>>>}
UpTo(S, n) == UNION {[1 .. k -> S] : k \in 1 .. n}
Written == {Marker(title, c) : title \in Titles, c \in {5, 7}}
TryCitations ==
    \E n \in 1 .. 3 : \E titles \in [1 .. n -> Titles], sources \in SUBSET ((1 .. n) \X {5, 7}) :
      \E members \in UpTo(Markers(titles, sources) \cup Written, 2) :
        input' = [of |-> "citations", titles |-> titles, sources |-> sources,
                  members |-> members]

Orders == UNION {{s \in [1 .. n -> 1 .. 3] : \A i, j \in 1 .. n : i # j => s[i] # s[j]} : n \in 0 .. 3}
TryFusion ==
    \E dense, sparse \in Orders, limit \in 1 .. 3, scores \in [1 .. 3 -> 0 .. 2] :
      input' = [of |-> "fusion", dense |-> dense, sparse |-> sparse, limit |-> limit,
                scores |-> scores]

TrySlices ==
    \E size \in 1 .. 3, limit \in 1 .. 3, score \in [1 .. 4 -> 1 .. 3], bookOf \in [1 .. 4 -> 1 .. 3] :
      input' = [of |-> "slices", size |-> size, limit |-> limit, score |-> score, bookOf |-> bookOf]

TryChunk ==
    \E n \in 0 .. 6 : \E text \in [1 .. n -> {1, 3}], starts \in SUBSET (1 .. n - 1) :
      input' = [of |-> "chunk", text |-> text, starts |-> starts]

(* Texts of up to six tokens, the models with the ladder and without.      *)
TryVectors ==
    \E n \in 0 .. 3 : \E length \in [1 .. n -> {0, 2, 4, 6}], limits \in {TokenLimits, <<0>>},
      extra \in 0 .. 4, reversed, short \in BOOLEAN, down \in SUBSET {2} :
        input' = [of |-> "vectors", texts |-> [i \in 1 .. n |-> [k \in 1 .. length[i] |-> i]],
                  limits |-> limits,
                  provider |-> [extra |-> IF limits = <<0>> THEN 0 ELSE extra, down |-> down,
                                reversed |-> reversed, short |-> short]]

(* An answer has too few scores, too many, or is no array of numbers.      *)
Attempts == {[status |-> s, scores |-> <<>>, numbers |-> FALSE] : s \in {"unavailable", "refused"}}
            \cup {[status |-> "answered", scores |-> [k \in 1 .. n |-> k], numbers |-> b] :
                      n \in 1 .. 3, b \in BOOLEAN}
TryScores ==
    \E attempts \in [1 .. MaxRetries + 2 -> Attempts], documents \in 0 .. 2 :
      input' = [of |-> "scores", attempts |-> attempts, documents |-> documents]

Try == TryDate \/ TryCitations \/ TryFusion \/ TrySlices \/ TryChunk \/ TryVectors \/ TryScores
Spec == Init /\ [][input.of = "nothing" /\ Try]_input

-----------------------------------------------------------------------------
(* The views' date arithmetic agrees with the day count.                   *)
DatesAreRight == input.of = "date" => DateIsRight(input.date, input.delta)

(* Markers are unique, and a group cites what its members are taken for.   *)
CitationsAreReal ==
    input.of = "citations" => CitationsTellTheSources(input.titles, input.sources, input.members)

(* Fusion, reranking and pruning neither lose nor invent nor misorder, the *)
(* slices of a large library's dense search lose no recall, and the scores *)
(* of the reranker are those of one whole answer.                          *)
RankingIsFair ==
    /\ input.of = "fusion" => FusionIsFair(input.dense, input.sparse, input.limit, input.scores)
    /\ input.of = "slices" =>
         SlicesLoseNothing(3, input.size, input.bookOf, input.score, input.limit)
    /\ input.of = "scores" => ScoresAreForTheDocuments(input.documents, input.attempts)

(* The windows of a chunk tile it and fit, and the vectors of a list of    *)
(* texts are theirs, in their order.                                       *)
ChunksAreWhole ==
    /\ input.of = "chunk" => ChunksTile(input.text, input.starts)
    /\ input.of = "vectors" => VectorsAreTheTexts(input.texts, input.limits, input.provider)
=============================================================================
