------------------------------- MODULE Inference -------------------------------
(***************************************************************************)
(* The client of the remote models (worker/inference.py): embeddings in    *)
(* batches, with a ladder of truncations for a provider that counts more   *)
(* tokens than the client does, and the scores of the reranker with their  *)
(* retries.                                                                *)
(*                                                                         *)
(* A text is the sequence of its tokens, and stands for its own vector.    *)
(* The provider is external: the batches it cannot be reached for after    *)
(* the SDK's own retries, the tokens it counts beyond the client's, the    *)
(* order of its rows, and whether it leaves one out.  The windows of the   *)
(* other models are far wider than what they are given.                    *)
(***************************************************************************)
EXTENDS Naturals, Sequences, FiniteSets

CONSTANTS
    BatchItems,     \* _MAX_BATCH_ITEMS
    TokenWindow,    \* the context of bge-large, as the provider counts it
    TokenLimits,    \* _RETRY_TOKEN_LIMITS, falling
    MaxRetries      \* _MAX_RETRIES

ASSUME BatchAssumption == BatchItems \in Nat \ {0} /\ MaxRetries \in Nat /\ TokenWindow \in Nat
ASSUME LadderAssumption ==
    /\ TokenLimits \in Seq(Nat \ {0}) /\ TokenLimits # <<>>
    /\ \A i, j \in 1 .. Len(TokenLimits) : i <= j => TokenLimits[j] <= TokenLimits[i]

Failed == [ok |-> FALSE, rows |-> <<>>]
Given(rows) == [ok |-> TRUE, rows |-> rows]

(* _truncate_to_tokens; the limit 0 of the other models is none.           *)
Truncated(text, limit) ==
    IF limit = 0 \/ Len(text) <= limit THEN text ELSE SubSeq(text, 1, limit)

TooLong(inputs, provider) ==
    \E i \in 1 .. Len(inputs) : Len(inputs[i]) + provider.extra > TokenWindow

(* The rows of an accepted call, each with the index of its input.         *)
Response(inputs, provider) ==
    LET n == Len(inputs)
        row == [i \in 1 .. n |-> [index |-> i, vector |-> inputs[i]]]
    IN SubSeq([i \in 1 .. n |-> IF provider.reversed THEN row[n + 1 - i] ELSE row[i]],
              1, IF provider.short THEN n - 1 ELSE n)

(* _embed_one_batch: only a rejection for length is tried again, truncated *)
(* harder, down to the last rung; the rows are sorted by their index.      *)
Prepared(batch, limit) == [k \in DOMAIN batch |-> Truncated(batch[k], limit)]
SortedRows(data) ==
    [k \in DOMAIN data |-> (CHOOSE d \in {data[j] : j \in DOMAIN data} : d.index = k).vector]
EmbedOneBatch(batch, limits, provider, down) ==
    LET taken == {i \in 1 .. Len(limits) :
                    limits[i] = 0 \/ ~TooLong(Prepared(batch, limits[i]), provider)}
        rung == CHOOSE i \in taken : \A k \in taken : i <= k
        data == Response(Prepared(batch, limits[rung]), provider)
    IN IF down \/ taken = {} THEN Failed
       ELSE IF Len(data) # Len(batch) THEN Failed ELSE Given(SortedRows(data))

(* embed_texts: batch after batch; the first that fails ends it.           *)
Least(a, b) == IF a < b THEN a ELSE b
Batch(texts, b) == SubSeq(texts, (b - 1) * BatchItems + 1, Least(b * BatchItems, Len(texts)))
EmbedTexts(texts, limits, provider) ==
    LET batches == (Len(texts) + BatchItems - 1) \div BatchItems
        Upto[b \in 0 .. batches] ==
          IF b = 0 THEN Given(<<>>)
          ELSE LET next == EmbedOneBatch(Batch(texts, b), limits, provider, b \in provider.down)
               IN IF Upto[b - 1].ok /\ next.ok THEN Given(Upto[b - 1].rows \o next.rows) ELSE Failed
    IN Upto[batches]

(* _parse_rerank_scores: as many scores as documents, each a number.       *)
ParsedScores(answer, expected) ==
    IF answer.numbers /\ Len(answer.scores) = expected THEN Given(answer.scores) ELSE Failed

(* rerank_scores: an attempt ends in a transport error or a 5xx, a 4xx, or *)
(* in an answer, which is taken or refused for good.                       *)
RerankScores(documents, attempts) ==
    LET Try[i \in 1 .. MaxRetries + 2] ==
          IF i > MaxRetries + 1 THEN Failed
          ELSE CASE attempts[i].status = "unavailable" -> Try[i + 1]
                 [] attempts[i].status = "refused"     -> Failed
                 [] attempts[i].status = "answered"    ->
                      ParsedScores(attempts[i], documents)
    IN IF documents = 0 THEN Given(<<>>) ELSE Try[1]

-----------------------------------------------------------------------------
(* One vector per text and in the order of the texts, whatever the batches *)
(* and the order of the provider's rows: each is the vector of the text or *)
(* of its beginning, never cut below the last rung; and a provider that    *)
(* answers in full and counts no more than the ladder allows for is never  *)
(* given up on.                                                            *)
VectorsAreTheTexts(texts, limits, provider) ==
    LET result == EmbedTexts(texts, limits, provider)
        last == limits[Len(limits)]
    IN /\ result.ok =>
            /\ Len(result.rows) = Len(texts)
            /\ \A i \in DOMAIN texts :
                 LET kept == Len(result.rows[i])
                 IN /\ kept <= Len(texts[i]) /\ result.rows[i] = SubSeq(texts[i], 1, kept)
                    /\ kept < Len(texts[i]) => last # 0 /\ kept >= last
       /\ (/\ provider.down = {} /\ ~provider.short
           /\ last = 0 \/ last + provider.extra <= TokenWindow) => result.ok

(* Scores are given for the documents asked about, in one piece, by the    *)
(* first attempt that got an answer within the budget; an attempt that was *)
(* refused is the last.                                                    *)
ScoresAreForTheDocuments(documents, attempts) ==
    LET result == RerankScores(documents, attempts)
        reached == {i \in 1 .. MaxRetries + 1 :
                      \A j \in 1 .. i - 1 : attempts[j].status = "unavailable"}
        Sound(i) == /\ attempts[i].status = "answered" /\ attempts[i].numbers
                    /\ Len(attempts[i].scores) = documents
    IN /\ result.ok => Len(result.rows) = documents
       /\ documents # 0 =>
            (result.ok <=> \E i \in reached : Sound(i) /\ result.rows = attempts[i].scores)
=============================================================================
