------------------------------- MODULE Chunking --------------------------------
(***************************************************************************)
(* The pass of worker/chunking.py that splits a chunk too large for Milvus *)
(* at sentences, and a sentence too large by itself at characters.         *)
(*                                                                         *)
(* A text is a sequence of characters, each the number of its bytes.  What *)
(* the tokenizer counts is external; it need not grow with the text, since *)
(* one more character may complete a word.                                 *)
(***************************************************************************)
EXTENDS Integers, Sequences

CONSTANTS
    HardBytes,      \* _HARD_MAX_CHUNK_BYTES: Milvus takes no more
    MaxBytes,       \* _MAX_CHUNK_BYTES: a chunk over this is split
    MaxTokens,      \* _MAX_CHUNK_TOKENS
    Word            \* the length of the text's words, one token each

(* "A single codepoint always fits both caps": UTF-8 takes four bytes.     *)
ASSUME CapAssumption == /\ MaxBytes \in Nat /\ HardBytes \in Nat /\ MaxTokens \in Nat
                        /\ MaxBytes <= HardBytes /\ HardBytes >= 4 /\ MaxTokens >= 1
                        /\ Word \in Nat \ {0}

Bytes(text) ==
    LET B[i \in 0 .. Len(text)] == IF i = 0 THEN 0 ELSE B[i - 1] + text[i]
    IN B[Len(text)]
Tokens(text) == (Len(text) \div Word) + (Len(text) % Word)

(* A window is the characters from start + 1 to end.                       *)
Window(text, w) == SubSeq(text, w[1] + 1, w[2])
Fits(text, w) == Bytes(Window(text, w)) <= HardBytes /\ Tokens(Window(text, w)) <= MaxTokens

(* The windows up to n that follow one another from a given start, each    *)
(* to the end that is given for its start.                                 *)
WindowsUpTo(n, end) ==
    LET From[i \in 0 .. n] == IF i = n THEN <<>> ELSE <<<<i, end[i]>>>> \o From[end[i]]
    IN From

(* _sentence_spans, from the starts Punkt found: to the next of them.      *)
SentenceEnd(text, starts, s) ==
    LET later == {e \in starts \cup {Len(text)} : e > s}
    IN CHOOSE e \in later : \A k \in later : e <= k
SentenceSpans(text, starts) ==
    WindowsUpTo(Len(text), [s \in 0 .. Len(text) - 1 |-> SentenceEnd(text, starts, s)])[0]

(* The end of a hard window from i, by binary search up to n.              *)
HardEnd(text, i, n) ==
    LET Search[r \in [lo : Int, hi : Int, best : Int]] ==
          LET mid == (r.lo + r.hi) \div 2
          IN IF r.lo > r.hi THEN r.best
             ELSE IF Fits(text, <<i, mid>>) THEN Search[[lo |-> mid + 1, hi |-> r.hi, best |-> mid]]
             ELSE Search[[r EXCEPT !.hi = mid - 1]]
    IN Search[[lo |-> i + 1, hi |-> n, best |-> i + 1]]

(* _hard_windows, for the window w of the text.                            *)
HardWindows(text, w) ==
    WindowsUpTo(w[2], [i \in 0 .. w[2] - 1 |-> HardEnd(text, i, w[2])])[w[1]]

Pieces(text, starts) ==
    LET spans == SentenceSpans(text, starts)
        P[i \in 0 .. Len(spans)] ==
          IF i = 0 THEN <<>>
          ELSE P[i - 1] \o IF Fits(text, spans[i]) THEN <<spans[i]>> ELSE HardWindows(text, spans[i])
    IN P[Len(spans)]

(* Mutant: the run is closed after the piece that filled it.               *)
AddPieceLate(text, runs, piece) ==
    LET last == runs[Len(runs)]
    IN IF runs # <<>> /\ Fits(text, last) THEN [runs EXCEPT ![Len(runs)] = <<last[1], piece[2]>>]
       ELSE Append(runs, piece)

(* The running window takes a piece in, as long as it fits.                *)
AddPiece(text, runs, piece) ==
    LET wider == <<runs[Len(runs)][1], piece[2]>>
    IN IF runs # <<>> /\ Fits(text, wider) THEN [runs EXCEPT ![Len(runs)] = wider]
       ELSE Append(runs, piece)

(* _split_chunk_text: whole pieces, as many as fit.                        *)
Pack(text, pieces) ==
    LET P[i \in 0 .. Len(pieces)] ==
          IF i = 0 THEN <<>> ELSE AddPiece(text, P[i - 1], pieces[i])
    IN P[Len(pieces)]

(* _cap_oversized_chunks, for one chunk.                                   *)
Capped(text, starts) ==
    IF Bytes(text) <= MaxBytes THEN <<<<0, Len(text)>>>> ELSE Pack(text, Pieces(text, starts))

-----------------------------------------------------------------------------
(* The windows of a chunk follow one another from its first character to   *)
(* its last, none is empty, and Milvus takes each; a chunk that was split  *)
(* is embedded whole.                                                      *)
ChunksTile(text, starts) ==
    LET windows == Capped(text, starts)
    IN text # <<>> =>
       /\ windows[1][1] = 0 /\ windows[Len(windows)][2] = Len(text)
       /\ \A i \in 1 .. Len(windows) - 1 : windows[i][2] = windows[i + 1][1]
       /\ \A i \in 1 .. Len(windows) :
            /\ windows[i][1] < windows[i][2]
            /\ Bytes(Window(text, windows[i])) <= HardBytes
            /\ Len(windows) > 1 => Fits(text, windows[i])
=============================================================================
