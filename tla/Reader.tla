-------------------------------- MODULE Reader --------------------------------
(***************************************************************************)
(* The reader of a book: one tab of web/components/reader/Reader.tsx with  *)
(* the helpers of web/lib/reader-view.ts, over api/reader.py.  The tab     *)
(* loads the chunks around a target, fetches more at either edge of its    *)
(* window, and saves the chunk at the top of the screen.  A citation link  *)
(* opens another target in the same tab while calls are under way.         *)
(*                                                                         *)
(* The chunks of a book never change, so a fetch is served and answered in *)
(* one step; positions do, so theirs are two.  The offset within a chunk   *)
(* and the pixels of scrolling are left out.                               *)
(***************************************************************************)
EXTENDS Integers, Sequences

CONSTANTS
    MaxLength,      \* bound: chunks of the book
    WINDOW_LIMIT,
    ANCHOR_CONTEXT,
    Ask,            \* bound: calls of the tab under way at once
    None

ASSUME WindowAssumption ==
    /\ MaxLength \in Nat
    /\ WINDOW_LIMIT \in Nat /\ ANCHOR_CONTEXT \in Nat /\ ANCHOR_CONTEXT < WINDOW_LIMIT
ASSUME NoneAssumption == None \notin Int

VARIABLES
    length,         \* chunks of the book, None if the user does not own it
    saved,          \* reading_positions: the row of the user and the book
    opening,        \* the initial load: where it stands and its target
    chunks,         \* the window that is loaded
    atEnd,
    at,             \* the chunk at the top of the screen
    settling,       \* a scroll waits for its silence
    fetchingEdge,   \* the single-flight gate of edge fetches
    lastSent,       \* the position the tab takes for saved
    asks,           \* its edge fetches, its PUTs, its reads of the position
    crossing,       \* history: a PUT and another call on the position overlapped
    unsure          \* history: another device wrote, or an answer was lost

readerVars == <<length, saved, opening, chunks, atEnd, at, settling, fetchingEdge,
                lastSent, asks, crossing, unsure>>
serverVars == <<length, saved>>
placeVars == <<at, settling, lastSent>>

Silent == [kind |-> "none", from |-> 0, limit |-> 0, stale |-> FALSE, served |-> FALSE]
Quiet == {a \in Ask : asks[a] = Silent}
Puts == {a \in Ask : asks[a].kind = "put"}
Reads == {a \in Ask : asks[a].kind = "read"}

(* _chunk_window_stmt: from a lower bound, in order.                       *)
ChunkWindow(from, limit) ==
    [i \in 1 .. (IF from >= length THEN 0
                 ELSE IF length - from < limit THEN length - from ELSE limit) |-> from + i - 1]

Least(a, b) == IF a < b THEN a ELSE b
First == chunks[1]
Last == chunks[Len(chunks)]
reachedEnd(data, limit) == Len(data) < limit
Holds(data, c) == \E i \in 1 .. Len(data) : data[i] = c

initialWindowPlan(c) == IF c = None \/ c < ANCHOR_CONTEXT THEN 0 ELSE c - ANCHOR_CONTEXT
prependPlan == [from |-> IF First < WINDOW_LIMIT THEN 0 ELSE First - WINDOW_LIMIT,
                limit |-> Least(First, WINDOW_LIMIT)]
appendPlan == [from |-> Last + 1, limit |-> WINDOW_LIMIT]

(* Mutant: what was fetched is taken as it is.                             *)
mergeWindowWhole(incoming, direction) ==
    IF direction = "prepend" THEN incoming \o chunks ELSE chunks \o incoming

(* The filters, of chunks that come in order: those before c come first.   *)
Before(data, c) ==
    CHOOSE k \in 0 .. Len(data) : \A i \in 1 .. Len(data) : data[i] < c <=> i <= k

mergeWindow(incoming, direction) ==
    IF direction = "prepend" THEN SubSeq(incoming, 1, Before(incoming, First)) \o chunks
    ELSE chunks \o SubSeq(incoming, Before(incoming, Last + 1) + 1, Len(incoming))

ReaderInit ==
    /\ length \in 0 .. MaxLength \cup {None}
    /\ saved \in 0 .. MaxLength \cup {None} /\ (length = None => saved = None)
    /\ \E c \in 0 .. MaxLength + 1 \cup {None} :
         opening = [stage |-> IF c = None THEN "position" ELSE "window", target |-> c]
    /\ chunks = <<>> /\ atEnd = FALSE /\ at = None /\ settling = FALSE
    /\ fetchingEdge = FALSE /\ lastSent = None
    /\ asks = [a \in Ask |-> Silent]
    /\ crossing = FALSE /\ unsure = FALSE

-----------------------------------------------------------------------------
(* The position                                                            *)

(* Mutant: a position counts as saved once it is sent.                     *)
persistAtOnce(a) ==
    IF lastSent = at THEN UNCHANGED <<asks, crossing, lastSent>>
    ELSE /\ a \in Quiet
         /\ asks' = [asks EXCEPT ![a] = [Silent EXCEPT !.kind = "put", !.from = at]]
         /\ crossing' = (crossing \/ Puts \cup Reads # {})
         /\ lastSent' = at

(* persist: a PUT, unless the position is the one that was sent last.      *)
persist(a) ==
    IF lastSent = at THEN UNCHANGED <<asks, crossing, lastSent>>
    ELSE /\ a \in Quiet
         /\ asks' = [asks EXCEPT ![a] = [Silent EXCEPT !.kind = "put", !.from = at]]
         /\ crossing' = (crossing \/ Puts \cup Reads # {})
         /\ UNCHANGED lastSent

Scroll(c) ==
    /\ opening.stage = "ready" /\ Holds(chunks, c) /\ c # at
    /\ at' = c /\ settling' = TRUE
    /\ UNCHANGED <<serverVars, opening, chunks, atEnd, fetchingEdge, lastSent, asks, crossing, unsure>>

(* The timer after a scroll; flush at pagehide, which does not wait for it.*)
Settle(a) ==
    /\ settling
    /\ settling' = FALSE /\ persist(a)
    /\ UNCHANGED <<serverVars, opening, chunks, atEnd, at, fetchingEdge, unsure>>
Flush(a) ==
    /\ opening.stage = "ready"
    /\ settling' = FALSE /\ persist(a)
    /\ UNCHANGED <<serverVars, opening, chunks, atEnd, at, fetchingEdge, unsure>>

(* put_position: one row for the user and the book, replaced whole.        *)
ServePut(a) ==
    /\ a \in Puts /\ ~asks[a].served
    /\ saved' = asks[a].from
    /\ asks' = [asks EXCEPT ![a].served = TRUE]
    /\ UNCHANGED <<length, opening, chunks, atEnd, placeVars, fetchingEdge, crossing, unsure>>

(* The tab hears of it, whatever it shows by now.                          *)
AnswerPut(a) ==
    /\ a \in Puts /\ asks[a].served
    /\ lastSent' = asks[a].from
    /\ asks' = [asks EXCEPT ![a] = Silent]
    /\ UNCHANGED <<serverVars, opening, chunks, atEnd, at, settling, fetchingEdge, crossing, unsure>>

(* It fails, or its answer is lost: the next settle or flush retries.      *)
LosePut(a) ==
    /\ a \in Puts
    /\ unsure' = (unsure \/ asks[a].served)
    /\ asks' = [asks EXCEPT ![a] = Silent]
    /\ UNCHANGED <<serverVars, opening, chunks, atEnd, placeVars, fetchingEdge, crossing>>

(* Another device of the user reads the book.                              *)
PutElsewhere(c) ==
    /\ ~unsure /\ length # None /\ c < length /\ c # saved
    /\ saved' = c /\ unsure' = TRUE
    /\ UNCHANGED <<length, opening, chunks, atEnd, placeVars, fetchingEdge, asks, crossing>>

-----------------------------------------------------------------------------
(* The initial load                                                        *)

Stage(stage, target) == opening' = [stage |-> stage, target |-> target]

(* get_position; its answer, a head and a body, is still to come.  That    *)
(* there is no such book is final, any other failure is not.               *)
ReadPosition(a) ==
    /\ opening.stage = "position"
    /\ \/ /\ length = None
          /\ Stage("notFound", None)
          /\ UNCHANGED <<asks, crossing>>
       \/ /\ length # None
          /\ Stage("window", None)
          /\ UNCHANGED <<asks, crossing>>
       \/ /\ length # None /\ a \in Quiet
          /\ asks' = [asks EXCEPT ![a] = [Silent EXCEPT !.kind = "read", !.from = saved]]
          /\ crossing' = (crossing \/ Puts # {})
          /\ Stage("restored", None)
    /\ UNCHANGED <<serverVars, chunks, atEnd, placeVars, fetchingEdge, unsure>>

(* The answer, or its failure.  The tab asks itself whether it still shows *)
(* the target this was read for after the head and after the body, and the *)
(* position counts as saved in between.                                    *)
Restore(a) ==
    /\ a \in Reads
    /\ \E position \in {asks[a].from, None} :
         /\ lastSent' = IF position = None THEN lastSent ELSE position
         /\ IF asks[a].stale THEN UNCHANGED opening ELSE Stage("window", position)
    /\ asks' = [asks EXCEPT ![a] = Silent]
    /\ UNCHANGED <<serverVars, chunks, atEnd, at, settling, fetchingEdge, crossing, unsure>>

(* The first window, from the start of the book if the target is past its  *)
(* end; the screen goes to the target.                                     *)
OpenWindow ==
    LET asked == ChunkWindow(initialWindowPlan(opening.target), WINDOW_LIMIT)
        past == asked = <<>>
        data == IF past THEN ChunkWindow(0, WINDOW_LIMIT) ELSE asked
    IN /\ opening.stage = "window"
       /\ \/ /\ length \notin {None, 0}
             /\ Stage("ready", None)
             /\ chunks' = data /\ atEnd' = reachedEnd(data, WINDOW_LIMIT)
             /\ at' = IF ~past /\ Holds(data, opening.target) THEN opening.target ELSE data[1]
          \/ /\ Stage(IF length = None THEN "notFound" ELSE IF length = 0 THEN "empty" ELSE "error", None)
             /\ UNCHANGED <<chunks, atEnd, at>>
       /\ UNCHANGED <<serverVars, settling, fetchingEdge, lastSent, asks, crossing, unsure>>

(* Another target: everything is reset, and calls under way belong to an   *)
(* epoch that is over, though PUTs and the body of a position still come   *)
(* through.  The teardown's flush comes when the chunks are no longer in   *)
(* the page, and so has no position to send.  With no call on the position *)
(* under way its history starts anew.                                      *)
Retarget(c) ==
    /\ Stage(IF c = None THEN "position" ELSE "window", c)
    /\ chunks' = <<>> /\ atEnd' = FALSE /\ at' = None /\ settling' = FALSE
    /\ fetchingEdge' = FALSE /\ lastSent' = None
    /\ asks' = [a \in Ask |-> IF a \in Quiet THEN Silent ELSE [asks[a] EXCEPT !.stale = TRUE]]
    /\ crossing' = (crossing /\ Puts \cup Reads # {})
    /\ unsure' = (unsure /\ Puts \cup Reads # {})
    /\ UNCHANGED serverVars

-----------------------------------------------------------------------------
(* The edges                                                               *)

(* loadEdge, when a sentinel comes into view.                              *)
loadEdge(a, direction) ==
    LET plan == IF direction = "prepend" THEN prependPlan ELSE appendPlan
    IN /\ opening.stage = "ready" /\ a \in Quiet /\ ~fetchingEdge
       /\ IF direction = "prepend" THEN First # 0 ELSE ~atEnd
       /\ asks' = [asks EXCEPT ![a] = [Silent EXCEPT !.kind = direction,
                                         !.from = plan.from, !.limit = plan.limit]]
       /\ fetchingEdge' = TRUE
       /\ UNCHANGED <<serverVars, opening, chunks, atEnd, placeVars, crossing, unsure>>

(* Its answer.  The gate is opened even for a fetch of an earlier epoch.   *)
AnswerEdge(a) ==
    LET ask == asks[a]
        data == ChunkWindow(ask.from, ask.limit)
    IN /\ ask.kind \in {"prepend", "append"}
       /\ \/ /\ ~ask.stale
             /\ chunks' = mergeWindow(data, ask.kind)
             /\ atEnd' = (atEnd \/ (ask.kind = "append" /\ reachedEnd(data, ask.limit)))
          \/ UNCHANGED <<chunks, atEnd>>      \* an error, or an earlier epoch's
       /\ fetchingEdge' = FALSE
       /\ asks' = [asks EXCEPT ![a] = Silent]
       /\ UNCHANGED <<serverVars, opening, placeVars, crossing, unsure>>

ReaderNext ==
    \/ \E a \in Ask :
         \/ ReadPosition(a) \/ Restore(a)
         \/ Settle(a) \/ Flush(a) \/ ServePut(a) \/ AnswerPut(a) \/ LosePut(a)
         \/ \E direction \in {"prepend", "append"} : loadEdge(a, direction)
         \/ AnswerEdge(a)
    \/ \E c \in 0 .. MaxLength : Scroll(c) \/ PutElsewhere(c)
    \/ \E c \in 0 .. MaxLength + 1 \cup {None} : Retarget(c)
    \/ OpenWindow

ReaderSpec == ReaderInit /\ [][ReaderNext]_readerVars

-----------------------------------------------------------------------------
(* The window is a gapless run of the book that holds what the screen      *)
(* shows, though fetches of earlier targets open the gate to a second      *)
(* fetch of an edge; and "at the end" is the end.                          *)
WindowIsARun ==
    opening.stage = "ready" =>
      /\ Holds(chunks, at) /\ First >= 0 /\ Last < length
      /\ \A i \in 1 .. Len(chunks) - 1 : chunks[i + 1] = chunks[i] + 1
      /\ atEnd => Last = length - 1

(* What the tab takes for saved, and so does not send again, is what the   *)
(* server has, unless a PUT is under way, or since the tab last turned to  *)
(* a target with no call on the position under way an answer was lost,     *)
(* another device wrote, or a PUT overlapped another PUT or the read of    *)
(* the position, which may still be that of a target left long before.     *)
SentIsSaved ==
    Puts = {} /\ ~crossing /\ ~unsure => lastSent \in {None, saved}
=============================================================================
