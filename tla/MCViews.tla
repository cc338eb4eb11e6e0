-------------------------------- MODULE MCViews --------------------------------
(* Two views of the browser in one run: the calendar, or the reader.       *)
EXTENDS Calendar, Reader, TLC

CONSTANTS e0, e1, c0, c1, c2, r1, r2

VARIABLE trial

Symmetric == Permutations({c0, c1, c2}) \cup Permutations({r1, r2})

(* Bounds: e1 is an identifier for creations only, and the other device    *)
(* leaves it alone; the tab starts at the first page, which two pages of   *)
(* a day each make no difference to.                                       *)
NoEvents == [e \in Event |-> Absent]
MCInit ==
    /\ Init /\ ReaderInit /\ page = 1
    /\ \/ trial = "calendar" /\ events[e1] = Absent /\ length = None /\ opening.target = None
       \/ trial = "reader" /\ events = NoEvents

MCNext ==
    /\ \/ trial = "calendar" /\ Next /\ e1 \notin foreign' /\ UNCHANGED readerVars
       \/ trial = "reader" /\ ReaderNext /\ UNCHANGED vars
    /\ UNCHANGED trial

MCSpec == MCInit /\ [][MCNext]_<<vars, readerVars, trial>>
=============================================================================
