------------------------------- MODULE MCSearch -------------------------------
(* Three instances of Search in one run.  In the trial "shelf" two         *)
(* commands race on the collections; in "scope" one search is narrowed     *)
(* while a command changes them; in "rush" two searches of the whole       *)
(* library race each other and the user of the panel.                      *)
EXTENDS Search

CONSTANTS b1, b2, f1, c1, c2, s1, s2, none

VARIABLE trial

MCInit ==
    /\ SearchInit
    /\ \/ trial \in {"shelf", "scope"}
       \/ trial = "rush" /\ library = Book /\ folders = {}

Bound ==
    CASE trial = "shelf" -> started' = <<>>
      [] trial = "scope" -> cmd'[c2].place = "unsent" /\ req'[s2].at = "idle" /\ panel'.shown = none
      [] trial = "rush" -> collectionVars' = collectionVars
                           /\ \A q \in Search : req'[q].scope = NoScope

MCNext == SearchNext /\ Bound /\ UNCHANGED trial

MCSpec ==
    /\ MCInit /\ [][MCNext]_<<vars, trial>>
    /\ \A q \in Search : WF_<<vars, trial>>(Serve(q) /\ UNCHANGED trial)
=============================================================================
