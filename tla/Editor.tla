-------------------------------- MODULE Editor --------------------------------
(***************************************************************************)
(* One tab of the sermon editor (web/components/SermonEditor.tsx and the   *)
(* decisions of web/lib/sermon-autosave.ts) over the routes of Documents,  *)
(* which other devices of the same user call as they like.                 *)
(*                                                                         *)
(* JavaScript runs to completion: an event handler, or the continuation of *)
(* a fetch with its trailing save, is one action.  Between the call and    *)
(* its continuation anything may happen, and the answer may be lost after  *)
(* the server acted on the call.  The debounce and the 15 s ceiling are    *)
(* armed, fired and cleared together and are one timer.                    *)
(*                                                                         *)
(* The dirty check compares JSON texts.  A jsonb column returns the keys   *)
(* of a text node in another order than the editor's getJSON, so content   *)
(* taken from an answer never equals the buffer's, be it unchanged; only   *)
(* the empty document reads the same in both.                              *)
(*                                                                         *)
(* TipTap's setContent and setEditable emit an update event each, which    *)
(* counts as an edit: loading, adopting an answer and unlocking arm the    *)
(* timer of a loop that is not stopped.                                    *)
(*                                                                         *)
(* The link to Google Docs is the tab's lock here: onLink and Unlock are   *)
(* answers of routes that Links models; what a pull writes to the row      *)
(* is to this tab what another device's save is.                           *)
(***************************************************************************)
EXTENDS Documents, Naturals, FiniteSets

CONSTANTS
    Mine,           \* the requests this tab may make
    MaxActs         \* bound: calls that the user's acts may lead to

ASSUME MineAssumption == Mine \subseteq Request /\ MaxActs \in 0 .. Cardinality(Mine)

VARIABLES
    page,           \* "open", or "closed" once it was left
    buffer,         \* what the editor shows
    lastSaved, base,            \* the dirty baseline and the token it goes with
    reordered,      \* lastSaved is JSON as the database orders it
    inFlight, pending,          \* FlightState
    timer,          \* a save is scheduled
    conflicted, status,
    linked,         \* the lock: the document is edited in Google Docs
    waiting,        \* calls whose continuation has not run
    pulled,         \* those of them that pull from Google Docs
    lost,           \* history and bound: an answer has been lost
    slips,          \* history: unusual things that happened to a save
    acts            \* bound

tab == <<page, buffer, lastSaved, base, reordered, inFlight, pending, timer,
         conflicted, status, linked, waiting, pulled, lost, slips, acts>>
editorVars == <<vars, tab>>

EditorInit ==
    /\ Init
    /\ page = "open" /\ buffer = Blank /\ lastSaved = Blank /\ base = Creation
    /\ reordered = FALSE
    /\ inFlight = FALSE /\ pending = FALSE /\ timer = TRUE
    /\ conflicted = FALSE /\ status = "unsaved" /\ linked = FALSE
    /\ waiting = {} /\ pulled = {} /\ lost = FALSE /\ slips = {} /\ acts = 0

lock == <<linked, pulled>>
baseline == <<lastSaved, base, reordered>>
flight == <<inFlight, pending>>

(* An act of the user that may lead to so many calls.                      *)
Act(calls) == page = "open" /\ acts + calls <= MaxActs /\ acts' = acts + calls

(* A call of this tab; which of its unused names it takes is all the same. *)
Unused == {r \in Mine : req[r].at = "unsent"}
Spare == CHOOSE r \in Unused : TRUE
Send(kind, from, change) == Unused # {} /\ Receive(Spare, kind, from, change)

NoCall == UNCHANGED vars

(* A call is made while calls of another kind, others, are awaited.        *)
Crossing(others) ==
    slips' = IF others # {} THEN slips \cup {"crossed"} ELSE slips

(* Whether the editor's JSON of a stored text differs from the row's.      *)
Reorders(text) == text["content"] # Blank["content"]

-----------------------------------------------------------------------------
(* The save loop                                                           *)

isDirty == buffer # lastSaved \/ reordered

(* runSave, after its handler has set the baseline and conflicted: the     *)
(* dirty check, then the single-flight gate.  others are the calls that    *)
(* stay awaited, shown is the status if no call is made.                   *)
runSave(flying, others, shown) ==
    \/ /\ conflicted' \/ linked \/ ~isDirty'
       /\ inFlight' = flying /\ pending' = (flying /\ pending)
       /\ slips' = IF flying /\ ~conflicted' THEN slips \cup {"reverted"} ELSE slips
       /\ waiting' = others /\ status' = shown /\ NoCall
    \/ /\ ~conflicted' /\ ~linked /\ isDirty' /\ flying
       /\ inFlight' = TRUE /\ pending' = TRUE
       /\ waiting' = others /\ status' = shown /\ UNCHANGED slips /\ NoCall
    \/ /\ ~conflicted' /\ ~linked /\ isDirty' /\ ~flying
       /\ inFlight' = TRUE /\ pending' = FALSE
       /\ Send("patch", base', buffer)
       /\ waiting' = others \cup {Spare} /\ status' = "saving"
       /\ Crossing({x \in others : req[x].kind # "patch"})

(* scheduleAutosave: an edit arms the timer, unless the loop has stopped.  *)
Edit(text) ==
    /\ Act(1) /\ ~linked /\ text # buffer
    /\ buffer' = text
    /\ IF conflicted THEN UNCHANGED <<timer, status>>
       ELSE timer' = TRUE /\ status' = "unsaved"
    /\ NoCall
    /\ UNCHANGED <<page, baseline, flight, conflicted, lock, waiting, lost, slips>>

FireTimer ==
    /\ timer /\ timer' = FALSE
    /\ UNCHANGED <<page, buffer, baseline, conflicted, lock, lost, acts>>
    /\ runSave(inFlight, waiting, status)

(* Mutant: no trailing save.                                               *)
SettleAlone(r, shown) ==
    /\ inFlight' = FALSE /\ pending' = FALSE
    /\ waiting' = waiting \ {r} /\ status' = shown /\ UNCHANGED slips /\ NoCall

(* The finally of a save: the flight is over, whichever flight it was, and *)
(* edits coalesced meanwhile make one trailing save.                       *)
Settle(r, shown) ==
    \/ /\ pending /\ ~conflicted'
       /\ runSave(FALSE, waiting \ {r}, shown)
    \/ /\ ~(pending /\ ~conflicted')
       /\ inFlight' = FALSE /\ pending' = FALSE
       /\ waiting' = waiting \ {r} /\ status' = shown /\ UNCHANGED slips /\ NoCall

Awaits(r, kind) == r \in waiting /\ req[r].kind = kind
Answered(r, kind) == Awaits(r, kind) /\ req[r].at = "answered"

(* Mutant: the buffer as it is when the answer arrives counts as saved.    *)
SaveAcceptedLate(r) ==
    /\ Answered(r, "patch") /\ req[r].answer = "ok"
    /\ lastSaved' = buffer /\ reordered' = FALSE
    /\ base' = req[r].row.stamp
    /\ UNCHANGED <<page, buffer, timer, conflicted, lock, lost, acts>>
    /\ Settle(r, "saved")

(* Mutant: the token of the answer is not adopted.                         *)
SaveAcceptedStale(r) ==
    /\ Answered(r, "patch") /\ req[r].answer = "ok"
    /\ lastSaved' = req[r].change /\ reordered' = FALSE
    /\ UNCHANGED base
    /\ UNCHANGED <<page, buffer, timer, conflicted, lock, lost, acts>>
    /\ Settle(r, "saved")

SaveAccepted(r) ==
    /\ Answered(r, "patch") /\ req[r].answer = "ok"
    /\ lastSaved' = req[r].change /\ reordered' = FALSE
    /\ base' = req[r].row.stamp
    /\ UNCHANGED <<page, buffer, timer, conflicted, lock, lost, acts>>
    /\ Settle(r, "saved")

(* A 409 stops the loop and keeps the buffer.                              *)
SaveConflicts(r) ==
    /\ Answered(r, "patch") /\ req[r].answer = "conflict"
    /\ conflicted' = TRUE /\ timer' = FALSE
    /\ UNCHANGED <<page, buffer, baseline, lock, lost, acts>>
    /\ Settle(r, "conflict")

(* Mutant: an error is not shown.                                          *)
SaveFailsQuietly(r) ==
    /\ Answered(r, "patch") /\ req[r].answer \in {"not_found", "error"}
    /\ UNCHANGED <<page, buffer, baseline, timer, conflicted, lock, lost, acts>>
    /\ Settle(r, "unsaved")

SaveFails(r) ==
    /\ Answered(r, "patch") /\ req[r].answer \in {"not_found", "error"}
    /\ UNCHANGED <<page, buffer, baseline, timer, conflicted, lock, lost, acts>>
    /\ Settle(r, "error")

(* The network gives up on a save, before or after the server acted on it. *)
SaveIsLost(r) ==
    /\ Awaits(r, "patch") /\ ~lost
    /\ lost' = TRUE
    /\ UNCHANGED <<page, buffer, baseline, timer, conflicted, lock, acts>>
    /\ Settle(r, "error")

-----------------------------------------------------------------------------
(* Reload and import                                                       *)

Fetch(kind, change) ==
    /\ Send(kind, Creation, change)
    /\ waiting' = waiting \cup {Spare} /\ Crossing(waiting)

onReloadLatest ==
    /\ Act(1) /\ status = "conflict"
    /\ Fetch("get", NoText) /\ status' = "saving"
    /\ UNCHANGED <<page, buffer, baseline, flight, timer, conflicted, lock, lost>>

onImportFile(v) ==
    /\ Act(2) /\ ~linked /\ \A r \in waiting : req[r].kind # "import"
    /\ Fetch("import", [f \in {"content"} |-> v])
    /\ UNCHANGED <<page, buffer, baseline, flight, timer, conflicted, status, lock, lost>>

(* An answer replaces buffer, baseline and token and resets the flight,    *)
(* whatever was typed or sent in the meantime.                             *)
Replace(r) ==
    /\ req[r].answer = "ok"
    /\ buffer' = req[r].row.text /\ lastSaved' = req[r].row.text
    /\ reordered' = Reorders(req[r].row.text) /\ base' = req[r].row.stamp
    /\ inFlight' = FALSE /\ pending' = FALSE
    /\ timer' = (timer \/ ~(conflicted \/ linked))
    /\ waiting' = waiting \ {r}
    /\ NoCall /\ UNCHANGED <<page, linked, lost, slips, acts>>

Adopt(r) ==
    /\ Answered(r, "get") \/ Answered(r, "import")
    /\ r \notin pulled /\ Replace(r)
    /\ conflicted' = FALSE /\ status' = "saved" /\ UNCHANGED pulled

NotAdopted(r) ==
    /\ \/ Answered(r, "get") /\ r \notin pulled /\ status' = "conflict"
       \/ (Answered(r, "import") \/ r \in pulled) /\ UNCHANGED status
    /\ req[r].at = "answered" /\ req[r].answer # "ok"
    /\ waiting' = waiting \ {r} /\ pulled' = pulled \ {r}
    /\ NoCall /\ UNCHANGED <<page, buffer, baseline, flight, timer, conflicted, linked,
                             lost, slips, acts>>

-----------------------------------------------------------------------------
(* The link to Google Docs                                                 *)

linkBusy == pulled # {}

(* The lock: timers are cleared and the indicator says Saved, whatever the *)
(* buffer holds and though the loop may be in conflict.                    *)
onLink ==
    /\ Act(0) /\ doc.live /\ ~linked /\ ~linkBusy
    /\ linked' = TRUE /\ timer' = FALSE /\ status' = "saved"
    /\ slips' = IF conflicted THEN slips \cup {"locked"} ELSE slips
    /\ NoCall
    /\ UNCHANGED <<page, buffer, baseline, flight, conflicted, waiting, pulled, lost>>

(* The editor is editable again, which arms the timer unless the loop has  *)
(* stopped.                                                                *)
Unlock ==
    /\ doc.live /\ linked /\ ~linkBusy
    /\ linked' = FALSE /\ timer' = ~conflicted
    /\ status' = IF conflicted THEN status ELSE "unsaved"
    /\ UNCHANGED <<page, buffer, baseline, flight, conflicted, lost>>

onUnlinkKeepApp ==
    /\ Act(IF conflicted THEN 0 ELSE 1) /\ Unlock
    /\ NoCall /\ UNCHANGED <<waiting, pulled, slips>>

(* The routes wrote the row; the document is fetched after the unlink.     *)
onUnlinkPullFinal ==
    /\ Act(IF conflicted /\ waiting = {} THEN 2 ELSE 3) /\ Unlock
    /\ Fetch("get", NoText) /\ pulled' = {Spare}

onPull ==
    /\ Act(1) /\ linked /\ ~linkBusy
    /\ Fetch("get", NoText) /\ pulled' = {Spare}
    /\ UNCHANGED <<page, buffer, baseline, flight, timer, conflicted, status, linked, lost>>

(* adoptPulledDoc leaves a conflict as it is.                              *)
adoptPulledDoc(r) ==
    /\ Answered(r, "get") /\ r \in pulled /\ Replace(r)
    /\ pulled' = pulled \ {r}
    /\ status' = IF conflicted \/ linked THEN status ELSE "unsaved"
    /\ UNCHANGED conflicted

-----------------------------------------------------------------------------
(* Leaving and coming back                                                 *)

(* Mutant: a tab in conflict is flushed, too.                              *)
LeaveFlushing ==
    /\ Act(1) /\ page' = "closed"
    /\ timer' = FALSE /\ waiting' = {} /\ inFlight' = FALSE /\ pending' = FALSE
    /\ slips' = IF waiting # {} \/ isDirty THEN slips \cup {"left"} ELSE slips
    /\ \/ NoCall
       \/ /\ ~linked /\ isDirty
          /\ Send("patch", base, buffer)
    /\ pulled' = {} /\ UNCHANGED <<buffer, baseline, conflicted, status, linked, lost>>

(* pagehide or unmount: a dirty buffer is flushed with a keepalive PATCH   *)
(* nobody awaits, unless its body is over the limit.                       *)
Leave ==
    /\ Act(1) /\ page' = "closed"
    /\ timer' = FALSE /\ waiting' = {} /\ inFlight' = FALSE /\ pending' = FALSE
    /\ slips' = IF waiting # {} \/ isDirty THEN slips \cup {"left"} ELSE slips
    /\ \/ NoCall
       \/ /\ ~conflicted /\ ~linked /\ isDirty
          /\ Send("patch", base, buffer)
    /\ pulled' = {} /\ UNCHANGED <<buffer, baseline, conflicted, status, linked, lost>>

(* The page is loaded again, from the row as it then is; if the link's     *)
(* status cannot be fetched, it opens unlocked.                            *)
Return ==
    /\ page = "closed" /\ doc.live /\ page' = "open"
    /\ linked' \in {linked, FALSE}
    /\ acts' = IF linked' THEN acts ELSE acts + 1
    /\ acts' <= MaxActs
    /\ buffer' = doc.text /\ lastSaved' = doc.text
    /\ reordered' = Reorders(doc.text) /\ base' = doc.stamp
    /\ conflicted' = FALSE
    /\ timer' = ~linked' /\ status' = IF linked' THEN "saved" ELSE "unsaved"
    /\ NoCall /\ UNCHANGED <<flight, pulled, waiting, lost, slips>>

-----------------------------------------------------------------------------
Continue(r) == SaveAccepted(r) \/ SaveConflicts(r) \/ SaveFails(r) \/ Adopt(r)
               \/ NotAdopted(r) \/ adoptPulledDoc(r)

TabStep ==
    \/ \E text \in Text : Edit(text)
    \/ FireTimer \/ onReloadLatest \/ Leave \/ Return
    \/ onLink \/ onPull \/ onUnlinkKeepApp \/ onUnlinkPullFinal
    \/ \E v \in Value : onImportFile(v)
    \/ \E r \in Mine : Continue(r) \/ SaveIsLost(r)

(* Another device calls; calls of theirs that change nothing are left out, *)
(* and an import is to this tab what a save is.                            *)
Elsewhere(r) ==
    \/ \E change \in Change : Receive(r, "patch", doc.stamp, change)
    \/ \E kind \in {"delete", "restore"} : Receive(r, kind, Creation, NoText)

ServerStep ==
    /\ \/ \E r \in Request : Serve(r)
       \/ \E r \in Mine : Fail(r)
       \/ \E r \in Request \ Mine : Elsewhere(r)
    /\ UNCHANGED tab

(* Timers fire, the server answers, and an answer reaches the tab.         *)
EditorFairness ==
    /\ WF_editorVars(FireTimer)
    /\ \A r \in Mine : /\ WF_editorVars(Serve(r) /\ UNCHANGED tab)
                       /\ WF_editorVars(Continue(r))

EditorSpec == EditorInit /\ [][TabStep \/ ServerStep]_editorVars
FairEditorSpec == EditorSpec /\ EditorFairness

-----------------------------------------------------------------------------
(* Properties                                                              *)

Statuses == {"saved", "saving", "unsaved", "error", "conflict"}

EditorTypeOK ==
    /\ TypeOK
    /\ page \in {"open", "closed"} /\ {buffer, lastSaved} \subseteq Text
    /\ base \in Known
    /\ {reordered, inFlight, pending, timer, conflicted, linked, lost} \subseteq BOOLEAN
    /\ status \in Statuses /\ waiting \subseteq Mine /\ pulled \subseteq waiting
    /\ slips \subseteq {"reverted", "crossed", "left", "locked"}

(* The token and the dirty baseline always describe one stored version, so *)
(* that a save replaces exactly what the tab has taken for saved.          *)
BaselineIsAVersion == stored[base] = lastSaved

(* "status=conflict, STOP the autosave loop": between a 409 and the user's *)
(* choice the tab saves nothing.                                           *)
ConflictStopsSaving ==
    [][(conflicted /\ conflicted') =>
         \A r \in Mine : req[r].at = "unsent" => req'[r].at = "unsent"
                                                 \/ req'[r].kind # "patch"]_editorVars

(* "never a false self-conflict": a tab's save collides with its own save  *)
(* only after an answer was lost, calls crossed, or the page was left.     *)
SelfConflictNeedsASlip ==
    \A r, own \in Mine :
        (req[r].kind = "patch" /\ req[r].answer = "conflict"
            /\ req[r].row.stamp = own /\ req[own].kind = "patch")
        => lost \/ slips \cap {"crossed", "left"} # {}

(* When the indicator of an unlocked tab says Saved and nothing is         *)
(* scheduled, the buffer is what the server accepted, but for an edit      *)
(* taken back during a save and a lock that covered a conflict.            *)
SavedIsSaved ==
    (/\ page = "open" /\ ~linked /\ status = "saved" /\ ~timer /\ ~inFlight
     /\ buffer # lastSaved)
        => slips \cap {"reverted", "crossed", "locked"} # {}

(* "Edits during a flight are coalesced into a single trailing save".  It  *)
(* does not hold of an edit that is taken back (README, section 10).       *)
EveryEditIsCoalesced ==
    (page = "open" /\ ~linked /\ status = "saved" /\ ~timer /\ ~inFlight
        /\ "locked" \notin slips)
    => buffer = lastSaved

(* "When the link is cleared (unlink / keep-app) editability + autosave    *)
(* resume", or the banner of a conflict says why not.  It does not hold if *)
(* the tab was in conflict when it was linked (README, section 10).        *)
UnlinkResumesAutosave ==
    [][(linked /\ ~linked') => ~conflicted' \/ status' = "conflict"]_editorVars

(* What was typed ends up saved, or the user is told, or the document is   *)
(* edited elsewhere by then.                                               *)
SavedOrTold ==
    (page = "open" /\ buffer # lastSaved) ~>
        \/ buffer = lastSaved \/ page = "closed" \/ status \in {"error", "conflict"}
        \/ linked \/ slips \cap {"reverted", "crossed", "locked"} # {}
=============================================================================
