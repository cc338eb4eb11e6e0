------------------------------- MODULE Calendar -------------------------------
(***************************************************************************)
(* The preaching calendar: the sermon_events rows behind                   *)
(* api/calendar_routes.py and one tab of web/components/calendar, which    *)
(* fetches the events of a page (a year, a month or a week), moves an      *)
(* event before its PATCH is answered, and edits, creates and deletes      *)
(* through popovers.  Another device changes the same rows.                *)
(*                                                                         *)
(* A call is sent, served by the api and answered to the tab in three      *)
(* steps; calls overtake each other.  Title and series are left out.       *)
(***************************************************************************)
EXTENDS Naturals, FiniteSets

CONSTANTS
    Event,          \* identifiers of events
    Call,           \* bound: requests of the tab
    LastDay,        \* days are 1 .. LastDay
    PageDays,       \* days of a page
    Absent

ASSUME DaysAssumption == PageDays \in Nat \ {0} /\ LastDay \in Nat \ {0}

Day == 1 .. LastDay
Page == {d \in Day : (d - 1) % PageDays = 0}

VARIABLES
    events,         \* sermon_events: date and manuscript of each row
    page,           \* start of the range in the URL
    status,         \* what the tab displays: loading, ready or error
    shown,          \* the events state of the tab
    popover,        \* the popover that is open, and the call it waits for
    calls,          \* the tab's requests
    newest,         \* history: the fetch sent last
    raced,          \* history, since the fetch sent last: events with a change and
                    \* another call of the event, or a fetch, under way at once
    unheard,        \* history, since then: events with a change whose answer was lost
    foreign,        \* history, since then: events the other device changed
    late            \* history: the last answer to a fetch was not the newest's

vars == <<events, page, status, shown, popover, calls, newest, raced, unheard, foreign, late>>

Row == [date : Day, linked : BOOLEAN]
ASSUME AbsentAssumption == Absent \notin Event \cup Row

Unsent == [kind |-> "none", place |-> "unsent", event |-> Absent, date |-> 1,
           prior |-> 1, page |-> 1, link |-> FALSE, data |-> [e \in {} |-> 1]]
Closed == [kind |-> "none", event |-> Absent, busy |-> Absent]

(* _range_stmt: the half-open range of a page.                             *)
InPage(d, p) == d >= p /\ d < p + PageDays
RangeEvents(p) ==
    LET found == {e \in Event : events[e] # Absent /\ InPage(events[e].date, p)}
    IN [e \in found |-> events[e]]

Pending == {c \in Call : calls[c].place \notin {"unsent", "done"}}
Changes(e) == {c \in Pending : calls[c].event = e /\ calls[c].kind # "fetch"}
Fetches == {c \in Pending : calls[c].kind = "fetch"}
Free == {c \in Call : calls[c].place = "unsent"}

Send(c, call) == calls' = [calls EXCEPT ![c] = call]
Place(c, place) == calls' = [calls EXCEPT ![c].place = place]
Done(c) == [calls EXCEPT ![c] = [Unsent EXCEPT !.place = "done"]]
(* A fetch is sent: what raced before it no longer matters.                *)
Afresh(answered) ==
    /\ raced' = {e \in Event : Changes(e) \ answered # {}}
    /\ unheard' = {} /\ foreign' = {}
(* A change of e is sent or served.                                        *)
Race(e) == raced' = IF Changes(e) \cup Fetches = {} THEN raced ELSE raced \cup {e}

Fetch(p) == [Unsent EXCEPT !.kind = "fetch", !.place = "sent", !.page = p]

Init ==
    /\ events \in [Event -> Row \cup {Absent}]
    /\ page \in Page /\ status = "ready" /\ shown = RangeEvents(page)
    /\ popover = Closed
    /\ calls = [c \in Call |-> Unsent] /\ newest = Absent
    /\ raced = {} /\ unheard = {} /\ foreign = {} /\ late = FALSE

-----------------------------------------------------------------------------
(* The tab                                                                 *)

(* Another page: the effect that depends on the range fetches it.          *)
Navigate(c, p) ==
    /\ c \in Free /\ p # page
    /\ page' = p /\ status' = "loading" /\ newest' = c
    /\ Send(c, Fetch(p))
    /\ Afresh({})
    /\ UNCHANGED <<events, shown, popover, late>>

(* A chip is dropped on another day; the view needs the events on screen.  *)
Move(c, e, d) ==
    /\ c \in Free /\ status = "ready" /\ popover = Closed
    /\ e \in DOMAIN shown /\ shown[e].date # d
    /\ shown' = [shown EXCEPT ![e].date = d]
    /\ Send(c, [Unsent EXCEPT !.kind = "move", !.place = "sent", !.event = e,
                              !.date = d, !.prior = shown[e].date])
    /\ Race(e)
    /\ UNCHANGED <<events, page, status, popover, newest, unheard, foreign, late>>

(* An unlinked event opens the popover, a linked one its manuscript; an    *)
(* empty day, with no event, opens the popover that creates.               *)
Open(e) ==
    /\ status = "ready" /\ popover = Closed
    /\ \/ e \in DOMAIN shown /\ ~shown[e].linked /\ popover' = [Closed EXCEPT !.kind = "edit", !.event = e]
       \/ e = Absent /\ popover' = [Closed EXCEPT !.kind = "create"]
    /\ UNCHANGED <<events, page, status, shown, calls, newest, raced, unheard, foreign, late>>

Submit(c, kind, d, link) ==
    /\ c \in Free /\ popover # Closed /\ popover.busy = Absent
    /\ kind \in IF popover.kind = "create" THEN {"create"} ELSE {"edit", "delete"}
    /\ kind # "edit" => ~link
    /\ kind = "delete" => d = 1
    /\ popover' = [popover EXCEPT !.busy = c]
    /\ Send(c, [Unsent EXCEPT !.kind = kind, !.place = "sent", !.event = popover.event,
                              !.date = d, !.link = link])
    /\ IF kind = "create" THEN UNCHANGED raced ELSE Race(popover.event)
    /\ UNCHANGED <<events, page, status, shown, newest, unheard, foreign, late>>

(* The user closes the popover, busy or not.                               *)
Close ==
    /\ popover # Closed
    /\ popover' = Closed
    /\ UNCHANGED <<events, page, status, shown, calls, newest, raced, unheard, foreign, late>>

-----------------------------------------------------------------------------
(* The api                                                                 *)

(* Each is one transaction.  A patch without a link leaves the link alone. *)
Created(e, call) == [events EXCEPT ![e] = [date |-> call.date, linked |-> FALSE]]
Updated(call) == [events EXCEPT ![call.event] = [date |-> call.date,
                                                 linked |-> @.linked \/ call.link]]
Deleted(call) == [events EXCEPT ![call.event] = Absent]

(* A creation writes a row of its own, also when it repeats one whose      *)
(* answer was lost.  Event bounds the rows.                                *)
ServeCreate(c, e) ==
    /\ calls[c].place = "sent" /\ calls[c].kind = "create" /\ events[e] = Absent
    /\ events' = Created(e, calls[c])
    /\ calls' = [calls EXCEPT ![c].place = "served", ![c].event = e]
    /\ Race(e)
    /\ UNCHANGED <<page, status, shown, popover, newest, unheard, foreign, late>>

(* Of a row that is gone, a 404.                                           *)
ServeChange(c) ==
    /\ calls[c].place = "sent" /\ calls[c].kind \in {"move", "edit", "delete"}
    /\ IF events[calls[c].event] = Absent
       THEN UNCHANGED events /\ Place(c, "failed")
       ELSE /\ events' = IF calls[c].kind = "delete" THEN Deleted(calls[c]) ELSE Updated(calls[c])
            /\ Place(c, "served")
    /\ UNCHANGED <<page, status, shown, popover, newest, raced, unheard, foreign, late>>

(* list_events                                                             *)
ServeFetch(c) ==
    /\ calls[c].place = "sent" /\ calls[c].kind = "fetch"
    /\ calls' = [calls EXCEPT ![c].place = "served", ![c].data = RangeEvents(calls[c].page)]
    /\ UNCHANGED <<events, page, status, shown, popover, newest, raced, unheard, foreign, late>>

(* A refusal, or a network error, before anything was written or after.    *)
Lose(c) ==
    /\ calls[c].place \in {"sent", "served"}
    /\ Place(c, "failed")
    /\ unheard' = IF calls[c].place = "served" THEN unheard \cup ({calls[c].event} \ {Absent})
                  ELSE unheard
    /\ UNCHANGED <<events, page, status, shown, popover, newest, raced, foreign, late>>

(* The other device writes, to each event once between the fetches of this *)
(* tab, a bound.                                                           *)
Elsewhere(e) ==
    /\ e \notin foreign
    /\ \E row \in Row \cup {Absent} : row # events[e] /\ events' = [events EXCEPT ![e] = row]
    /\ foreign' = foreign \cup {e}
    /\ UNCHANGED <<page, status, shown, popover, calls, newest, raced, unheard, late>>

-----------------------------------------------------------------------------
(* Answers                                                                 *)

(* Whatever page is displayed by now, the answer is.                       *)
AnswerFetch(c) ==
    /\ calls[c].kind = "fetch" /\ calls[c].place \in {"served", "failed"}
    /\ IF calls[c].place = "served"
       THEN shown' = calls[c].data /\ status' = "ready"
       ELSE status' = "error" /\ UNCHANGED shown
    /\ late' = (c # newest)
    /\ raced' = raced \cup {e \in Event : Changes(e) # {}}
    /\ calls' = Done(c)
    /\ UNCHANGED <<events, page, popover, newest, unheard, foreign>>

(* Mutant: a refused move stays where the chip was dropped.                *)
AnswerMoveKept(c) ==
    /\ calls[c].kind = "move" /\ calls[c].place \in {"served", "failed"}
    /\ calls' = Done(c)
    /\ UNCHANGED <<events, page, status, shown, popover, newest, raced, unheard, foreign, late>>

(* rollbackMove: to the date captured before the drop, if the event is     *)
(* still among those fetched.                                              *)
AnswerMove(c) ==
    /\ calls[c].kind = "move" /\ calls[c].place \in {"served", "failed"}
    /\ shown' = IF calls[c].place = "failed" /\ calls[c].event \in DOMAIN shown
                THEN [shown EXCEPT ![calls[c].event].date = calls[c].prior]
                ELSE shown
    /\ calls' = Done(c)
    /\ UNCHANGED <<events, page, status, popover, newest, raced, unheard, foreign, late>>

(* A popover's change succeeded: close and refetch; or failed: the message *)
(* stays in the popover.                                                   *)
AnswerSubmit(c, fetch) ==
    /\ calls[c].kind \in {"edit", "delete", "create"}
    /\ \/ /\ calls[c].place = "served"
          /\ fetch \in Free
          /\ popover' = Closed /\ status' = "loading" /\ newest' = fetch
          /\ calls' = [Done(c) EXCEPT ![fetch] = Fetch(page)]
          /\ Afresh({c})
       \/ /\ calls[c].place = "failed"
          /\ popover' = IF popover.busy = c THEN [popover EXCEPT !.busy = Absent]
                        ELSE popover
          /\ calls' = Done(c)
          /\ UNCHANGED <<status, newest, raced, unheard, foreign>>
    /\ UNCHANGED <<events, page, shown, late>>

Next ==
    \/ \E c \in Call :
         \/ \E p \in Page : Navigate(c, p)
         \/ \E e \in Event, d \in Day : Move(c, e, d)
         \/ \E kind \in {"edit", "delete", "create"}, d \in Day, link \in BOOLEAN :
              Submit(c, kind, d, link)
         \/ \E e \in Event : ServeCreate(c, e)
         \/ ServeChange(c) \/ ServeFetch(c) \/ Lose(c)
         \/ AnswerFetch(c) \/ AnswerMove(c) \/ \E f \in Call : AnswerSubmit(c, f)
    \/ \E e \in Event : Open(e) \/ Elsewhere(e)
    \/ Open(Absent) \/ Close

Spec == Init /\ [][Next]_vars

-----------------------------------------------------------------------------
(* Properties                                                              *)

Settled == status = "ready" /\ Pending = {}

(* What a tab at rest shows is what the server has, if the last answer to  *)
(* a fetch was that of the fetch sent last, for every event that since     *)
(* that fetch was sent nothing else changed, no answer to a change was     *)
(* lost and no change overlapped another call.                             *)
SettledTabIsRight ==
    Settled /\ ~late =>
      \A e \in Event \ (raced \cup unheard \cup foreign) :
        /\ e \in DOMAIN shown => events[e] = shown[e]
        /\ events[e] # Absent /\ InPage(events[e].date, page) => e \in DOMAIN shown

(* "On success the optimistic state already reflects the move": once the   *)
(* moves of an event were answered, the tab shows its date as it is.  It   *)
(* does not hold of two moves that overtake each other (README, section    *)
(* 10).                                                                    *)
MovesShowTheirDate ==
    Settled /\ ~late =>
      \A e \in DOMAIN shown \ (unheard \cup foreign) : events[e] # Absent => events[e].date = shown[e].date
=============================================================================
