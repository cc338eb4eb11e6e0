----------------------------- MODULE Views_proofs ------------------------------
(* Theorems about the two views of the browser: Calendar, for every set of *)
(* events and calls and every length of a page; Reader, for every book,    *)
(* window and number of calls.                                             *)
EXTENDS Calendar, Reader, SequenceTheorems, TLAPS

-----------------------------------------------------------------------------
(* Calendar.                                                               *)

(* Types.                                                                  *)
ChangeKinds == {"move", "edit", "delete", "create"}
Kinds == {"none", "fetch"} \cup ChangeKinds
Ended == {"unsent", "done"}
Shows == UNION {[some -> Row] : some \in SUBSET Event}

CallRow ==
    {row \in [kind : Kinds, place : Ended \cup {"sent", "served", "failed"},
              event : Event \cup {Absent}, date : Day, prior : Day, page : Day,
              link : BOOLEAN, data : Shows] :
       /\ row.kind = "none" <=> row.place \in Ended
       /\ row.kind \in ChangeKinds \ {"create"} => row.event \in Event
       /\ row.kind = "create" /\ row.place = "sent" => row.event = Absent
       /\ row.kind = "create" /\ row.place = "served" => row.event \in Event
       /\ row.kind = "move" => row.link = FALSE}

PopoverRow ==
    {row \in [kind : {"edit", "create"}, event : Event \cup {Absent}, busy : Call \cup {Absent}] :
       row.event = Absent <=> row.kind = "create"}

CalendarTypeOK ==
    /\ events \in [Event -> Row \cup {Absent}]
    /\ page \in Day /\ status \in {"loading", "ready", "error"} /\ shown \in Shows
    /\ popover \in PopoverRow \cup {Closed}
    /\ calls \in [Call -> CallRow] /\ newest \in Call \cup {Absent}
    /\ raced \subseteq Event /\ unheard \subseteq Event /\ foreign \subseteq Event
    /\ late \in BOOLEAN

LEMMA ShowsFacts ==
    ASSUME NEW data \in Shows
    PROVE  DOMAIN data \subseteq Event /\ \A e \in DOMAIN data : data[e] \in Row
<1>1. PICK some \in SUBSET Event : data \in [some -> Row]
  BY DEF Shows
<1> QED
  BY <1>1

LEMMA ShowsMoved ==
    ASSUME NEW data \in Shows, NEW e \in DOMAIN data, NEW d \in Day
    PROVE  LET moved == [data EXCEPT ![e].date = d] IN
           /\ moved \in Shows /\ DOMAIN moved = DOMAIN data
           /\ moved[e] = [date |-> d, linked |-> data[e].linked]
           /\ \A x \in DOMAIN data : x # e => moved[x] = data[x]
<1> DEFINE moved == [data EXCEPT ![e].date = d]
<1>1. PICK some \in SUBSET Event : data \in [some -> Row]
  BY DEF Shows
<1>2. data[e] \in Row /\ e \in some
  BY <1>1
<1>3. moved[e] = [date |-> d, linked |-> data[e].linked] /\ moved[e] \in Row
  BY <1>2 DEF Row
<1>4. moved \in [some -> Row]
  BY <1>1, <1>2 DEF Row
<1>5. moved \in Shows
  BY <1>4 DEF Shows
<1> QED
  BY <1>1, <1>3, <1>5

LEMMA RangeShows ==
    ASSUME events \in [Event -> Row \cup {Absent}], NEW p
    PROVE  /\ RangeEvents(p) \in Shows
           /\ \A e \in Event : e \in DOMAIN RangeEvents(p) <=>
                                 events[e] # Absent /\ InPage(events[e].date, p)
           /\ \A e \in DOMAIN RangeEvents(p) : RangeEvents(p)[e] = events[e]
<1> DEFINE found == {e \in Event : events[e] # Absent /\ InPage(events[e].date, p)}
<1>1. RangeEvents(p) = [e \in found |-> events[e]]
  BY DEF RangeEvents
<1>2. \A e \in found : events[e] \in Row
  OBVIOUS
<1>3. RangeEvents(p) \in [found -> Row]
  BY <1>1, <1>2
<1>4. found \in SUBSET Event
  OBVIOUS
<1> QED
  BY <1>1, <1>3, <1>4 DEF Shows

LEMMA OneIsADay == 1 \in Day
  BY DaysAssumption DEF Day

(* Rows of calls.                                                          *)
LEMMA UnsentRow ==
    /\ Unsent \in CallRow /\ Unsent.kind = "none" /\ Unsent.place = "unsent"
    /\ Unsent.link = FALSE
<1> DEFINE nothing == [e \in {} |-> 1]
<1>1. nothing \in [{} -> Row] /\ {} \in SUBSET Event
  OBVIOUS
<1>2. nothing \in Shows
  BY <1>1 DEF Shows
<1> HIDE DEF nothing
<1>3. Unsent = [kind |-> "none", place |-> "unsent", event |-> Absent, date |-> 1,
                prior |-> 1, page |-> 1, link |-> FALSE, data |-> nothing]
  BY DEF Unsent, nothing
<1> QED
  BY <1>2, <1>3, OneIsADay DEF CallRow, Kinds, Ended, ChangeKinds

LEMMA DoneRow ==
    LET row == [Unsent EXCEPT !.place = "done"] IN
    row \in CallRow /\ row.kind = "none" /\ row.place = "done"
  BY UnsentRow DEF CallRow, Kinds, Ended, ChangeKinds

LEMMA FetchRow ==
    ASSUME NEW p \in Day
    PROVE  /\ Fetch(p) \in CallRow /\ Fetch(p).kind = "fetch" /\ Fetch(p).place = "sent"
           /\ Fetch(p).page = p
  BY UnsentRow DEF Fetch, CallRow, Kinds, Ended, ChangeKinds

LEMMA OneCall ==
    ASSUME calls \in [Call -> CallRow], NEW c \in Call, NEW row \in CallRow,
           calls' = [calls EXCEPT ![c] = row]
    PROVE  /\ calls' \in [Call -> CallRow]
           /\ calls'[c] = row /\ \A d \in Call : d # c => calls'[d] = calls[d]
  OBVIOUS

LEMMA PlacedCall ==
    ASSUME calls \in [Call -> CallRow], NEW c \in Call, calls[c].kind # "none",
           NEW place \in {"served", "failed"}, Place(c, place),
           calls[c].kind = "create" => place = "failed"
    PROVE  /\ calls' \in [Call -> CallRow]
           /\ calls'[c] = [calls[c] EXCEPT !.place = place]
           /\ calls'[c].place = place /\ calls'[c].kind = calls[c].kind
           /\ calls'[c].event = calls[c].event /\ calls'[c].date = calls[c].date
           /\ calls'[c].prior = calls[c].prior /\ calls'[c].page = calls[c].page
           /\ \A d \in Call : d # c => calls'[d] = calls[d]
<1> DEFINE row == [calls[c] EXCEPT !.place = place]
<1>1. /\ row \in CallRow /\ row.place = place /\ row.kind = calls[c].kind
      /\ row.event = calls[c].event /\ row.date = calls[c].date
      /\ row.prior = calls[c].prior /\ row.page = calls[c].page
  BY DEF CallRow, Ended
<1>2. calls' = [calls EXCEPT ![c] = row]
  BY DEF Place
<1> HIDE DEF row
<1>3. /\ calls' \in [Call -> CallRow] /\ calls'[c] = row
      /\ \A d \in Call : d # c => calls'[d] = calls[d]
  BY <1>1, <1>2, OneCall
<1> QED
  BY <1>1, <1>3 DEF row

-----------------------------------------------------------------------------
(* The inductive invariant, event by event.  A change of an event that     *)
(* raced with nothing is the only call that concerns it, and no fetch is   *)
(* under way; the answer of the newest fetch agrees with the server, and   *)
(* what came before it is late; and a tab that is ready, with the newest   *)
(* answer, agrees with the server but for a move that the server has not   *)
(* applied and a submit it has.                                            *)
Concerns(row, e) == row.kind \in ChangeKinds /\ row.event = e
Dropped(row) == row.kind = "move" /\ row.place \in {"sent", "failed"}
Applied(row) == row.kind # "move" /\ row.place = "served"
Unraced(e) == e \notin raced \cup unheard \cup foreign

Agrees(data, e) ==
    /\ e \in DOMAIN data => events[e] = data[e]
    /\ events[e] # Absent /\ InPage(events[e].date, page) => e \in DOMAIN data

Alone(e) ==
    \A c \in Call : Concerns(calls[c], e) =>
      \A d \in Call : /\ calls[d].kind # "fetch"
                      /\ Concerns(calls[d], e) => d = c

FetchedRight(e) ==
    newest \in Call /\ calls[newest].kind = "fetch" /\ calls[newest].place = "served" =>
      Agrees(calls[newest].data, e)

ShownRight(e) ==
    /\ (\A c \in Call : Concerns(calls[c], e) => ~Dropped(calls[c]) /\ ~Applied(calls[c])) =>
         Agrees(shown, e)
    /\ \A c \in Call : Concerns(calls[c], e) /\ Dropped(calls[c]) =>
         /\ e \in DOMAIN shown /\ shown[e].date = calls[c].date
         /\ events[e] = [date |-> calls[c].prior, linked |-> shown[e].linked]

EventInv(e) ==
    Unraced(e) =>
      Alone(e) /\ FetchedRight(e) /\ (~late /\ status = "ready" => ShownRight(e))

NewestInv ==
    newest \in Call /\ calls[newest].kind = "fetch" =>
      calls[newest].page = page /\ (status = "ready" => late)

CalendarInv == CalendarTypeOK /\ NewestInv /\ \A e \in Event : EventInv(e)

(* The sets of the actions in these terms.                                 *)
LEMMA UnderWay ==
    ASSUME CalendarTypeOK
    PROVE  /\ \A e : Changes(e) = {c \in Call : Concerns(calls[c], e)}
           /\ Fetches = {c \in Call : calls[c].kind = "fetch"}
           /\ \A c \in Free : calls[c].kind = "none"
           /\ \A c \in Call : c \in Pending <=> calls[c].kind # "none"
<1>1. \A c \in Call : calls[c] \in CallRow
  BY DEF CalendarTypeOK
<1>2. \A c \in Call : /\ calls[c].kind \in Kinds
                      /\ calls[c].kind = "none" <=> calls[c].place \in {"unsent", "done"}
  BY <1>1 DEF CallRow, Ended
<1>3. \A c \in Call : c \in Pending <=> calls[c].kind # "none"
  BY <1>2 DEF Pending
<1>4. \A e : Changes(e) = {c \in Call : Concerns(calls[c], e)}
  BY <1>2, <1>3 DEF Changes, Concerns, Kinds, ChangeKinds, Pending
<1>5. Fetches = {c \in Call : calls[c].kind = "fetch"}
  BY <1>3 DEF Fetches, Pending
<1>6. \A c \in Free : calls[c].kind = "none"
  BY <1>2 DEF Free
<1> QED
  BY <1>3, <1>4, <1>5, <1>6

(* A step that does not touch what concerns an event.                      *)
LEMMA EventRests ==
    ASSUME NEW e \in Event, EventInv(e),
           UNCHANGED <<page, status, newest, late>>, events'[e] = events[e],
           e \in DOMAIN shown' <=> e \in DOMAIN shown,
           e \in DOMAIN shown => shown'[e] = shown[e],
           Unraced(e)' => Unraced(e),
           \A d \in Call : Unraced(e)' =>
             \/ calls'[d] = calls[d]
             \/ /\ ~Concerns(calls[d], e) /\ ~Concerns(calls'[d], e)
                /\ calls'[d].kind = "fetch" => calls[d].kind = "fetch"
                /\ calls'[d].kind = "fetch" => calls'[d].place # "served"
    PROVE  EventInv(e)'
<1> SUFFICES ASSUME Unraced(e)' PROVE EventInv(e)'
  BY DEF EventInv
<1>1. Unraced(e) /\ Alone(e)
  BY DEF EventInv
<1>2. \A d \in Call : /\ Concerns(calls'[d], e) <=> Concerns(calls[d], e)
                      /\ calls'[d].kind = "fetch" => calls[d].kind = "fetch"
                      /\ Concerns(calls[d], e) => calls'[d] = calls[d]
  OBVIOUS
<1>3. Alone(e)'
  BY <1>1, <1>2 DEF Alone
<1>4. \A data : Agrees(data, e)' <=> Agrees(data, e)
  BY DEF Agrees
<1>5. Agrees(shown, e) => Agrees(shown', e)
  BY DEF Agrees
<1>6. ASSUME FetchedRight(e) PROVE FetchedRight(e)'
  <2> SUFFICES ASSUME newest \in Call, calls'[newest].kind = "fetch",
                      calls'[newest].place = "served"
               PROVE  Agrees(calls[newest].data, e)'
    BY DEF FetchedRight
  <2>1. PICK data : data = calls'[newest].data
    OBVIOUS
  <2>2. calls'[newest] = calls[newest]
    OBVIOUS
  <2>3. Agrees(data, e)
    BY <1>6, <2>1, <2>2 DEF FetchedRight
  <2>4. Agrees(data, e)'
    BY <1>4, <2>3
  <2> QED
    BY <2>1, <2>4 DEF Agrees
<1>7. ASSUME ShownRight(e) PROVE ShownRight(e)'
  BY <1>2, <1>5, <1>7 DEF ShownRight, Agrees
<1> QED
  BY <1>1, <1>3, <1>6, <1>7 DEF EventInv

(* A step after which a fetch is due and nothing else concerns the event.  *)
LEMMA EventWaits ==
    ASSUME NEW e \in Event, status' # "ready",
           \A d \in Call : ~Concerns(calls'[d], e),
           newest' \in Call => ~(calls'[newest'].kind = "fetch" /\ calls'[newest'].place = "served")
    PROVE  EventInv(e)'
  BY DEF EventInv, Alone, FetchedRight

-----------------------------------------------------------------------------
LEMMA CalendarInvInit == Init => CalendarInv
<1> SUFFICES ASSUME Init PROVE CalendarInv
  OBVIOUS
<1>1. Page \subseteq Day
  BY DEF Page
<1>2. /\ shown \in Shows
      /\ \A e \in Event : e \in DOMAIN shown <=> events[e] # Absent /\ InPage(events[e].date, page)
      /\ \A e \in DOMAIN shown : shown[e] = events[e]
  BY RangeShows DEF Init
<1>3. calls \in [Call -> CallRow] /\ \A c \in Call : calls[c].kind = "none"
  BY UnsentRow DEF Init
<1>4. CalendarTypeOK
  BY <1>1, <1>2, <1>3 DEF Init, CalendarTypeOK
<1>5. NewestInv
  BY <1>3 DEF NewestInv
<1>6. ASSUME NEW e \in Event PROVE EventInv(e)
  BY <1>2, <1>3 DEF EventInv, Alone, FetchedRight, ShownRight, Agrees, Concerns, ChangeKinds
<1> QED
  BY <1>4, <1>5, <1>6 DEF CalendarInv

-----------------------------------------------------------------------------
(* The tab.                                                                *)
LEMMA NavigateKeeps ==
    ASSUME CalendarInv, NEW c \in Call, NEW p \in Page, Navigate(c, p)
    PROVE  CalendarInv'
<1>1. p \in Day
  BY DEF Page
<1>2. /\ UNCHANGED <<events, shown, popover, late>> /\ unheard' = {} /\ foreign' = {}
      /\ page' = p /\ status' = "loading" /\ newest' = c
      /\ calls' = [calls EXCEPT ![c] = Fetch(p)]
      /\ raced' = {e \in Event : Changes(e) # {}}
      /\ CalendarTypeOK
  BY DEF Navigate, Afresh, Send, CalendarInv
<1>3. /\ calls' \in [Call -> CallRow]
      /\ calls'[c] = Fetch(p) /\ \A d \in Call : d # c => calls'[d] = calls[d]
  BY <1>1, <1>2, FetchRow, OneCall DEF CalendarTypeOK
<1>4. CalendarTypeOK'
  BY <1>1, <1>2, <1>3 DEF CalendarTypeOK, Closed, PopoverRow
<1>5. NewestInv'
  BY <1>1, <1>2, <1>3, FetchRow DEF NewestInv
<1>6. ASSUME NEW e \in Event PROVE EventInv(e)'
  <2> SUFFICES ASSUME Unraced(e)' PROVE EventInv(e)'
    BY DEF EventInv
  <2>1. Changes(e) = {}
    BY <1>2 DEF Unraced
  <2>2. \A d \in Call : ~Concerns(calls[d], e)
    BY <1>2, <2>1, UnderWay
  <2>3. \A d \in Call : ~Concerns(calls'[d], e)
    BY <1>1, <1>3, <2>2, FetchRow DEF Concerns, ChangeKinds
  <2> QED
    BY <1>1, <1>2, <1>3, <2>3, FetchRow, EventWaits
<1> QED
  BY <1>4, <1>5, <1>6 DEF CalendarInv

(* A call that a tab sends for an event, which then may race.              *)
LEMMA SendNewest ==
    ASSUME CalendarInv, NEW c \in Call, calls[c].kind = "none",
           NEW row \in CallRow, row.kind \in ChangeKinds,
           calls' = [calls EXCEPT ![c] = row], UNCHANGED <<page, status, newest, late>>
    PROVE  NewestInv'
<1>1. calls'[c] = row /\ \A d \in Call : d # c => calls'[d] = calls[d]
  BY OneCall DEF CalendarInv, CalendarTypeOK
<1> QED
  BY <1>1 DEF CalendarInv, NewestInv, ChangeKinds

LEMMA OthersWait ==
    ASSUME CalendarInv, NEW c \in Call, calls[c].kind = "none",
           NEW row \in CallRow, row.kind \in ChangeKinds,
           calls' = [calls EXCEPT ![c] = row],
           NEW e \in Event, e # row.event
    PROVE  \A d \in Call :
             \/ calls'[d] = calls[d]
             \/ /\ ~Concerns(calls[d], e) /\ ~Concerns(calls'[d], e)
                /\ calls'[d].kind = "fetch" => calls[d].kind = "fetch"
                /\ calls'[d].kind = "fetch" => calls'[d].place # "served"
<1>1. calls'[c] = row /\ \A d \in Call : d # c => calls'[d] = calls[d]
  BY OneCall DEF CalendarInv, CalendarTypeOK
<1> QED
  BY <1>1 DEF Concerns, ChangeKinds

(* Of the event itself: it is unraced only when nothing was under way.     *)
LEMMA OnlyCall ==
    ASSUME CalendarInv, NEW c \in Call, NEW e \in Event,
           NEW row \in CallRow, row.kind \in ChangeKinds, row.event = e,
           calls' = [calls EXCEPT ![c] = row],
           raced' = IF Changes(e) \cup Fetches = {} THEN raced ELSE raced \cup {e},
           UNCHANGED <<unheard, foreign>>, Unraced(e)'
    PROVE  /\ Unraced(e) /\ calls'[c] = row
           /\ \A d \in Call : /\ ~Concerns(calls[d], e)
                              /\ calls'[d].kind # "fetch"
                              /\ Concerns(calls'[d], e) => d = c
<1>1. CalendarTypeOK /\ calls \in [Call -> CallRow]
  BY DEF CalendarInv, CalendarTypeOK
<1>2. calls'[c] = row /\ \A d \in Call : d # c => calls'[d] = calls[d]
  BY <1>1, OneCall
<1>3. Changes(e) = {} /\ Fetches = {} /\ raced' = raced
  BY DEF Unraced
<1>4. \A d \in Call : ~Concerns(calls[d], e) /\ calls[d].kind # "fetch"
  BY <1>1, <1>3, UnderWay
<1> QED
  BY <1>2, <1>3, <1>4 DEF Unraced, ChangeKinds

LEMMA MoveKeeps ==
    ASSUME CalendarInv, NEW c \in Call, NEW e \in Event, NEW d \in Day, Move(c, e, d)
    PROVE  CalendarInv'
<1> DEFINE row == [Unsent EXCEPT !.kind = "move", !.place = "sent", !.event = e,
                                 !.date = d, !.prior = shown[e].date]
<1>1. /\ UNCHANGED <<events, page, status, popover, newest, unheard, foreign, late>>
      /\ status = "ready" /\ e \in DOMAIN shown /\ c \in Free
      /\ shown' = [shown EXCEPT ![e].date = d]
      /\ calls' = [calls EXCEPT ![c] = row]
      /\ raced' = IF Changes(e) \cup Fetches = {} THEN raced ELSE raced \cup {e}
      /\ CalendarTypeOK
  BY DEF Move, Race, Send, CalendarInv
<1>2. shown \in Shows /\ shown[e] \in Row /\ calls[c].kind = "none"
  BY <1>1, ShowsFacts, UnderWay DEF CalendarTypeOK
<1>3. /\ row \in CallRow /\ row.kind = "move" /\ row.place = "sent" /\ row.event = e
      /\ row.date = d /\ row.prior = shown[e].date
  <2>1. shown[e].date \in Day
    BY <1>2 DEF Row
  <2> QED
    BY <2>1, UnsentRow DEF CallRow, Kinds, Ended, ChangeKinds
<1> HIDE DEF row
<1>4. /\ shown' \in Shows /\ DOMAIN shown' = DOMAIN shown
      /\ shown'[e] = [date |-> d, linked |-> shown[e].linked]
      /\ \A x \in DOMAIN shown : x # e => shown'[x] = shown[x]
  BY <1>1, <1>2, ShowsMoved
<1>5. calls' \in [Call -> CallRow]
  BY <1>1, <1>3, OneCall DEF CalendarTypeOK
<1>6. CalendarTypeOK'
  BY <1>1, <1>4, <1>5 DEF CalendarTypeOK, Closed, PopoverRow
<1>7. NewestInv'
  BY <1>1, <1>2, <1>3, SendNewest DEF ChangeKinds
<1>8. ASSUME NEW x \in Event, x # e PROVE EventInv(x)'
  <2>1. EventInv(x) /\ (Unraced(x)' => Unraced(x))
    BY <1>1 DEF CalendarInv, Unraced
  <2> QED
    BY <1>1, <1>2, <1>3, <1>4, <1>8, <2>1, OthersWait, EventRests DEF ChangeKinds
<1>9. EventInv(e)'
  <2> SUFFICES ASSUME Unraced(e)' PROVE EventInv(e)'
    BY DEF EventInv
  <2>1. /\ Unraced(e) /\ calls'[c] = row
        /\ \A x \in Call : /\ ~Concerns(calls[x], e)
                           /\ calls'[x].kind # "fetch"
                           /\ Concerns(calls'[x], e) => x = c
    BY <1>1, <1>3, OnlyCall DEF ChangeKinds
  <2>2. Alone(e)' /\ FetchedRight(e)'
    BY <2>1 DEF Alone, FetchedRight
  <2>3. ASSUME ~late PROVE ShownRight(e)'
    <3>1. ShownRight(e)
      BY <1>1, <2>1, <2>3 DEF CalendarInv, EventInv
    <3>2. events[e] = shown[e]
      BY <1>1, <2>1, <3>1 DEF ShownRight, Agrees
    <3>3. events[e] = [date |-> shown[e].date, linked |-> shown[e].linked]
      BY <1>2, <3>2 DEF Row
    <3>4. Dropped(calls'[c]) /\ Concerns(calls'[c], e)
      BY <1>3, <2>1 DEF Dropped, Concerns, ChangeKinds
    <3>5. /\ shown'[e].date = calls'[c].date /\ shown'[e].linked = shown[e].linked
          /\ calls'[c].prior = shown[e].date /\ e \in DOMAIN shown'
      BY <1>1, <1>3, <1>4, <2>1
    <3> QED
      BY <1>1, <2>1, <3>3, <3>4, <3>5 DEF ShownRight
  <2> QED
    BY <1>1, <2>2, <2>3 DEF EventInv
<1> QED
  BY <1>6, <1>7, <1>8, <1>9 DEF CalendarInv

LEMMA PopoverKeeps ==
    ASSUME CalendarInv, popover' \in PopoverRow \cup {Closed},
           UNCHANGED <<events, page, status, shown, calls, newest, raced, unheard, foreign, late>>
    PROVE  CalendarInv'
<1>1. CalendarTypeOK'
  BY DEF CalendarInv, CalendarTypeOK, Closed, PopoverRow
<1>2. NewestInv'
  BY DEF CalendarInv, NewestInv
<1>3. ASSUME NEW e \in Event PROVE EventInv(e)'
  <2>1. EventInv(e) /\ (Unraced(e)' => Unraced(e))
    BY DEF CalendarInv, Unraced
  <2> QED
    BY <2>1, EventRests
<1> QED
  BY <1>1, <1>2, <1>3 DEF CalendarInv

LEMMA OpenKeeps ==
    ASSUME CalendarInv, NEW e \in Event \cup {Absent}, Open(e)
    PROVE  CalendarInv'
<1>1. popover' \in PopoverRow
  <2>1. CASE e = Absent /\ popover' = [Closed EXCEPT !.kind = "create"]
    BY <2>1 DEF PopoverRow, Closed
  <2>2. CASE e \in DOMAIN shown /\ popover' = [Closed EXCEPT !.kind = "edit", !.event = e]
    <3>1. e \in Event /\ e # Absent
      BY <2>2, ShowsFacts, AbsentAssumption DEF CalendarInv, CalendarTypeOK
    <3> QED
      BY <2>2, <3>1 DEF PopoverRow, Closed
  <2> QED
    BY <2>1, <2>2 DEF Open
<1> QED
  BY <1>1, PopoverKeeps DEF Open

LEMMA SubmitKeeps ==
    ASSUME CalendarInv, NEW c \in Call, NEW kind \in {"edit", "delete", "create"},
           NEW d \in Day, NEW link \in BOOLEAN, Submit(c, kind, d, link)
    PROVE  CalendarInv'
<1>0. PICK e : e = popover.event
  OBVIOUS
<1> DEFINE row == [Unsent EXCEPT !.kind = kind, !.place = "sent", !.event = e,
                                 !.date = d, !.link = link]
<1>1. /\ UNCHANGED <<events, page, status, shown, newest, unheard, foreign, late>>
      /\ popover # Closed /\ c \in Free /\ popover' = [popover EXCEPT !.busy = c]
      /\ calls' = [calls EXCEPT ![c] = row]
      /\ IF kind = "create" THEN UNCHANGED raced
         ELSE raced' = IF Changes(e) \cup Fetches = {} THEN raced ELSE raced \cup {e}
      /\ kind \in IF popover.kind = "create" THEN {"create"} ELSE {"edit", "delete"}
      /\ CalendarTypeOK
  BY <1>0 DEF Submit, Race, Send, CalendarInv
<1>2. /\ popover \in PopoverRow /\ e \in Event \cup {Absent} /\ calls[c].kind = "none"
      /\ e = Absent <=> kind = "create"
  BY <1>0, <1>1, UnderWay DEF CalendarTypeOK, PopoverRow
<1>3. popover' \in PopoverRow
  BY <1>1, <1>2 DEF PopoverRow
<1>4. row \in CallRow /\ row.kind = kind /\ row.place = "sent" /\ row.event = e
  BY <1>2, UnsentRow DEF CallRow, Kinds, Ended, ChangeKinds
<1> HIDE DEF row
<1>5. calls' \in [Call -> CallRow]
  BY <1>1, <1>4, OneCall DEF CalendarTypeOK
<1>6. CalendarTypeOK'
  BY <1>1, <1>2, <1>3, <1>5 DEF CalendarTypeOK, Closed, PopoverRow
<1>7. row.kind \in ChangeKinds /\ kind # "move"
  BY <1>4 DEF ChangeKinds
<1>8. NewestInv'
  BY <1>1, <1>2, <1>4, <1>7, SendNewest
<1>9. ASSUME NEW x \in Event, x # e PROVE EventInv(x)'
  <2>1. EventInv(x) /\ (Unraced(x)' => Unraced(x))
    BY <1>1 DEF CalendarInv, Unraced
  <2> QED
    BY <1>1, <1>2, <1>4, <1>7, <1>9, <2>1, OthersWait, EventRests
<1>10. ASSUME e \in Event PROVE EventInv(e)'
  <2> SUFFICES ASSUME Unraced(e)' PROVE EventInv(e)'
    BY DEF EventInv
  <2>2. /\ Unraced(e) /\ calls'[c] = row
        /\ \A y \in Call : /\ ~Concerns(calls[y], e)
                           /\ calls'[y].kind # "fetch"
                           /\ Concerns(calls'[y], e) => y = c
    <3>1. /\ e \in Event /\ row.kind \in ChangeKinds /\ row.event = e /\ row \in CallRow
          /\ calls' = [calls EXCEPT ![c] = row] /\ UNCHANGED <<unheard, foreign>>
          /\ raced' = IF Changes(e) \cup Fetches = {} THEN raced ELSE raced \cup {e}
      BY <1>1, <1>2, <1>4, <1>7, <1>10, AbsentAssumption
    <3> QED
      BY <3>1, OnlyCall
  <2>3. Alone(e)' /\ FetchedRight(e)'
    BY <2>2 DEF Alone, FetchedRight
  <2>4. ASSUME ~late, status = "ready" PROVE ShownRight(e)'
    <3>1. ShownRight(e)
      BY <1>10, <2>2, <2>4 DEF CalendarInv, EventInv
    <3>2. Agrees(shown, e)
      BY <2>2, <3>1 DEF ShownRight
    <3>3. ~Dropped(calls'[c])
      BY <1>4, <1>7, <2>2 DEF Dropped
    <3> QED
      BY <1>1, <2>2, <3>2, <3>3 DEF ShownRight, Agrees
  <2> QED
    BY <1>1, <2>3, <2>4 DEF EventInv
<1> QED
  BY <1>6, <1>8, <1>9, <1>10 DEF CalendarInv

-----------------------------------------------------------------------------
(* The api.                                                                *)

(* A change that is alone leaves every other event as it is.               *)
LEMMA OthersRest ==
    ASSUME NEW c \in Call, NEW x, calls[c].event # x,
           calls'[c].kind \in {"none", calls[c].kind},
           calls[c].kind # "fetch", calls'[c].event = calls[c].event \/ calls'[c].kind = "none",
           \A d \in Call : d # c => calls'[d] = calls[d]
    PROVE  \A d \in Call :
             \/ calls'[d] = calls[d]
             \/ /\ ~Concerns(calls[d], x) /\ ~Concerns(calls'[d], x)
                /\ calls'[d].kind = "fetch" => calls[d].kind = "fetch"
                /\ calls'[d].kind = "fetch" => calls'[d].place # "served"
<1>1. ~Concerns(calls[c], x) /\ ~Concerns(calls'[c], x) /\ calls'[c].kind # "fetch"
  BY DEF Concerns, ChangeKinds
<1> QED
  BY <1>1

(* What is known of an unraced event while a change of it is under way.    *)
LEMMA AloneFacts ==
    ASSUME CalendarInv, NEW e \in Event, Unraced(e), NEW c \in Call, Concerns(calls[c], e)
    PROVE  /\ \A d \in Call : calls[d].kind # "fetch" /\ (Concerns(calls[d], e) => d = c)
           /\ ~late /\ status = "ready" =>
                /\ ~Dropped(calls[c]) /\ ~Applied(calls[c]) => Agrees(shown, e)
                /\ Dropped(calls[c]) =>
                     /\ e \in DOMAIN shown /\ shown[e].date = calls[c].date
                     /\ events[e] = [date |-> calls[c].prior, linked |-> shown[e].linked]
<1>1. EventInv(e) /\ Alone(e)
  BY DEF CalendarInv, EventInv
<1>2. \A d \in Call : calls[d].kind # "fetch" /\ (Concerns(calls[d], e) => d = c)
  BY <1>1 DEF Alone
<1>3. ASSUME ~late, status = "ready" PROVE ShownRight(e)
  BY <1>1, <1>3 DEF EventInv
<1>4. ASSUME ~late, status = "ready", ~Dropped(calls[c]), ~Applied(calls[c])
      PROVE  Agrees(shown, e)
  BY <1>2, <1>3, <1>4 DEF ShownRight
<1>5. ASSUME ~late, status = "ready", Dropped(calls[c])
      PROVE  /\ e \in DOMAIN shown /\ shown[e].date = calls[c].date
             /\ events[e] = [date |-> calls[c].prior, linked |-> shown[e].linked]
  BY <1>3, <1>5 DEF ShownRight
<1> QED
  BY <1>2, <1>4, <1>5

(* After it, with the change still alone and still under way.              *)
LEMMA AloneStays ==
    ASSUME NEW e \in Event, NEW c \in Call, Concerns(calls[c], e),
           \A d \in Call : calls[d].kind # "fetch" /\ (Concerns(calls[d], e) => d = c),
           calls'[c].kind = calls[c].kind, calls'[c].event = calls[c].event,
           \A d \in Call : d # c => calls'[d] = calls[d]
    PROVE  /\ Concerns(calls'[c], e) /\ Alone(e)' /\ FetchedRight(e)'
           /\ \A d \in Call : Concerns(calls'[d], e) => d = c
<1>1. \A d \in Call : calls'[d].kind # "fetch" /\ (Concerns(calls'[d], e) => d = c)
  BY DEF Concerns
<1> QED
  BY <1>1 DEF Concerns, Alone, FetchedRight

(* A creation concerns no event until it is served, and its own then.      *)
LEMMA ServeCreateKeeps ==
    ASSUME CalendarInv, NEW c \in Call, NEW e \in Event, ServeCreate(c, e)
    PROVE  CalendarInv'
<1> DEFINE row == [calls[c] EXCEPT !.place = "served", !.event = e]
           new == [date |-> calls[c].date, linked |-> FALSE]
<1>1. /\ UNCHANGED <<page, status, shown, popover, newest, unheard, foreign, late>>
      /\ calls[c].place = "sent" /\ calls[c].kind = "create"
      /\ events' = [events EXCEPT ![e] = new] /\ calls' = [calls EXCEPT ![c] = row]
      /\ raced' = IF Changes(e) \cup Fetches = {} THEN raced ELSE raced \cup {e}
      /\ CalendarTypeOK /\ calls[c] \in CallRow
  BY DEF ServeCreate, Created, Race, CalendarInv, CalendarTypeOK
<1>2. /\ row \in CallRow /\ row.kind = "create" /\ row.place = "served" /\ row.event = e
      /\ new \in Row /\ calls[c].event = Absent
  BY <1>1 DEF CallRow, Ended, Row
<1> HIDE DEF row, new
<1>3. /\ calls' \in [Call -> CallRow] /\ calls'[c] = row
      /\ \A d \in Call : d # c => calls'[d] = calls[d]
  BY <1>1, <1>2, OneCall DEF CalendarTypeOK
<1>4. /\ events' \in [Event -> Row \cup {Absent}]
      /\ \A x \in Event : x # e => events'[x] = events[x]
  BY <1>1, <1>2 DEF CalendarTypeOK
<1>5. CalendarTypeOK'
  BY <1>1, <1>3, <1>4 DEF CalendarTypeOK, Closed, PopoverRow
<1>6. NewestInv'
  BY <1>1, <1>2, <1>3 DEF CalendarInv, NewestInv
<1>7. ASSUME NEW x \in Event, x # e PROVE EventInv(x)'
  <2>1. EventInv(x) /\ (Unraced(x)' => Unraced(x))
    BY <1>1 DEF CalendarInv, Unraced
  <2>2. ~Concerns(calls[c], x) /\ ~Concerns(calls'[c], x) /\ calls'[c].kind # "fetch"
    BY <1>2, <1>3, <1>7, AbsentAssumption DEF Concerns
  <2> QED
    BY <1>1, <1>3, <1>4, <1>7, <2>1, <2>2, EventRests
<1>8. EventInv(e)'
  <2> SUFFICES ASSUME Unraced(e)' PROVE EventInv(e)'
    BY DEF EventInv
  <2>1. \A d \in Call : calls'[d].kind # "fetch" /\ (Concerns(calls'[d], e) => d = c)
    <3>1. row.kind \in ChangeKinds
      BY <1>2 DEF ChangeKinds
    <3> QED
      <4>1. /\ calls' = [calls EXCEPT ![c] = row] /\ UNCHANGED <<unheard, foreign>>
            /\ raced' = IF Changes(e) \cup Fetches = {} THEN raced ELSE raced \cup {e}
            /\ row \in CallRow /\ row.event = e
        BY <1>1, <1>2
      <4> QED
        BY <3>1, <4>1, OnlyCall
  <2>2. Alone(e)' /\ FetchedRight(e)'
    BY <2>1 DEF Alone, FetchedRight
  <2>3. Concerns(calls'[c], e) /\ Applied(calls'[c]) /\ ~Dropped(calls'[c])
    BY <1>2, <1>3 DEF Concerns, Applied, Dropped, ChangeKinds
  <2>4. ShownRight(e)'
    BY <2>1, <2>3 DEF ShownRight
  <2> QED
    BY <2>2, <2>4 DEF EventInv
<1> QED
  BY <1>5, <1>6, <1>7, <1>8 DEF CalendarInv

LEMMA ServeChangeKeeps ==
    ASSUME CalendarInv, NEW c \in Call, ServeChange(c)
    PROVE  CalendarInv'
<1>1. PICK e : e = calls[c].event
  OBVIOUS
<1>2. /\ UNCHANGED <<page, status, shown, popover, newest, raced, unheard, foreign, late>>
      /\ calls[c].place = "sent" /\ calls[c].kind \in {"move", "edit", "delete"}
      /\ CalendarTypeOK /\ calls[c] \in CallRow
  BY DEF ServeChange, CalendarInv, CalendarTypeOK
<1>3. /\ calls[c].kind \in ChangeKinds /\ calls[c].kind \notin {"none", "create"} /\ e \in Event
      /\ calls[c].date \in Day /\ calls[c].link \in BOOLEAN
      /\ calls[c].kind = "move" => calls[c].link = FALSE
  BY <1>1, <1>2 DEF CallRow, Kinds, Ended, ChangeKinds
<1>4. Concerns(calls[c], e)
  BY <1>1, <1>3 DEF Concerns
<1>5. PICK place \in {"served", "failed"} :
        /\ Place(c, place)
        /\ place = "failed" => UNCHANGED events
        /\ place = "failed" <=> events[e] = Absent
  BY <1>1 DEF ServeChange
<1>6. /\ calls' \in [Call -> CallRow] /\ calls'[c].place = place
      /\ calls'[c].kind = calls[c].kind /\ calls'[c].event = calls[c].event
      /\ calls'[c].date = calls[c].date /\ calls'[c].prior = calls[c].prior
      /\ \A d \in Call : d # c => calls'[d] = calls[d]
  BY <1>2, <1>3, <1>5, PlacedCall DEF CalendarTypeOK
<1>7. PICK row \in Row \cup {Absent} :
        /\ events' = [events EXCEPT ![e] = row]
        /\ place = "failed" => row = events[e]
        /\ place = "served" /\ calls[c].kind = "move" =>
             row = [date |-> calls[c].date, linked |-> events[e].linked]
  <2>1. events[e] \in Row \cup {Absent}
    BY <1>2, <1>3 DEF CalendarTypeOK
  <2>2. CASE place = "failed"
    <3>1. events' = [events EXCEPT ![e] = events[e]]
      BY <1>2, <1>3, <1>5, <2>2 DEF CalendarTypeOK
    <3> QED
      BY <2>1, <2>2, <3>1
  <2>3. CASE place = "served"
    <3>1. events[e] # Absent
      BY <1>5, <2>3
    <3>2. events' = IF calls[c].kind = "delete" THEN Deleted(calls[c]) ELSE Updated(calls[c])
      BY <1>1, <3>1 DEF ServeChange
    <3>3. CASE calls[c].kind = "delete"
      <4>1. events' = [events EXCEPT ![e] = Absent]
        BY <1>1, <3>2, <3>3 DEF Deleted
      <4> QED
        BY <2>3, <3>3, <4>1
    <3>4. CASE calls[c].kind # "delete"
      <4> DEFINE new == [date |-> calls[c].date, linked |-> events[e].linked \/ calls[c].link]
      <4>1. events[e] \in Row
        BY <2>1, <3>1
      <4>2. new \in Row
        BY <1>3, <4>1 DEF Row
      <4>3. events' = Updated(calls[c])
        BY <3>2, <3>4
      <4>4. events' = [events EXCEPT ![e] = new]
        BY <1>1, <1>2, <1>3, <4>3 DEF Updated, CalendarTypeOK
      <4>5. calls[c].kind = "move" => new = [date |-> calls[c].date, linked |-> events[e].linked]
        BY <1>3, <4>1 DEF Row
      <4> HIDE DEF new
      <4> QED
        BY <2>3, <4>2, <4>4, <4>5
    <3> QED
      BY <3>3, <3>4
  <2> QED
    BY <2>2, <2>3
<1>8. /\ events' \in [Event -> Row \cup {Absent}] /\ events'[e] = row
      /\ \A x \in Event : x # e => events'[x] = events[x]
  BY <1>2, <1>3, <1>7 DEF CalendarTypeOK
<1>9. CalendarTypeOK'
  BY <1>2, <1>6, <1>8 DEF CalendarTypeOK, Closed, PopoverRow
<1>10. NewestInv'
  BY <1>2, <1>6 DEF CalendarInv, NewestInv
<1>11. ASSUME NEW x \in Event, x # e PROVE EventInv(x)'
  <2>1. EventInv(x) /\ (Unraced(x)' => Unraced(x))
    BY <1>2 DEF CalendarInv, Unraced
  <2> QED
    BY <1>1, <1>2, <1>6, <1>8, <1>11, <2>1, OthersRest, EventRests
<1>12. EventInv(e)'
  <2> SUFFICES ASSUME Unraced(e)' PROVE EventInv(e)'
    BY DEF EventInv
  <2>1. Unraced(e)
    BY <1>2 DEF Unraced
  <2>2. \A d \in Call : calls[d].kind # "fetch" /\ (Concerns(calls[d], e) => d = c)
    BY <1>3, <1>4, <2>1, AloneFacts
  <2>3. /\ Concerns(calls'[c], e) /\ Alone(e)' /\ FetchedRight(e)'
        /\ \A d \in Call : Concerns(calls'[d], e) => d = c
    BY <1>3, <1>4, <1>6, <2>2, AloneStays
  <2>4. ASSUME ~late, status = "ready" PROVE ShownRight(e)'
    <3>1. /\ ~Dropped(calls[c]) /\ ~Applied(calls[c]) => Agrees(shown, e)
          /\ Dropped(calls[c]) =>
               /\ e \in DOMAIN shown /\ shown[e].date = calls[c].date
               /\ events[e] = [date |-> calls[c].prior, linked |-> shown[e].linked]
      BY <1>3, <1>4, <2>1, <2>4, AloneFacts
    <3>2. CASE calls[c].kind = "move"
      <4>1. /\ e \in DOMAIN shown /\ shown[e].date = calls[c].date
            /\ events[e] = [date |-> calls[c].prior, linked |-> shown[e].linked]
        BY <1>2, <3>1, <3>2 DEF Dropped
      <4>2. shown[e] \in Row
        BY <1>2, <4>1, ShowsFacts DEF CalendarTypeOK
      <4>3. events[e] # Absent
        <5>1. calls[c].prior \in Day /\ shown[e].linked \in BOOLEAN
          BY <1>2, <4>2 DEF CallRow, Row
        <5>2. events[e] \in Row
          BY <4>1, <5>1 DEF Row
        <5> QED
          BY <5>2, AbsentAssumption
      <4>4. place = "served"
        BY <1>5, <3>2, <4>3
      <4>5. row = shown[e]
        BY <1>7, <3>2, <4>1, <4>2, <4>4 DEF Row
      <4>6. ~Dropped(calls'[c])
        BY <1>6, <4>4 DEF Dropped
      <4> QED
        BY <1>2, <1>8, <2>3, <4>1, <4>5, <4>6 DEF ShownRight, Agrees
    <3>3. CASE calls[c].kind # "move" /\ place = "served"
      <4>1. Applied(calls'[c]) /\ ~Dropped(calls'[c])
        BY <1>6, <3>3 DEF Applied, Dropped
      <4> QED
        BY <2>3, <4>1 DEF ShownRight
    <3>4. CASE calls[c].kind # "move" /\ place = "failed"
      <4>1. ~Dropped(calls'[c]) /\ Agrees(shown, e)
        BY <1>2, <1>6, <3>1, <3>4 DEF Dropped, Applied
      <4>2. events'[e] = events[e]
        BY <1>7, <1>8, <3>4
      <4> QED
        BY <1>2, <2>3, <4>1, <4>2 DEF ShownRight, Agrees
    <3> QED
      BY <3>2, <3>3, <3>4
  <2> QED
    BY <1>2, <2>3, <2>4 DEF EventInv
<1> QED
  BY <1>9, <1>10, <1>11, <1>12 DEF CalendarInv

LEMMA ServeFetchKeeps ==
    ASSUME CalendarInv, NEW c \in Call, ServeFetch(c)
    PROVE  CalendarInv'
<1> DEFINE row == [calls[c] EXCEPT !.place = "served", !.data = RangeEvents(calls[c].page)]
<1>1. /\ UNCHANGED <<events, page, status, shown, popover, newest, raced, unheard, foreign, late>>
      /\ calls[c].place = "sent" /\ calls[c].kind = "fetch"
      /\ CalendarTypeOK /\ calls[c] \in CallRow
  BY DEF ServeFetch, CalendarInv, CalendarTypeOK
<1>2. RangeEvents(calls[c].page) \in Shows
  BY <1>1, RangeShows DEF CalendarTypeOK
<1>3. /\ row \in CallRow /\ row.kind = "fetch" /\ row.page = calls[c].page
      /\ row.place = "served" /\ row.data = RangeEvents(calls[c].page)
  BY <1>1, <1>2 DEF CallRow, Kinds, Ended, ChangeKinds
<1>4. calls' = [calls EXCEPT ![c] = row]
  BY <1>1 DEF ServeFetch, CalendarTypeOK
<1> HIDE DEF row
<1>5. /\ calls' \in [Call -> CallRow] /\ calls'[c] = row
      /\ \A d \in Call : d # c => calls'[d] = calls[d]
  BY <1>1, <1>3, <1>4, OneCall DEF CalendarTypeOK
<1>6. CalendarTypeOK'
  BY <1>1, <1>5 DEF CalendarTypeOK, Closed, PopoverRow
<1>7. NewestInv'
  BY <1>1, <1>3, <1>5 DEF CalendarInv, NewestInv
<1>8. ASSUME NEW e \in Event PROVE EventInv(e)'
  <2> SUFFICES ASSUME Unraced(e)' PROVE EventInv(e)'
    BY DEF EventInv
  <2>1. Unraced(e) /\ EventInv(e) /\ Alone(e)
    BY <1>1 DEF Unraced, CalendarInv, EventInv
  <2>2. \A d \in Call : /\ calls'[d].kind = calls[d].kind
                        /\ Concerns(calls'[d], e) <=> Concerns(calls[d], e)
                        /\ Concerns(calls[d], e) => calls'[d] = calls[d]
    BY <1>1, <1>3, <1>5 DEF Concerns, ChangeKinds
  <2>3. Alone(e)'
    BY <2>1, <2>2 DEF Alone
  <2>4. ASSUME ~late, status = "ready" PROVE ShownRight(e)'
    BY <1>1, <2>1, <2>2, <2>4 DEF EventInv, ShownRight, Agrees
  <2>5. FetchedRight(e)'
    <3>1. CASE newest = c
      <4>1. calls[c].page = page
        BY <1>1, <3>1 DEF CalendarInv, NewestInv
      <4>2. calls'[c].data = RangeEvents(page)
        BY <1>3, <1>5, <4>1
      <4>3. /\ e \in DOMAIN RangeEvents(page) <=> events[e] # Absent /\ InPage(events[e].date, page)
            /\ e \in DOMAIN RangeEvents(page) => RangeEvents(page)[e] = events[e]
        BY <1>1, RangeShows DEF CalendarTypeOK
      <4>4. PICK data : data = RangeEvents(page)
        OBVIOUS
      <4> QED
        BY <1>1, <3>1, <4>2, <4>3, <4>4 DEF FetchedRight, Agrees
    <3>2. CASE newest # c
      BY <1>1, <1>5, <2>1, <3>2 DEF EventInv, FetchedRight, Agrees
    <3> QED
      BY <3>1, <3>2
  <2> QED
    BY <1>1, <2>3, <2>4, <2>5 DEF EventInv
<1> QED
  BY <1>6, <1>7, <1>8 DEF CalendarInv

LEMMA LoseKeeps ==
    ASSUME CalendarInv, NEW c \in Call, Lose(c)
    PROVE  CalendarInv'
<1>1. /\ UNCHANGED <<events, page, status, shown, popover, newest, raced, foreign, late>>
      /\ calls[c].place \in {"sent", "served"} /\ Place(c, "failed")
      /\ unheard' = IF calls[c].place = "served" THEN unheard \cup ({calls[c].event} \ {Absent})
                    ELSE unheard
      /\ CalendarTypeOK /\ calls[c] \in CallRow
  BY DEF Lose, CalendarInv, CalendarTypeOK
<1>2. calls[c].kind \in Kinds \ {"none"} /\ calls[c].event \in Event \cup {Absent}
  BY <1>1 DEF CallRow, Ended
<1>3. /\ calls' \in [Call -> CallRow] /\ calls'[c].place = "failed"
      /\ calls'[c].kind = calls[c].kind /\ calls'[c].event = calls[c].event
      /\ calls'[c].date = calls[c].date /\ calls'[c].prior = calls[c].prior
      /\ calls'[c].page = calls[c].page
      /\ \A d \in Call : d # c => calls'[d] = calls[d]
  BY <1>1, <1>2, PlacedCall DEF CalendarTypeOK
<1>4. CalendarTypeOK'
  BY <1>1, <1>2, <1>3 DEF CalendarTypeOK, Closed, PopoverRow
<1>5. NewestInv'
  BY <1>1, <1>3 DEF CalendarInv, NewestInv
<1>6. ASSUME NEW e \in Event PROVE EventInv(e)'
  <2> SUFFICES ASSUME Unraced(e)' PROVE EventInv(e)'
    BY DEF EventInv
  <2>1. Unraced(e) /\ EventInv(e)
    BY <1>1 DEF Unraced, CalendarInv
  <2>2. CASE ~Concerns(calls[c], e)
    <3>1. ~Concerns(calls'[c], e)
      BY <1>3, <2>2 DEF Concerns
    <3>2. \A d \in Call :
            \/ calls'[d] = calls[d]
            \/ /\ ~Concerns(calls[d], e) /\ ~Concerns(calls'[d], e)
               /\ calls'[d].kind = "fetch" => calls[d].kind = "fetch"
               /\ calls'[d].kind = "fetch" => calls'[d].place # "served"
      BY <1>3, <2>2, <3>1
    <3> QED
      BY <1>1, <2>1, <3>2, EventRests
  <2>3. CASE Concerns(calls[c], e)
    <3>1. calls[c].place = "sent"
      BY <1>1, <2>3, AbsentAssumption DEF Unraced, Concerns
    <3>2. \A d \in Call : calls[d].kind # "fetch" /\ (Concerns(calls[d], e) => d = c)
      BY <2>1, <2>3, AloneFacts
    <3>3. /\ Concerns(calls'[c], e) /\ Alone(e)' /\ FetchedRight(e)'
          /\ \A d \in Call : Concerns(calls'[d], e) => d = c
      BY <1>3, <2>3, <3>2, AloneStays
    <3>4. ASSUME ~late, status = "ready" PROVE ShownRight(e)'
      <4>1. /\ ~Dropped(calls[c]) /\ ~Applied(calls[c]) => Agrees(shown, e)
            /\ Dropped(calls[c]) =>
                 /\ e \in DOMAIN shown /\ shown[e].date = calls[c].date
                 /\ events[e] = [date |-> calls[c].prior, linked |-> shown[e].linked]
        BY <2>1, <2>3, <3>4, AloneFacts
      <4>2. /\ Dropped(calls'[c]) <=> Dropped(calls[c])
            /\ ~Applied(calls[c])
        BY <1>3, <3>1 DEF Dropped, Applied
      <4> QED
        BY <1>1, <1>3, <3>3, <4>1, <4>2 DEF ShownRight, Agrees
    <3> QED
      BY <1>1, <3>3, <3>4 DEF EventInv
  <2> QED
    BY <2>2, <2>3
<1> QED
  BY <1>4, <1>5, <1>6 DEF CalendarInv

LEMMA ElsewhereKeeps ==
    ASSUME CalendarInv, NEW e \in Event, Elsewhere(e)
    PROVE  CalendarInv'
<1>1. /\ UNCHANGED <<page, status, shown, popover, calls, newest, raced, unheard, late>>
      /\ foreign' = foreign \cup {e} /\ CalendarTypeOK
  BY DEF Elsewhere, CalendarInv
<1>2. PICK row \in Row \cup {Absent} : events' = [events EXCEPT ![e] = row]
  BY DEF Elsewhere
<1>3. /\ events' \in [Event -> Row \cup {Absent}]
      /\ \A x \in Event : x # e => events'[x] = events[x]
  BY <1>1, <1>2 DEF CalendarTypeOK
<1>4. CalendarTypeOK'
  BY <1>1, <1>3 DEF CalendarTypeOK, Closed, PopoverRow
<1>5. NewestInv'
  BY <1>1 DEF CalendarInv, NewestInv
<1>6. ASSUME NEW x \in Event PROVE EventInv(x)'
  <2>1. CASE x = e
    BY <1>1, <2>1 DEF EventInv, Unraced
  <2>2. CASE x # e
    <3>1. EventInv(x) /\ (Unraced(x)' => Unraced(x))
      BY <1>1 DEF CalendarInv, Unraced
    <3> QED
      BY <1>1, <1>3, <2>2, <3>1, EventRests
  <2> QED
    BY <2>1, <2>2
<1> QED
  BY <1>4, <1>5, <1>6 DEF CalendarInv

-----------------------------------------------------------------------------
(* Answers: the call is done and concerns nothing any more.                *)
LEMMA DoneCall ==
    ASSUME calls \in [Call -> CallRow], NEW c \in Call, calls' = Done(c)
    PROVE  /\ calls' \in [Call -> CallRow] /\ calls'[c].kind = "none"
           /\ \A d \in Call : d # c => calls'[d] = calls[d]
<1> DEFINE row == [Unsent EXCEPT !.place = "done"]
<1>1. row \in CallRow /\ row.kind = "none"
  BY DoneRow
<1>2. calls' = [calls EXCEPT ![c] = row]
  BY DEF Done
<1> HIDE DEF row
<1> QED
  BY <1>1, <1>2, OneCall

LEMMA AnswerFetchKeeps ==
    ASSUME CalendarInv, NEW c \in Call, AnswerFetch(c)
    PROVE  CalendarInv'
<1>1. /\ UNCHANGED <<events, page, popover, newest, unheard, foreign>>
      /\ calls[c].kind = "fetch" /\ calls[c].place \in {"served", "failed"}
      /\ \/ calls[c].place = "served" /\ shown' = calls[c].data /\ status' = "ready"
         \/ status' = "error" /\ UNCHANGED shown
      /\ late' = (c # newest)
      /\ raced' = raced \cup {e \in Event : Changes(e) # {}}
      /\ calls' = Done(c) /\ CalendarTypeOK /\ calls[c] \in CallRow
  BY DEF AnswerFetch, CalendarInv, CalendarTypeOK
<1>2. /\ calls' \in [Call -> CallRow] /\ calls'[c].kind = "none"
      /\ \A d \in Call : d # c => calls'[d] = calls[d]
  BY <1>1, DoneCall DEF CalendarTypeOK
<1>3. shown' \in Shows /\ late' \in BOOLEAN
  BY <1>1 DEF CalendarTypeOK, CallRow
<1>4. CalendarTypeOK'
  BY <1>1, <1>2, <1>3 DEF CalendarTypeOK, Closed, PopoverRow
<1>5. ~late' => newest = c
  BY <1>1
<1>6. NewestInv'
  BY <1>1, <1>2 DEF CalendarInv, NewestInv
<1>7. ASSUME NEW e \in Event PROVE EventInv(e)'
  <2> SUFFICES ASSUME Unraced(e)' PROVE EventInv(e)'
    BY DEF EventInv
  <2>1. Unraced(e) /\ Changes(e) = {} /\ EventInv(e)
    BY <1>1 DEF Unraced, CalendarInv
  <2>2. \A d \in Call : ~Concerns(calls'[d], e)
    <3>1. \A d \in Call : ~Concerns(calls[d], e)
      BY <1>1, <2>1, UnderWay
    <3> QED
      BY <1>2, <3>1 DEF Concerns, ChangeKinds
  <2>3. Alone(e)'
    BY <2>2 DEF Alone
  <2>4. FetchedRight(e)'
    BY <1>1, <1>2, <2>1 DEF EventInv, FetchedRight, Agrees
  <2>5. ASSUME ~late', status' = "ready" PROVE ShownRight(e)'
    <3>1. calls[c].place = "served" /\ shown' = calls[newest].data
      BY <1>1, <1>5, <2>5
    <3>2. Agrees(calls[newest].data, e)
      BY <1>1, <1>5, <2>1, <2>5, <3>1 DEF EventInv, FetchedRight
    <3>3. PICK data : data = calls[newest].data
      OBVIOUS
    <3>4. Agrees(data, e)'
      BY <1>1, <3>2, <3>3 DEF Agrees
    <3>5. Agrees(shown, e)'
      BY <3>1, <3>3, <3>4 DEF Agrees
    <3> QED
      BY <2>2, <3>5 DEF ShownRight
  <2> QED
    BY <2>3, <2>4, <2>5 DEF EventInv
<1> QED
  BY <1>4, <1>6, <1>7 DEF CalendarInv

LEMMA AnswerMoveKeeps ==
    ASSUME CalendarInv, NEW c \in Call, AnswerMove(c)
    PROVE  CalendarInv'
<1>1. PICK e : e = calls[c].event
  OBVIOUS
<1>2. /\ UNCHANGED <<events, page, status, popover, newest, raced, unheard, foreign, late>>
      /\ calls[c].kind = "move" /\ calls[c].place \in {"served", "failed"}
      /\ shown' = IF calls[c].place = "failed" /\ e \in DOMAIN shown
                  THEN [shown EXCEPT ![e].date = calls[c].prior] ELSE shown
      /\ calls' = Done(c) /\ CalendarTypeOK /\ calls[c] \in CallRow
  BY <1>1 DEF AnswerMove, CalendarInv, CalendarTypeOK
<1>3. e \in Event /\ calls[c].prior \in Day /\ Concerns(calls[c], e)
  BY <1>1, <1>2 DEF CallRow, Concerns, ChangeKinds
<1>4. /\ calls' \in [Call -> CallRow] /\ calls'[c].kind = "none"
      /\ \A d \in Call : d # c => calls'[d] = calls[d]
  BY <1>2, DoneCall DEF CalendarTypeOK
<1>5. /\ shown' \in Shows /\ DOMAIN shown' = DOMAIN shown
      /\ \A x \in DOMAIN shown : x # e => shown'[x] = shown[x]
      /\ calls[c].place = "served" => shown' = shown
      /\ calls[c].place = "failed" /\ e \in DOMAIN shown =>
           shown'[e] = [date |-> calls[c].prior, linked |-> shown[e].linked]
  <2>1. CASE calls[c].place = "failed" /\ e \in DOMAIN shown
    BY <1>2, <1>3, <2>1, ShowsMoved DEF CalendarTypeOK
  <2>2. CASE ~(calls[c].place = "failed" /\ e \in DOMAIN shown)
    BY <1>2, <2>2 DEF CalendarTypeOK
  <2> QED
    BY <2>1, <2>2
<1>6. CalendarTypeOK'
  BY <1>2, <1>4, <1>5 DEF CalendarTypeOK, Closed, PopoverRow
<1>7. NewestInv'
  BY <1>2, <1>4 DEF CalendarInv, NewestInv
<1>8. ASSUME NEW x \in Event, x # e PROVE EventInv(x)'
  <2>1. EventInv(x) /\ (Unraced(x)' => Unraced(x))
    BY <1>2 DEF CalendarInv, Unraced
  <2>2. calls[c].event # x /\ calls[c].kind # "fetch"
    BY <1>1, <1>2, <1>8
  <2>3. \A d \in Call :
             \/ calls'[d] = calls[d]
             \/ /\ ~Concerns(calls[d], x) /\ ~Concerns(calls'[d], x)
                /\ calls'[d].kind = "fetch" => calls[d].kind = "fetch"
                /\ calls'[d].kind = "fetch" => calls'[d].place # "served"
    BY <1>4, <2>2, OthersRest
  <2> QED
    BY <1>2, <1>5, <1>8, <2>1, <2>3, EventRests
<1>9. EventInv(e)'
  <2> SUFFICES ASSUME Unraced(e)' PROVE EventInv(e)'
    BY DEF EventInv
  <2>1. Unraced(e)
    BY <1>2 DEF Unraced
  <2>2. \A d \in Call : calls[d].kind # "fetch" /\ (Concerns(calls[d], e) => d = c)
    BY <1>3, <2>1, AloneFacts
  <2>3. \A d \in Call : calls'[d].kind # "fetch" /\ ~Concerns(calls'[d], e)
    BY <1>4, <2>2 DEF Concerns, ChangeKinds
  <2>4. Alone(e)' /\ FetchedRight(e)'
    BY <2>3 DEF Alone, FetchedRight
  <2>5. ASSUME ~late, status = "ready" PROVE ShownRight(e)'
    <3>1. /\ ~Dropped(calls[c]) /\ ~Applied(calls[c]) => Agrees(shown, e)
          /\ Dropped(calls[c]) =>
               /\ e \in DOMAIN shown /\ shown[e].date = calls[c].date
               /\ events[e] = [date |-> calls[c].prior, linked |-> shown[e].linked]
      BY <1>3, <2>1, <2>5, AloneFacts
    <3>2. Agrees(shown, e)'
      <4>1. CASE calls[c].place = "served"
        <5>1. Agrees(shown, e) /\ shown' = shown
          BY <1>2, <1>5, <3>1, <4>1 DEF Dropped, Applied
        <5> QED
          BY <1>2, <5>1 DEF Agrees
      <4>2. CASE calls[c].place = "failed"
        <5>1. e \in DOMAIN shown' /\ events'[e] = shown'[e]
          BY <1>2, <1>5, <3>1, <4>2 DEF Dropped
        <5> QED
          BY <5>1 DEF Agrees
      <4> QED
        BY <1>2, <4>1, <4>2
    <3> QED
      BY <2>3, <3>2 DEF ShownRight
  <2> QED
    BY <1>2, <2>4, <2>5 DEF EventInv
<1> QED
  BY <1>6, <1>7, <1>8, <1>9 DEF CalendarInv

(* A submit that succeeded: its fetch is the newest call.                  *)
LEMMA SubmitDone ==
    ASSUME CalendarInv, NEW c \in Call, NEW fetch \in Call,
           fetch \in Free, calls[c].kind # "none", popover' = Closed,
           UNCHANGED <<events, page, shown, late>>, unheard' = {}, foreign' = {},
           status' = "loading", newest' = fetch,
           calls' = [Done(c) EXCEPT ![fetch] = Fetch(page)],
           raced' = {e \in Event : Changes(e) \ {c} # {}}
    PROVE  CalendarInv'
<1>1. CalendarTypeOK /\ calls \in [Call -> CallRow] /\ page \in Day
  BY DEF CalendarInv, CalendarTypeOK
<1>2. fetch # c
  BY <1>1, UnderWay
<1>3. PICK row \in CallRow : row = Fetch(page) /\ row.kind = "fetch" /\ row.place = "sent"
                             /\ row.page = page
  BY <1>1, FetchRow
<1>4. PICK done \in CallRow : done = [Unsent EXCEPT !.place = "done"] /\ done.kind = "none"
  BY DoneRow
<1>5. calls' = [[calls EXCEPT ![c] = done] EXCEPT ![fetch] = row]
  BY <1>3, <1>4 DEF Done
<1>6. /\ calls' \in [Call -> CallRow] /\ calls'[fetch] = row /\ calls'[c] = done
      /\ \A d \in Call : d \notin {c, fetch} => calls'[d] = calls[d]
  BY <1>1, <1>2, <1>5
<1>7. CalendarTypeOK'
  BY <1>1, <1>6 DEF CalendarTypeOK, Closed, PopoverRow
<1>8. NewestInv'
  BY <1>3, <1>6 DEF NewestInv
<1>9. ASSUME NEW e \in Event PROVE EventInv(e)'
  <2> SUFFICES ASSUME Unraced(e)' PROVE EventInv(e)'
    BY DEF EventInv
  <2>1. Changes(e) \subseteq {c}
    BY DEF Unraced
  <2>2. \A d \in Call : Concerns(calls[d], e) => d = c
    BY <1>1, <2>1, UnderWay
  <2>3. \A d \in Call : ~Concerns(calls'[d], e)
    BY <1>3, <1>4, <1>6, <2>2 DEF Concerns, ChangeKinds
  <2> QED
    BY <1>3, <1>6, <2>3, EventWaits
<1> QED
  BY <1>7, <1>8, <1>9 DEF CalendarInv

LEMMA SubmitRefused ==
    ASSUME CalendarInv, NEW c \in Call, calls[c].kind \in {"edit", "delete", "create"},
           calls[c].place = "failed", calls' = Done(c), popover' \in PopoverRow \cup {Closed},
           UNCHANGED <<events, page, status, shown, newest, raced, unheard, foreign, late>>
    PROVE  CalendarInv'
<1>1. PICK e : e = calls[c].event
  OBVIOUS
<1>2. CalendarTypeOK /\ calls \in [Call -> CallRow] /\ calls[c] \in CallRow
  BY DEF CalendarInv, CalendarTypeOK
<1>3. Concerns(calls[c], e)
  BY <1>1, <1>2 DEF Concerns, ChangeKinds
<1>4. /\ calls' \in [Call -> CallRow] /\ calls'[c].kind = "none"
      /\ \A d \in Call : d # c => calls'[d] = calls[d]
  BY <1>2, DoneCall
<1>5. CalendarTypeOK'
  BY <1>2, <1>4 DEF CalendarTypeOK, Closed, PopoverRow
<1>6. NewestInv'
  BY <1>4 DEF CalendarInv, NewestInv
<1>7. ASSUME NEW x \in Event, x # e PROVE EventInv(x)'
  <2>1. EventInv(x) /\ (Unraced(x)' => Unraced(x))
    BY DEF CalendarInv, Unraced
  <2>2. \A d \in Call :
             \/ calls'[d] = calls[d]
             \/ /\ ~Concerns(calls[d], x) /\ ~Concerns(calls'[d], x)
                /\ calls'[d].kind = "fetch" => calls[d].kind = "fetch"
                /\ calls'[d].kind = "fetch" => calls'[d].place # "served"
    BY <1>1, <1>4, <1>7, OthersRest
  <2> QED
    BY <2>1, <2>2, EventRests
<1>8. ASSUME e \in Event PROVE EventInv(e)'
  <2> SUFFICES ASSUME Unraced(e)' PROVE EventInv(e)'
    BY DEF EventInv
  <2>1. Unraced(e)
    BY DEF Unraced
  <2>2. \A d \in Call : calls[d].kind # "fetch" /\ (Concerns(calls[d], e) => d = c)
    BY <1>3, <1>8, <2>1, AloneFacts
  <2>3. \A d \in Call : calls'[d].kind # "fetch" /\ ~Concerns(calls'[d], e)
    BY <1>4, <2>2 DEF Concerns, ChangeKinds
  <2>4. Alone(e)' /\ FetchedRight(e)'
    BY <2>3 DEF Alone, FetchedRight
  <2>5. ASSUME ~late, status = "ready" PROVE ShownRight(e)'
    <3>1. ~Dropped(calls[c]) /\ ~Applied(calls[c])
      BY DEF Dropped, Applied
    <3>2. Agrees(shown, e)
      BY <1>3, <1>8, <2>1, <2>5, <3>1, AloneFacts
    <3> QED
      BY <2>3, <3>2 DEF ShownRight, Agrees
  <2> QED
    BY <2>4, <2>5 DEF EventInv
<1> QED
  BY <1>5, <1>6, <1>7, <1>8 DEF CalendarInv

LEMMA AnswerSubmitKeeps ==
    ASSUME CalendarInv, NEW c \in Call, NEW fetch \in Call, AnswerSubmit(c, fetch)
    PROVE  CalendarInv'
<1>1. CASE calls[c].place = "served"
  BY <1>1, SubmitDone DEF AnswerSubmit, Afresh
<1>2. CASE calls[c].place = "failed"
  <2>1. popover' \in PopoverRow \cup {Closed}
    <3>1. popover \in PopoverRow \cup {Closed}
      BY DEF CalendarInv, CalendarTypeOK
    <3>2. popover' = popover \/ (popover.busy = c /\ popover' = [popover EXCEPT !.busy = Absent])
      BY <1>2 DEF AnswerSubmit
    <3>3. CASE popover \in PopoverRow
      BY <3>2, <3>3 DEF PopoverRow
    <3>4. CASE popover = Closed
      BY <3>2, <3>4 DEF Closed
    <3> QED
      BY <3>1, <3>3, <3>4
  <2> QED
    BY <1>2, <2>1, SubmitRefused DEF AnswerSubmit
<1> QED
  BY <1>1, <1>2 DEF AnswerSubmit

-----------------------------------------------------------------------------
LEMMA CalendarStep == CalendarInv /\ [Next]_vars => CalendarInv'
<1> SUFFICES ASSUME CalendarInv, [Next]_vars PROVE CalendarInv'
  OBVIOUS
<1>1. ASSUME NEW c \in Call, NEW p \in Page, Navigate(c, p) PROVE CalendarInv'
  BY <1>1, NavigateKeeps
<1>2. ASSUME NEW c \in Call, NEW e \in Event, NEW d \in Day, Move(c, e, d) PROVE CalendarInv'
  BY <1>2, MoveKeeps
<1>3. ASSUME NEW c \in Call, NEW kind \in {"edit", "delete", "create"}, NEW d \in Day,
             NEW link \in BOOLEAN, Submit(c, kind, d, link)
      PROVE  CalendarInv'
  BY <1>3, SubmitKeeps
<1>4. ASSUME NEW c \in Call, NEW e \in Event, ServeCreate(c, e) PROVE CalendarInv'
  BY <1>4, ServeCreateKeeps
<1>5. ASSUME NEW c \in Call, ServeChange(c) \/ ServeFetch(c) \/ Lose(c) PROVE CalendarInv'
  BY <1>5, ServeChangeKeeps, ServeFetchKeeps, LoseKeeps
<1>6. ASSUME NEW c \in Call, AnswerFetch(c) \/ AnswerMove(c) PROVE CalendarInv'
  BY <1>6, AnswerFetchKeeps, AnswerMoveKeeps
<1>7. ASSUME NEW c \in Call, NEW f \in Call, AnswerSubmit(c, f) PROVE CalendarInv'
  BY <1>7, AnswerSubmitKeeps
<1>8. ASSUME NEW e \in Event, Open(e) \/ Elsewhere(e) PROVE CalendarInv'
  BY <1>8, OpenKeeps, ElsewhereKeeps
<1>9. CASE Open(Absent)
  BY <1>9, OpenKeeps
<1>10. CASE Close
  BY <1>10, PopoverKeeps DEF Close
<1>11. CASE UNCHANGED vars
  <2>1. popover' \in PopoverRow \cup {Closed}
    BY <1>11 DEF vars, CalendarInv, CalendarTypeOK
  <2> QED
    BY <1>11, <2>1, PopoverKeeps DEF vars
<1> QED
  BY <1>1, <1>2, <1>3, <1>4, <1>5, <1>6, <1>7, <1>8, <1>9, <1>10, <1>11 DEF Next

(* The invariant holds of every behaviour.                                 *)
THEOREM CalendarInvariance == Spec => []CalendarInv
BY CalendarInvInit, CalendarStep, PTL DEF Spec

(* Every variable keeps its type: a popover that edits is about one event, *)
(* and a creation has none before it is served (CalendarView.tsx).         *)
THEOREM CalendarTypeCorrect == Spec => []CalendarTypeOK
<1>1. CalendarInv => CalendarTypeOK
  BY DEF CalendarInv
<1> QED
  BY CalendarInvariance, <1>1, PTL

(* A tab at rest to which the fetch sent last was the last to answer shows *)
(* what the server has of every event whose changes since that fetch was   *)
(* sent were answered and raced with nothing, and which no other device    *)
(* changed since: each exception ends with the next fetch, whatever order  *)
(* the answers of earlier fetches came in before it (CalendarView.tsx, the *)
(* range effect and rollbackMove).                                         *)
THEOREM SettledTabStaysRight == Spec => []SettledTabIsRight
<1>1. CalendarInv => SettledTabIsRight
  <2> SUFFICES ASSUME CalendarInv, status = "ready", Pending = {}, ~late,
                      NEW e \in Event \ (raced \cup unheard \cup foreign)
               PROVE  /\ e \in DOMAIN shown => events[e] = shown[e]
                      /\ events[e] # Absent /\ InPage(events[e].date, page) => e \in DOMAIN shown
    BY DEF SettledTabIsRight, Settled
  <2>1. CalendarTypeOK /\ ShownRight(e)
    BY DEF CalendarInv, EventInv, Unraced
  <2>2. \A c \in Call : ~Concerns(calls[c], e)
    BY <2>1, UnderWay DEF Concerns, ChangeKinds
  <2> QED
    BY <2>1, <2>2 DEF ShownRight, Agrees
<1> QED
  BY CalendarInvariance, <1>1, PTL

-----------------------------------------------------------------------------
(* Reader.                                                                 *)

(* Runs of chunks.                                                         *)
Chunks(data) == data \in Seq(Nat)
IsRun(data) == \A i \in 1 .. Len(data) : data[i] = data[1] + i - 1
Starts(data, from) == \A i \in 1 .. Len(data) : data[i] = from + i - 1

(* A fetch of a book answers the run from its lower bound, cut off by its  *)
(* limit or by the end of the book.                                        *)
LEMMA WindowOfBook ==
    ASSUME NEW from \in Nat, NEW limit \in Nat, length \in Nat
    PROVE  LET data == ChunkWindow(from, limit) IN
           /\ Chunks(data) /\ Starts(data, from)
           /\ from >= length => Len(data) = 0
           /\ from < length => Len(data) = Least(length - from, limit)
<1> DEFINE n == IF from >= length THEN 0
                ELSE IF length - from < limit THEN length - from ELSE limit
           data == [i \in 1 .. n |-> from + i - 1]
<1>1. n \in Nat /\ data = ChunkWindow(from, limit)
  BY DEF ChunkWindow
<1>2. \A i \in 1 .. n : from + i - 1 \in Nat
  BY <1>1
<1>3. /\ from >= length => n = 0
      /\ from < length => n = Least(length - from, limit)
  BY DEF Least
<1> HIDE DEF n
<1>4. data \in Seq(Nat) /\ Len(data) = n
  BY <1>1, <1>2
<1>5. \A i \in 1 .. Len(data) : data[i] = from + i - 1
  BY <1>4
<1> HIDE DEF data
<1> QED
  BY <1>1, <1>3, <1>4, <1>5 DEF Chunks, Starts

(* In a run the chunks before another form a prefix.                       *)
LEMMA BeforeInRun ==
    ASSUME NEW data, Chunks(data), NEW from \in Nat, Starts(data, from), NEW c \in Nat
    PROVE  /\ Before(data, c) \in 0 .. Len(data)
           /\ \A i \in 1 .. Len(data) : data[i] < c <=> i <= Before(data, c)
<1> DEFINE k == IF c <= from THEN 0
                ELSE IF c - from > Len(data) THEN Len(data) ELSE c - from
<1>1. Len(data) \in Nat
  BY DEF Chunks
<1>2. k \in 0 .. Len(data)
  BY <1>1
<1>3. \A i \in 1 .. Len(data) : data[i] < c <=> i <= k
  BY <1>1 DEF Starts
<1>4. \E j \in 0 .. Len(data) : \A i \in 1 .. Len(data) : data[i] < c <=> i <= j
  BY <1>2, <1>3
<1> QED
  BY <1>4 DEF Before

LEMMA Joined ==
    ASSUME NEW s, Chunks(s), NEW t, Chunks(t)
    PROVE  /\ Chunks(s \o t) /\ Len(s \o t) = Len(s) + Len(t)
           /\ \A i \in 1 .. Len(s) : (s \o t)[i] = s[i]
           /\ \A i \in 1 .. Len(t) : (s \o t)[Len(s) + i] = t[i]
<1>1. /\ s \o t \in Seq(Nat) /\ Len(s \o t) = Len(s) + Len(t)
      /\ \A i \in 1 .. Len(s) + Len(t) :
           (s \o t)[i] = IF i <= Len(s) THEN s[i] ELSE t[i - Len(s)]
  BY ConcatProperties DEF Chunks
<1>2. Len(s) \in Nat /\ Len(t) \in Nat
  BY DEF Chunks
<1> QED
  BY <1>1, <1>2 DEF Chunks

(* A merge at the front: what it adds reaches to the first chunk.          *)
LEMMA MergeInFront ==
    ASSUME Chunks(chunks), IsRun(chunks), Len(chunks) > 0,
           NEW data, Chunks(data), NEW from \in Nat, Starts(data, from),
           Len(data) > 0 => from + Len(data) >= First
    PROVE  LET merged == mergeWindow(data, "prepend") IN
           /\ Chunks(merged) /\ IsRun(merged) /\ Len(merged) >= Len(chunks)
           /\ merged[1] <= First /\ merged[Len(merged)] = Last
           /\ \A c : Holds(chunks, c) => Holds(merged, c)
<1> DEFINE k == Before(data, First)
           fresh == SubSeq(data, 1, k)
           merged == fresh \o chunks
<1>1. Len(data) \in Nat /\ Len(chunks) \in Nat /\ First \in Nat
  BY DEF Chunks, First
<1>2. /\ k \in 0 .. Len(data)
      /\ \A i \in 1 .. Len(data) : data[i] < First <=> i <= k
  BY <1>1, BeforeInRun
<1> HIDE DEF k
<1>3. /\ fresh \in Seq(Nat) /\ Len(fresh) = k
      /\ \A i \in 1 .. k : fresh[i] = from + i - 1
  BY <1>1, <1>2 DEF Chunks, Starts
<1>4. k > 0 => from + k = First
  <2> SUFFICES ASSUME k > 0 PROVE from + k = First
    OBVIOUS
  <2>1. data[k] < First /\ data[k] = from + k - 1
    BY <1>1, <1>2 DEF Starts
  <2>2. CASE k = Len(data)
    BY <1>1, <1>2, <2>1, <2>2
  <2>3. CASE k < Len(data)
    <3>1. ~(data[k + 1] < First) /\ data[k + 1] = from + k
      BY <1>1, <1>2, <2>3 DEF Starts
    <3> QED
      BY <1>1, <1>2, <2>1, <3>1
  <2> QED
    BY <1>1, <1>2, <2>2, <2>3
<1> HIDE DEF fresh
<1>5. /\ merged \in Seq(Nat) /\ Len(merged) = k + Len(chunks)
      /\ \A i \in 1 .. k : merged[i] = fresh[i]
      /\ \A i \in 1 .. Len(chunks) : merged[k + i] = chunks[i]
  <2>1. Chunks(fresh)
    BY <1>3 DEF Chunks
  <2>2. /\ Chunks(merged) /\ Len(merged) = Len(fresh) + Len(chunks)
        /\ \A i \in 1 .. Len(fresh) : merged[i] = fresh[i]
        /\ \A i \in 1 .. Len(chunks) : merged[Len(fresh) + i] = chunks[i]
    BY <2>1, Joined
  <2> HIDE DEF merged
  <2> QED
    BY <1>3, <2>2 DEF Chunks
<1>6. mergeWindow(data, "prepend") = merged
  BY DEF mergeWindow, fresh, k
<1> HIDE DEF merged
<1>7. \A i \in 1 .. Len(merged) : merged[i] = First - k + i - 1
  <2> SUFFICES ASSUME NEW i \in 1 .. Len(merged) PROVE merged[i] = First - k + i - 1
    OBVIOUS
  <2>1. CASE i <= k
    <3>1. i \in 1 .. k
      BY <1>1, <1>2, <1>5, <2>1
    <3> QED
      BY <1>1, <1>2, <1>3, <1>4, <1>5, <3>1
  <2>2. CASE i > k
    <3>1. i - k \in 1 .. Len(chunks) /\ k + (i - k) = i
      BY <1>1, <1>2, <1>5, <2>2
    <3>2. merged[i] = chunks[i - k]
      BY <1>5, <3>1
    <3>3. chunks[i - k] = First + (i - k) - 1
      BY <3>1 DEF IsRun, First
    <3> QED
      BY <1>1, <1>2, <3>1, <3>2, <3>3
  <2> QED
    BY <1>1, <1>2, <2>1, <2>2
<1>8. IsRun(merged) /\ merged[1] = First - k
  BY <1>1, <1>2, <1>5, <1>7 DEF IsRun
<1>9. /\ Chunks(merged) /\ Len(merged) >= Len(chunks)
      /\ merged[1] <= First /\ merged[Len(merged)] = Last
  <2>1. Len(merged) >= Len(chunks) /\ First - k <= First
    BY <1>1, <1>2, <1>5
  <2>2. Len(chunks) \in 1 .. Len(chunks)
    BY <1>1
  <2>3. merged[k + Len(chunks)] = chunks[Len(chunks)]
    BY <1>5, <2>2
  <2> QED
    BY <1>5, <1>8, <2>1, <2>3 DEF Chunks, Last
<1>10. ASSUME NEW c, Holds(chunks, c) PROVE Holds(merged, c)
  <2>1. PICK i \in 1 .. Len(chunks) : chunks[i] = c
    BY <1>10 DEF Holds
  <2>2. k + i \in 1 .. Len(merged) /\ merged[k + i] = c
    BY <1>1, <1>2, <1>5, <2>1
  <2> QED
    BY <2>2 DEF Holds
<1> QED
  BY <1>6, <1>8, <1>9, <1>10

(* A merge at the back: what it adds begins after the last chunk.          *)
LEMMA MergeBehind ==
    ASSUME Chunks(chunks), IsRun(chunks), Len(chunks) > 0,
           NEW data, Chunks(data), NEW from \in Nat, Starts(data, from), from <= Last + 1
    PROVE  LET merged == mergeWindow(data, "append") IN
           /\ Chunks(merged) /\ IsRun(merged) /\ Len(merged) >= Len(chunks)
           /\ merged[1] = First
           /\ merged[Len(merged)] =
                IF from + Len(data) > Last + 1 THEN from + Len(data) - 1 ELSE Last
           /\ \A c : Holds(chunks, c) => Holds(merged, c)
<1> DEFINE n == Len(chunks)
           k == Before(data, Last + 1)
           fresh == SubSeq(data, k + 1, Len(data))
           merged == chunks \o fresh
<1>1. Len(data) \in Nat /\ n \in Nat /\ First \in Nat /\ Last \in Nat
  BY DEF Chunks, First, Last
<1>2. Last = First + n - 1
  BY <1>1 DEF IsRun, First, Last
<1>3. /\ k \in 0 .. Len(data)
      /\ \A i \in 1 .. Len(data) : data[i] < Last + 1 <=> i <= k
  <2>1. Last + 1 \in Nat
    BY <1>1
  <2> QED
    BY <2>1, BeforeInRun
<1> HIDE DEF k
<1>4. /\ fresh \in Seq(Nat) /\ Len(fresh) = Len(data) - k
      /\ \A i \in 1 .. Len(data) - k : fresh[i] = from + k + i - 1
  BY <1>1, <1>3 DEF Chunks, Starts
<1>5. /\ k < Len(data) => from + k = Last + 1
      /\ k = Len(data) => from + k <= Last + 1
  <2>1. k > 0 => data[k] < Last + 1 /\ data[k] = from + k - 1
    BY <1>1, <1>3 DEF Starts
  <2>2. k < Len(data) => ~(data[k + 1] < Last + 1) /\ data[k + 1] = from + k
    BY <1>1, <1>3 DEF Starts
  <2> QED
    BY <1>1, <1>3, <2>1, <2>2
<1> HIDE DEF fresh
<1>6. /\ merged \in Seq(Nat) /\ Len(merged) = n + (Len(data) - k)
      /\ \A i \in 1 .. n : merged[i] = chunks[i]
      /\ \A i \in 1 .. Len(data) - k : merged[n + i] = fresh[i]
  <2>1. Chunks(fresh)
    BY <1>4 DEF Chunks
  <2>2. /\ Chunks(merged) /\ Len(merged) = n + Len(fresh)
        /\ \A i \in 1 .. n : merged[i] = chunks[i]
        /\ \A i \in 1 .. Len(fresh) : merged[n + i] = fresh[i]
    BY <2>1, Joined
  <2> HIDE DEF merged
  <2> QED
    BY <1>4, <2>2 DEF Chunks
<1>7. mergeWindow(data, "append") = merged
  BY DEF mergeWindow, fresh, k
<1> HIDE DEF merged
<1>8. \A i \in 1 .. n : chunks[i] = First + i - 1
  BY DEF IsRun, First
<1> HIDE DEF n
<1>9. \A i \in 1 .. Len(merged) : merged[i] = First + i - 1
  <2> SUFFICES ASSUME NEW i \in 1 .. Len(merged) PROVE merged[i] = First + i - 1
    OBVIOUS
  <2>1. CASE i <= n
    BY <1>1, <1>6, <1>8, <2>1
  <2>2. CASE i > n
    <3>1. i - n \in 1 .. Len(data) - k /\ n + (i - n) = i
      BY <1>1, <1>3, <1>6, <2>2
    <3>2. merged[i] = fresh[i - n] /\ fresh[i - n] = from + k + (i - n) - 1
      BY <1>4, <1>6, <3>1
    <3> QED
      BY <1>1, <1>2, <1>3, <1>5, <3>1, <3>2
  <2> QED
    BY <1>1, <1>6, <2>1, <2>2
<1>10. n > 0
  BY DEF n
<1>11. IsRun(merged) /\ merged[1] = First
  BY <1>1, <1>3, <1>6, <1>9, <1>10 DEF IsRun
<1>12. merged[Len(merged)] = IF from + Len(data) > Last + 1 THEN from + Len(data) - 1 ELSE Last
  <2>1. Len(merged) \in 1 .. Len(merged)
    BY <1>1, <1>3, <1>6, <1>10
  <2>2. merged[Len(merged)] = First + (n + (Len(data) - k)) - 1
    BY <1>6, <1>9, <2>1
  <2>3. k \in Nat /\ k <= Len(data)
    BY <1>1, <1>3
  <2> QED
    BY <1>1, <1>2, <1>5, <2>2, <2>3
<1>13. ASSUME NEW c, Holds(chunks, c) PROVE Holds(merged, c)
  <2>1. PICK i \in 1 .. n : chunks[i] = c
    BY <1>13 DEF Holds, n
  <2>2. i \in 1 .. Len(merged) /\ merged[i] = c
    BY <1>1, <1>3, <1>6, <2>1
  <2> QED
    BY <2>2 DEF Holds
<1>14. Chunks(merged) /\ Len(merged) >= n
  BY <1>1, <1>3, <1>6 DEF Chunks
<1> QED
  BY <1>7, <1>11, <1>12, <1>13, <1>14 DEF n

-----------------------------------------------------------------------------
(* The inductive invariant.  A fetch of the present epoch has bounds that  *)
(* still fit the window, which may have grown since; one read of the       *)
(* position belongs to the present target, while its opening waits for it, *)
(* and what any read found is still what the server has; the position that *)
(* the tab takes for saved is right until a PUT that was served is         *)
(* answered.                                                               *)
Index == Nat \cup {None}
Stages == {"position", "restored", "window", "ready", "notFound", "empty", "error"}
Opening == [stage : Stages, target : Index]
AskRow == [kind : {"none", "put", "read", "prepend", "append"}, from : Index, limit : Nat,
           stale : BOOLEAN, served : BOOLEAN]

ReaderTypeOK ==
    /\ length \in Index /\ saved \in Index /\ at \in Index /\ lastSent \in Index
    /\ opening \in Opening /\ Chunks(chunks) /\ asks \in [Ask -> AskRow]
    /\ atEnd \in BOOLEAN /\ settling \in BOOLEAN /\ fetchingEdge \in BOOLEAN
    /\ crossing \in BOOLEAN /\ unsure \in BOOLEAN

Reading == opening.stage = "ready"

WindowInv ==
    /\ settling => Reading
    /\ Reading => /\ length \in Nat /\ Len(chunks) > 0 /\ IsRun(chunks)
                  /\ Last < length /\ Holds(chunks, at)
                  /\ atEnd => Last = length - 1

Fits(ask) ==
    /\ ask.kind = "prepend" /\ ~ask.stale =>
         Reading /\ ask.from \in Nat /\ ask.from + ask.limit >= First /\ ask.from + ask.limit <= length
    /\ ask.kind = "append" /\ ~ask.stale =>
         Reading /\ ask.from \in Nat /\ ask.from <= Last + 1 /\ ask.limit = WINDOW_LIMIT

EdgeInv == \A a \in Ask : Fits(asks[a])

ReadInv ==
    \A a \in Reads : ~asks[a].stale =>
      opening.stage = "restored" /\ \A b \in Reads : ~asks[b].stale => a = b

PositionInv ==
    ~crossing /\ ~unsure =>
      /\ \A a \in Puts, b \in Puts : a = b
      /\ Puts # {} => Reads = {}
      /\ \A a \in Reads : asks[a].from = saved
      /\ \A a \in Puts : asks[a].served => saved = asks[a].from
      /\ (\A a \in Puts : ~asks[a].served) => lastSent \in {None, saved}

ReaderInv == ReaderTypeOK /\ WindowInv /\ EdgeInv /\ ReadInv /\ PositionInv

(* Rows of calls.                                                          *)
LEMMA SilentRow == Silent \in AskRow /\ Silent.kind = "none" /\ Silent.served = FALSE
<1>1. 0 \in Nat
  OBVIOUS
<1> QED
  BY <1>1 DEF Silent, AskRow, Index

LEMMA ReaderInvInit == ReaderInit => ReaderInv
<1> SUFFICES ASSUME ReaderInit PROVE ReaderInv
  OBVIOUS
<1>1. MaxLength \in Nat /\ 0 .. MaxLength \subseteq Nat /\ 0 .. MaxLength + 1 \subseteq Nat
  BY WindowAssumption
<1>2. PICK c \in 0 .. MaxLength + 1 \cup {None} :
        opening = [stage |-> IF c = None THEN "position" ELSE "window", target |-> c]
  BY DEF ReaderInit
<1>3. opening \in Opening /\ opening.stage \in {"position", "window"}
  BY <1>1, <1>2 DEF Opening, Stages, Index
<1>4. asks \in [Ask -> AskRow] /\ \A a \in Ask : asks[a].kind = "none"
  BY SilentRow DEF ReaderInit
<1>5. Chunks(chunks)
  BY DEF ReaderInit, Chunks
<1>6. /\ length \in Index /\ saved \in Index /\ at \in Index /\ lastSent \in Index
      /\ lastSent = None
  BY <1>1 DEF ReaderInit, Index
<1>7. Puts = {} /\ Reads = {}
  BY <1>4 DEF Puts, Reads
<1>8. ReaderTypeOK
  BY <1>3, <1>4, <1>5, <1>6 DEF ReaderTypeOK, ReaderInit
<1>9. WindowInv
  BY <1>3 DEF WindowInv, Reading, ReaderInit
<1>10. EdgeInv
  BY <1>4 DEF EdgeInv, Fits
<1>11. PositionInv /\ ReadInv
  BY <1>6, <1>7 DEF PositionInv, ReadInv
<1> QED
  BY <1>8, <1>9, <1>10, <1>11 DEF ReaderInv

-----------------------------------------------------------------------------
(* What a step leaves alone.                                               *)
LEMMA WindowRests ==
    ASSUME WindowInv, UNCHANGED <<length, opening, chunks, atEnd, at>>, settling' => Reading
    PROVE  WindowInv'
  BY DEF WindowInv, Reading, First, Last, IsRun, Holds

LEMMA FitsRests ==
    ASSUME NEW ask, Fits(ask), UNCHANGED <<length, opening, chunks>>
    PROVE  Fits(ask)'
  BY DEF Fits, Reading, First, Last

LEMMA NoEdgeFits ==
    ASSUME NEW ask, ask.kind \notin {"prepend", "append"} \/ ask.stale
    PROVE  Fits(ask)
  BY DEF Fits

(* A step that changes one call.                                           *)
LEMMA OneAsk ==
    ASSUME asks \in [Ask -> AskRow], NEW a \in Ask, NEW row \in AskRow,
           asks' = [asks EXCEPT ![a] = row]
    PROVE  /\ asks' \in [Ask -> AskRow]
           /\ asks'[a] = row /\ \A b \in Ask : b # a => asks'[b] = asks[b]
  OBVIOUS

LEMMA EdgesRest ==
    ASSUME EdgeInv, UNCHANGED <<length, opening, chunks>>,
           \A b \in Ask : asks'[b] = asks[b] \/ asks'[b].kind \in {"none", "put", "read"}
    PROVE  EdgeInv'
<1> SUFFICES ASSUME NEW b \in Ask PROVE Fits(asks[b])'
  BY DEF EdgeInv
<1>1. CASE asks'[b] = asks[b]
  <2>1. Fits(asks[b])
    BY DEF EdgeInv
  <2> QED
    BY <1>1, <2>1 DEF Fits, Reading, First, Last
<1>2. CASE asks'[b].kind \in {"none", "put", "read"}
  BY <1>2 DEF Fits
<1> QED
  BY <1>1, <1>2

LEMMA PositionRests ==
    ASSUME PositionInv, UNCHANGED <<saved, lastSent, crossing, unsure>>,
           Puts' = Puts, Reads' = Reads, \A a \in Puts \cup Reads : asks'[a] = asks[a]
    PROVE  PositionInv'
  BY DEF PositionInv

LEMMA ReadsRest ==
    ASSUME ReadInv, opening' = opening,
           \A b \in Ask : asks'[b] = asks[b] \/ asks'[b].kind # "read"
    PROVE  ReadInv'
<1>1. \A b \in Reads' : b \in Reads /\ asks'[b] = asks[b]
  BY DEF Reads
<1> QED
  BY <1>1 DEF ReadInv

(* No read belongs to the present target unless its opening waits for it.  *)
LEMMA NoReadYet ==
    ASSUME ReadInv, opening.stage # "restored",
           \A b \in Ask : asks'[b] = asks[b] \/ asks'[b].kind # "read"
    PROVE  ReadInv'
<1>1. \A b \in Reads' : b \in Reads /\ asks'[b] = asks[b]
  BY DEF Reads
<1> QED
  BY <1>1 DEF ReadInv

-----------------------------------------------------------------------------
(* The position.                                                           *)
LEMMA PersistKeeps ==
    ASSUME ReaderInv, NEW a \in Ask, persist(a), Reading,
           settling' = FALSE,
           UNCHANGED <<serverVars, opening, chunks, atEnd, at, fetchingEdge, unsure>>
    PROVE  ReaderInv'
<1>1. UNCHANGED <<length, saved, lastSent>>
  BY DEF serverVars, persist
<1>2. WindowInv'
  BY <1>1, WindowRests DEF ReaderInv
<1>3. CASE UNCHANGED <<asks, crossing>>
  <2>1. EdgeInv'
    BY <1>1, <1>3, EdgesRest DEF ReaderInv
  <2>2. PositionInv'
    BY <1>1, <1>3, PositionRests DEF ReaderInv, Puts, Reads
  <2>3. ReadInv'
    BY <1>3, ReadsRest DEF ReaderInv
  <2> QED
    BY <1>1, <1>2, <1>3, <2>1, <2>2, <2>3 DEF ReaderInv, ReaderTypeOK, Chunks
<1>4. CASE lastSent # at
  <2> DEFINE row == [Silent EXCEPT !.kind = "put", !.from = at]
  <2>1. a \in Quiet /\ asks' = [asks EXCEPT ![a] = row] /\ crossing' = (crossing \/ Puts \cup Reads # {})
    BY <1>4 DEF persist
  <2>2. at \in Index
    BY DEF ReaderInv, ReaderTypeOK
  <2>3. row \in AskRow /\ row.kind = "put" /\ row.served = FALSE
    BY <2>2, SilentRow DEF AskRow
  <2>4. asks[a].kind = "none"
    BY <2>1, SilentRow DEF Quiet
  <2> HIDE DEF row
  <2>5. /\ asks' \in [Ask -> AskRow]
        /\ asks'[a] = row /\ \A b \in Ask : b # a => asks'[b] = asks[b]
    BY <2>1, <2>3, OneAsk DEF ReaderInv, ReaderTypeOK
  <2>6. crossing' \in BOOLEAN
    BY <2>1 DEF ReaderInv, ReaderTypeOK
  <2>7. ReaderTypeOK'
    BY <1>1, <2>5, <2>6 DEF ReaderInv, ReaderTypeOK, Chunks
  <2>8. EdgeInv'
    <3>1. \A b \in Ask : asks'[b] = asks[b] \/ asks'[b].kind = "put"
      BY <2>3, <2>5
    <3> QED
      BY <1>1, <3>1, EdgesRest DEF ReaderInv
  <2>9. PositionInv'
    <3> SUFFICES ASSUME ~crossing', ~unsure' PROVE PositionInv'
      BY DEF PositionInv
    <3>1. ~crossing /\ ~unsure /\ Puts = {} /\ Reads = {}
      BY <2>1
    <3>2. Puts' = {a} /\ Reads' = {}
      BY <2>3, <2>5, <3>1 DEF Puts, Reads
    <3>3. lastSent \in {None, saved}
      BY <3>1 DEF ReaderInv, PositionInv
    <3> QED
      BY <1>1, <2>3, <2>5, <3>2, <3>3 DEF PositionInv
  <2>10. ReadInv'
    BY <2>3, <2>5, ReadsRest DEF ReaderInv
  <2> QED
    BY <1>2, <2>7, <2>8, <2>9, <2>10 DEF ReaderInv
<1> QED
  BY <1>3, <1>4 DEF persist

LEMMA ScrollKeeps ==
    ASSUME ReaderInv, NEW c \in Nat, Scroll(c)
    PROVE  ReaderInv'
<1>1. UNCHANGED <<length, saved>> /\ Reading /\ Holds(chunks, c)
  BY DEF serverVars, Scroll, Reading
<1>2. WindowInv'
  BY <1>1 DEF Scroll, ReaderInv, WindowInv, Reading, First, Last, IsRun, Holds
<1>3. EdgeInv'
  BY <1>1, EdgesRest DEF Scroll, ReaderInv
<1>4. PositionInv'
  BY <1>1, PositionRests DEF Scroll, ReaderInv, Puts, Reads
<1>5. ReaderTypeOK'
  BY <1>1 DEF Scroll, ReaderInv, ReaderTypeOK, Chunks, Index
<1>6. ReadInv'
  BY ReadsRest DEF Scroll, ReaderInv
<1> QED
  BY <1>2, <1>3, <1>4, <1>5, <1>6 DEF ReaderInv

LEMMA ServePutKeeps ==
    ASSUME ReaderInv, NEW a \in Ask, ServePut(a)
    PROVE  ReaderInv'
<1> DEFINE row == [asks[a] EXCEPT !.served = TRUE]
<1>1. /\ UNCHANGED <<length, opening, chunks, atEnd, at, settling, lastSent, fetchingEdge,
                     crossing, unsure>>
      /\ asks[a].kind = "put" /\ saved' = asks[a].from
      /\ asks' = [asks EXCEPT ![a].served = TRUE] /\ asks \in [Ask -> AskRow]
  BY DEF ServePut, Puts, placeVars, ReaderInv, ReaderTypeOK
<1>2. row \in AskRow /\ row.kind = "put" /\ row.served = TRUE /\ row.from = asks[a].from
  BY <1>1 DEF AskRow
<1>3. asks' = [asks EXCEPT ![a] = row]
  BY <1>1
<1> HIDE DEF row
<1>4. /\ asks' \in [Ask -> AskRow]
      /\ asks'[a] = row /\ \A b \in Ask : b # a => asks'[b] = asks[b]
  BY <1>1, <1>2, <1>3, OneAsk
<1>5. saved' \in Index
  BY <1>1 DEF AskRow, Index
<1>6. ReaderTypeOK'
  BY <1>1, <1>4, <1>5 DEF ReaderInv, ReaderTypeOK, Chunks
<1>7. WindowInv'
  <2>1. settling' => Reading
    BY <1>1 DEF ReaderInv, WindowInv
  <2> QED
    BY <1>1, <2>1, WindowRests DEF ReaderInv
<1>8. EdgeInv'
  <2>1. \A b \in Ask : asks'[b] = asks[b] \/ asks'[b].kind = "put"
    BY <1>2, <1>4
  <2> QED
    BY <1>1, <2>1, EdgesRest DEF ReaderInv
<1>9. PositionInv'
  <2> SUFFICES ASSUME ~crossing, ~unsure PROVE PositionInv'
    BY <1>1 DEF PositionInv
  <2>1. a \in Puts /\ \A b \in Puts : b = a
    BY <1>1 DEF ReaderInv, PositionInv, Puts
  <2>2. Reads = {}
    BY <2>1 DEF ReaderInv, PositionInv
  <2>3. Puts' = {a} /\ Reads' = {}
    BY <1>2, <1>4, <2>1, <2>2 DEF Puts, Reads
  <2> QED
    BY <1>1, <1>2, <1>4, <2>3 DEF PositionInv
<1>10. ReadInv'
  BY <1>1, <1>2, <1>4, ReadsRest DEF ReaderInv
<1> QED
  BY <1>6, <1>7, <1>8, <1>9, <1>10 DEF ReaderInv

LEMMA EndPutKeeps ==
    ASSUME ReaderInv, NEW a \in Ask, AnswerPut(a) \/ LosePut(a)
    PROVE  ReaderInv'
<1>1. /\ UNCHANGED <<length, saved, opening, chunks, atEnd, at, settling, fetchingEdge, crossing>>
      /\ asks[a].kind = "put"
      /\ asks' = [asks EXCEPT ![a] = Silent] /\ asks \in [Ask -> AskRow]
  BY DEF AnswerPut, LosePut, Puts, serverVars, placeVars, ReaderInv, ReaderTypeOK
<1>2. /\ asks' \in [Ask -> AskRow]
      /\ asks'[a] = Silent /\ \A b \in Ask : b # a => asks'[b] = asks[b]
  BY <1>1, SilentRow, OneAsk
<1>3. lastSent' \in Index /\ unsure' \in BOOLEAN
  BY <1>1 DEF AnswerPut, LosePut, placeVars, AskRow, Index, ReaderInv, ReaderTypeOK
<1>4. ReaderTypeOK'
  BY <1>1, <1>2, <1>3 DEF ReaderInv, ReaderTypeOK, Chunks
<1>5. WindowInv'
  <2>1. settling' => Reading
    BY <1>1 DEF ReaderInv, WindowInv
  <2> QED
    BY <1>1, <2>1, WindowRests DEF ReaderInv
<1>6. EdgeInv'
  <2>1. \A b \in Ask : asks'[b] = asks[b] \/ asks'[b].kind = "none"
    BY <1>2, SilentRow
  <2> QED
    BY <1>1, <2>1, EdgesRest DEF ReaderInv
<1>7. PositionInv'
  <2> SUFFICES ASSUME ~crossing, ~unsure' PROVE PositionInv'
    BY <1>1 DEF PositionInv
  <2>1. ~unsure
    BY DEF AnswerPut, LosePut
  <2>2. a \in Puts /\ \A b \in Puts : b = a
    BY <1>1, <2>1 DEF ReaderInv, PositionInv, Puts
  <2>3. Puts' = {} /\ Reads' = {}
    <3>1. Reads = {}
      BY <2>1, <2>2 DEF ReaderInv, PositionInv
    <3> QED
      BY <1>2, <2>2, <3>1, SilentRow DEF Puts, Reads
  <2>4. lastSent' \in {None, saved}
    <3>1. CASE AnswerPut(a)
      BY <2>1, <2>2, <3>1 DEF AnswerPut, ReaderInv, PositionInv
    <3>2. CASE LosePut(a)
      <4>1. lastSent' = lastSent /\ ~asks[a].served
        BY <3>2 DEF LosePut, placeVars
      <4> QED
        BY <2>1, <2>2, <4>1 DEF ReaderInv, PositionInv
    <3> QED
      BY <3>1, <3>2
  <2> QED
    BY <1>1, <2>3, <2>4 DEF PositionInv
<1>8. ReadInv'
  BY <1>1, <1>2, SilentRow, ReadsRest DEF ReaderInv
<1> QED
  BY <1>4, <1>5, <1>6, <1>7, <1>8 DEF ReaderInv

LEMMA PutElsewhereKeeps ==
    ASSUME ReaderInv, NEW c \in Nat, PutElsewhere(c)
    PROVE  ReaderInv'
<1>1. /\ UNCHANGED <<length, opening, chunks, atEnd, at, settling, lastSent, fetchingEdge, asks,
                     crossing>>
      /\ saved' = c /\ unsure' = TRUE
  BY DEF PutElsewhere, placeVars
<1>2. ReaderTypeOK'
  BY <1>1 DEF ReaderInv, ReaderTypeOK, Chunks, Index
<1>3. WindowInv'
  <2>1. settling' => Reading
    BY <1>1 DEF ReaderInv, WindowInv
  <2> QED
    BY <1>1, <2>1, WindowRests DEF ReaderInv
<1>4. EdgeInv'
  BY <1>1, EdgesRest DEF ReaderInv
<1>5. PositionInv'
  BY <1>1 DEF PositionInv
<1>6. ReadInv'
  BY <1>1, ReadsRest DEF ReaderInv
<1> QED
  BY <1>2, <1>3, <1>4, <1>5, <1>6 DEF ReaderInv

-----------------------------------------------------------------------------
(* The initial load: as long as nothing is shown, no edge fetch counts.    *)
LEMMA NoEdgeYet ==
    ASSUME EdgeInv, ~Reading,
           \A b \in Ask : asks'[b] = asks[b] \/ asks'[b].kind \in {"none", "read"}
    PROVE  EdgeInv'
<1> SUFFICES ASSUME NEW b \in Ask PROVE Fits(asks[b])'
  BY DEF EdgeInv
<1>1. asks[b].kind \notin {"prepend", "append"} \/ asks[b].stale
  BY DEF EdgeInv, Fits
<1> QED
  BY <1>1 DEF Fits

LEMMA ReadPositionKeeps ==
    ASSUME ReaderInv, NEW a \in Ask, ReadPosition(a)
    PROVE  ReaderInv'
<1>1. /\ UNCHANGED <<length, saved, chunks, atEnd, at, settling, lastSent, fetchingEdge, unsure>>
      /\ opening.stage = "position"
  BY DEF ReadPosition, serverVars, placeVars
<1>2. ~Reading /\ ~settling
  BY <1>1 DEF Reading, ReaderInv, WindowInv
<1>3. opening' \in Opening /\ opening'.stage \in {"notFound", "window", "restored"}
  BY DEF ReadPosition, Stage, Opening, Stages, Index
<1>4. WindowInv'
  BY <1>1, <1>2, <1>3 DEF WindowInv, Reading
<1>5. CASE UNCHANGED <<asks, crossing>>
  <2>1. ReaderTypeOK'
    BY <1>1, <1>3, <1>5 DEF ReaderInv, ReaderTypeOK, Chunks
  <2>2. EdgeInv' /\ ReadInv'
    BY <1>1, <1>2, <1>5, NoEdgeYet, NoReadYet DEF ReaderInv
  <2>3. PositionInv'
    BY <1>1, <1>5, PositionRests DEF ReaderInv, Puts, Reads
  <2> QED
    BY <1>4, <2>1, <2>2, <2>3 DEF ReaderInv
<1>6. CASE /\ a \in Quiet /\ Stage("restored", None) /\ crossing' = (crossing \/ Puts # {})
           /\ asks' = [asks EXCEPT ![a] = [Silent EXCEPT !.kind = "read", !.from = saved]]
  <2> DEFINE row == [Silent EXCEPT !.kind = "read", !.from = saved]
  <2>1. /\ row \in AskRow /\ row.kind = "read" /\ row.from = saved
        /\ asks' = [asks EXCEPT ![a] = row]
    BY <1>6, SilentRow DEF ReaderInv, ReaderTypeOK, AskRow
  <2> HIDE DEF row
  <2>2. /\ asks' \in [Ask -> AskRow]
        /\ asks'[a] = row /\ \A b \in Ask : b # a => asks'[b] = asks[b]
    BY <2>1, OneAsk DEF ReaderInv, ReaderTypeOK
  <2>3. crossing' \in BOOLEAN
    BY <1>6 DEF ReaderInv, ReaderTypeOK
  <2>4. ReaderTypeOK'
    BY <1>1, <1>3, <2>2, <2>3 DEF ReaderInv, ReaderTypeOK, Chunks
  <2>5. EdgeInv'
    BY <1>2, <2>1, <2>2, NoEdgeYet DEF ReaderInv
  <2>6. asks[a].kind = "none"
    BY <1>6, SilentRow DEF Quiet
  <2>7. Reads' = Reads \cup {a} /\ Puts' = Puts
    BY <2>1, <2>2, <2>6 DEF Reads, Puts
  <2>8. \A b \in Reads : asks'[b] = asks[b] /\ b \in Ask
    BY <2>2, <2>6 DEF Reads
  <2>9. ReadInv'
    <3>1. \A b \in Reads : asks[b].stale
      BY <1>1 DEF ReaderInv, ReadInv
    <3>2. \A b \in Reads' : ~asks'[b].stale => b = a
      BY <2>7, <2>8, <3>1
    <3>3. opening'.stage = "restored"
      BY <1>6 DEF Stage
    <3> QED
      BY <3>2, <3>3 DEF ReadInv
  <2>10. PositionInv'
    <3> SUFFICES ASSUME ~crossing', ~unsure' PROVE PositionInv'
      BY DEF PositionInv
    <3>1. ~crossing /\ ~unsure /\ Puts = {}
      BY <1>1, <1>6
    <3>2. lastSent \in {None, saved} /\ \A b \in Reads : asks[b].from = saved
      BY <3>1 DEF ReaderInv, PositionInv
    <3>3. Puts' = {} /\ \A b \in Reads' : asks'[b].from = saved
      BY <2>1, <2>2, <2>7, <2>8, <3>1, <3>2
    <3> QED
      BY <1>1, <3>2, <3>3 DEF PositionInv
  <2> QED
    BY <1>4, <2>4, <2>5, <2>9, <2>10 DEF ReaderInv
<1> QED
  BY <1>5, <1>6 DEF ReadPosition

LEMMA RestoreKeeps ==
    ASSUME ReaderInv, NEW a \in Ask, Restore(a)
    PROVE  ReaderInv'
<1>1. /\ UNCHANGED <<length, saved, chunks, atEnd, at, settling, fetchingEdge, crossing, unsure>>
      /\ a \in Reads /\ asks' = [asks EXCEPT ![a] = Silent] /\ asks[a] \in AskRow
  BY DEF Restore, serverVars, ReaderInv, ReaderTypeOK
<1>2. PICK position \in {asks[a].from, None} :
        /\ lastSent' = IF position = None THEN lastSent ELSE position
        /\ IF asks[a].stale THEN UNCHANGED opening ELSE Stage("window", position)
  BY DEF Restore
<1>3. position \in Index
  BY <1>1 DEF AskRow, Index
<1>4. /\ asks' \in [Ask -> AskRow]
      /\ asks'[a] = Silent /\ \A b \in Ask : b # a => asks'[b] = asks[b]
  BY <1>1, SilentRow, OneAsk DEF ReaderInv, ReaderTypeOK
<1>5. \A b \in Ask : asks'[b] = asks[b] \/ asks'[b].kind = "none"
  BY <1>4, SilentRow
<1>6. opening' \in Opening
  BY <1>2, <1>3 DEF Stage, Opening, Stages, ReaderInv, ReaderTypeOK
<1>7. ReaderTypeOK'
  BY <1>1, <1>2, <1>3, <1>4, <1>6 DEF ReaderInv, ReaderTypeOK, Chunks
<1>8. PositionInv'
  <2> SUFFICES ASSUME ~crossing, ~unsure PROVE PositionInv'
    BY <1>1 DEF PositionInv
  <2>1. Puts = {} /\ \A b \in Reads : asks[b].from = saved
    BY <1>1 DEF ReaderInv, PositionInv
  <2>2. lastSent' \in {None, saved}
    BY <1>1, <1>2, <2>1 DEF ReaderInv, PositionInv
  <2>3. Puts' = {} /\ \A b \in Reads' : b \in Reads /\ asks'[b] = asks[b]
    BY <1>5, <2>1 DEF Puts, Reads
  <2> QED
    BY <1>1, <2>1, <2>2, <2>3 DEF PositionInv
<1>9. CASE asks[a].stale
  <2>1. UNCHANGED opening
    BY <1>2, <1>9
  <2>2. EdgeInv' /\ ReadInv'
    BY <1>1, <1>5, <2>1, EdgesRest, ReadsRest DEF ReaderInv
  <2>3. settling' => Reading
    BY <1>1 DEF ReaderInv, WindowInv
  <2>4. WindowInv'
    BY <1>1, <2>1, <2>3, WindowRests DEF ReaderInv
  <2> QED
    BY <1>7, <1>8, <2>2, <2>4 DEF ReaderInv
<1>10. CASE ~asks[a].stale
  <2>1. opening.stage = "restored" /\ \A b \in Reads : ~asks[b].stale => b = a
    BY <1>1, <1>10 DEF ReaderInv, ReadInv
  <2>2. ~Reading /\ ~settling
    BY <2>1 DEF Reading, ReaderInv, WindowInv
  <2>3. EdgeInv'
    BY <1>5, <2>2, NoEdgeYet DEF ReaderInv
  <2>4. opening'.stage = "window"
    BY <1>2, <1>10 DEF Stage
  <2>5. WindowInv'
    BY <1>1, <2>2, <2>4 DEF WindowInv, Reading
  <2>6. ReadInv'
    <3>1. \A b \in Reads' : asks'[b].stale
      BY <1>4, <2>1, SilentRow DEF Reads
    <3> QED
      BY <3>1 DEF ReadInv
  <2> QED
    BY <1>7, <1>8, <2>3, <2>5, <2>6 DEF ReaderInv
<1> QED
  BY <1>9, <1>10

(* A run of the book that is not empty, cut off by the limit or the end.   *)
LEMMA FirstWindow ==
    ASSUME length \in Nat, NEW from \in Nat, from < length
    PROVE  LET data == ChunkWindow(from, WINDOW_LIMIT) IN
           /\ Chunks(data) /\ Len(data) > 0 /\ IsRun(data) /\ data[Len(data)] < length
           /\ reachedEnd(data, WINDOW_LIMIT) => data[Len(data)] = length - 1
           /\ Holds(data, data[1])
<1> DEFINE data == ChunkWindow(from, WINDOW_LIMIT)
<1>1. WINDOW_LIMIT \in Nat /\ WINDOW_LIMIT > 0
  BY WindowAssumption
<1>2. Chunks(data) /\ Starts(data, from) /\ Len(data) = Least(length - from, WINDOW_LIMIT)
  BY <1>1, WindowOfBook
<1> HIDE DEF data
<1>3. /\ Len(data) \in Nat /\ Len(data) > 0 /\ from + Len(data) <= length
      /\ Len(data) < WINDOW_LIMIT => from + Len(data) = length
  BY <1>1, <1>2 DEF Least
<1>4. 1 \in 1 .. Len(data) /\ Len(data) \in 1 .. Len(data)
  BY <1>3
<1>5. data[1] = from /\ data[Len(data)] = from + Len(data) - 1
  BY <1>2, <1>4 DEF Starts
<1>6. IsRun(data) /\ Holds(data, data[1])
  BY <1>2, <1>4, <1>5 DEF IsRun, Starts, Holds
<1>7. /\ data[Len(data)] < length
      /\ reachedEnd(data, WINDOW_LIMIT) => data[Len(data)] = length - 1
  BY <1>3, <1>5 DEF reachedEnd
<1> QED
  BY <1>2, <1>3, <1>6, <1>7 DEF data

LEMMA OpenWindowKeeps ==
    ASSUME ReaderInv, OpenWindow
    PROVE  ReaderInv'
<1> DEFINE from == initialWindowPlan(opening.target)
           asked == ChunkWindow(from, WINDOW_LIMIT)
           data == IF asked = <<>> THEN ChunkWindow(0, WINDOW_LIMIT) ELSE asked
<1>1. /\ UNCHANGED <<length, saved, settling, lastSent, fetchingEdge, asks, crossing, unsure>>
      /\ opening.stage = "window"
  BY DEF OpenWindow, serverVars
<1>2. ~Reading /\ ~settling
  BY <1>1 DEF Reading, ReaderInv, WindowInv
<1>3. EdgeInv'
  BY <1>1, <1>2, NoEdgeYet DEF ReaderInv
<1>4. PositionInv' /\ ReadInv'
  <2>1. Puts' = Puts /\ Reads' = Reads
    BY <1>1 DEF Puts, Reads
  <2> QED
    BY <1>1, <2>1, PositionRests, NoReadYet DEF ReaderInv
<1>5. CASE /\ length \notin {None, 0} /\ Stage("ready", None)
           /\ chunks' = data /\ atEnd' = reachedEnd(data, WINDOW_LIMIT)
           /\ \/ at' \in {opening.target, data[1]} /\ Holds(data, at')
              \/ at' = data[1]
  <2>1. length \in Nat /\ length > 0 /\ from \in Nat /\ 0 \in Nat
    BY <1>5, WindowAssumption DEF ReaderInv, ReaderTypeOK, Index, Opening, initialWindowPlan
  <2>2. \E f \in Nat : f < length /\ data = ChunkWindow(f, WINDOW_LIMIT)
    <3>1. CASE asked = <<>>
      BY <2>1, <3>1
    <3>2. CASE asked # <<>>
      <4>1. Chunks(asked) /\ (from >= length => Len(asked) = 0)
        BY <2>1, WindowOfBook, WindowAssumption
      <4>2. from < length
        BY <2>1, <3>2, <4>1, EmptySeq DEF Chunks
      <4> QED
        BY <2>1, <3>2, <4>2
    <3> QED
      BY <3>1, <3>2
  <2> HIDE DEF data
  <2>3. /\ Chunks(data) /\ Len(data) > 0 /\ IsRun(data) /\ data[Len(data)] < length
        /\ reachedEnd(data, WINDOW_LIMIT) => data[Len(data)] = length - 1
        /\ Holds(data, data[1])
    BY <2>1, <2>2, FirstWindow
  <2>4. opening' \in Opening /\ opening'.stage = "ready"
    BY <1>5 DEF Stage, Opening, Stages, Index
  <2>5. Holds(data, at')
    BY <1>5, <2>3
  <2>6. at' \in Nat
    BY <2>3, <2>5 DEF Holds, Chunks
  <2>7. reachedEnd(data, WINDOW_LIMIT) \in BOOLEAN
    BY DEF reachedEnd
  <2>8. ReaderTypeOK'
    BY <1>1, <1>5, <2>3, <2>4, <2>6, <2>7 DEF ReaderInv, ReaderTypeOK, Chunks, Index
  <2>9. WindowInv'
    BY <1>1, <1>2, <1>5, <2>1, <2>3, <2>4, <2>5 DEF WindowInv, Reading, Last, Holds, IsRun
  <2> QED
    BY <1>3, <1>4, <2>8, <2>9 DEF ReaderInv
<1>6. CASE /\ UNCHANGED <<chunks, atEnd, at>>
           /\ \E stage \in {"notFound", "empty", "error"} : Stage(stage, None)
  <2>1. opening' \in Opening /\ opening'.stage \in {"notFound", "empty", "error"}
    BY <1>6 DEF Stage, Opening, Stages, Index
  <2>2. ReaderTypeOK'
    BY <1>1, <1>6, <2>1 DEF ReaderInv, ReaderTypeOK, Chunks
  <2>3. WindowInv'
    BY <1>1, <1>2, <2>1 DEF WindowInv, Reading
  <2> QED
    BY <1>3, <1>4, <2>2, <2>3 DEF ReaderInv
<1>7. \/ /\ length \notin {None, 0} /\ Stage("ready", None)
         /\ chunks' = data /\ atEnd' = reachedEnd(data, WINDOW_LIMIT)
         /\ at' = IF asked # <<>> /\ Holds(data, opening.target) THEN opening.target ELSE data[1]
      \/ /\ Stage(IF length = None THEN "notFound" ELSE
                  IF length = 0 THEN "empty" ELSE "error", None)
         /\ UNCHANGED <<chunks, atEnd, at>>
  BY DEF OpenWindow
<1> HIDE DEF data, asked
<1> QED
  BY <1>5, <1>6, <1>7

LEMMA RetargetKeeps ==
    ASSUME ReaderInv, NEW c \in Index, Retarget(c)
    PROVE  ReaderInv'
<1>1. /\ UNCHANGED <<length, saved>>
      /\ chunks' = <<>> /\ atEnd' = FALSE /\ at' = None /\ settling' = FALSE
      /\ fetchingEdge' = FALSE /\ lastSent' = None
      /\ asks' = [a \in Ask |-> IF a \in Quiet THEN Silent ELSE [asks[a] EXCEPT !.stale = TRUE]]
      /\ crossing' = (crossing /\ Puts \cup Reads # {})
      /\ unsure' = (unsure /\ Puts \cup Reads # {})
      /\ asks \in [Ask -> AskRow]
  BY DEF Retarget, serverVars, ReaderInv, ReaderTypeOK
<1>2. opening' \in Opening /\ opening'.stage \in {"position", "window"}
  BY DEF Retarget, Stage, Opening, Stages
<1>3. ASSUME NEW a \in Ask
      PROVE  /\ asks'[a] \in AskRow /\ (asks'[a].kind # "none" => asks'[a].stale)
             /\ asks'[a].kind = asks[a].kind /\ asks'[a].from = asks[a].from
             /\ asks'[a].served = asks[a].served
  <2>1. asks[a] \in AskRow
    BY <1>1
  <2>2. CASE a \in Quiet
    BY <1>1, <2>2, SilentRow DEF Quiet
  <2>3. CASE a \notin Quiet
    <3>1. asks'[a] = [asks[a] EXCEPT !.stale = TRUE]
      BY <1>1, <2>3
    <3> QED
      BY <2>1, <3>1 DEF AskRow
  <2> QED
    BY <2>2, <2>3
<1>4. asks' \in [Ask -> AskRow]
  BY <1>1, <1>3
<1>5. ReaderTypeOK'
  <2>1. Chunks(<<>>) /\ crossing' \in BOOLEAN /\ unsure' \in BOOLEAN
    BY <1>1 DEF Chunks, ReaderInv, ReaderTypeOK
  <2> QED
    BY <1>1, <1>2, <1>4, <2>1 DEF ReaderInv, ReaderTypeOK, Chunks, Index
<1>6. WindowInv'
  BY <1>1, <1>2 DEF WindowInv, Reading
<1>7. EdgeInv'
  BY <1>3 DEF EdgeInv, Fits
<1>8. Puts' = Puts /\ Reads' = Reads /\ Puts \subseteq Ask /\ Reads \subseteq Ask
  BY <1>3 DEF Puts, Reads
<1>9. ReadInv'
  <2>1. \A a \in Reads' : asks'[a].stale
    BY <1>3 DEF Reads
  <2> QED
    BY <2>1 DEF ReadInv
<1>10. PositionInv'
  <2> SUFFICES ASSUME ~crossing', ~unsure' PROVE PositionInv'
    BY DEF PositionInv
  <2>1. CASE Puts \cup Reads = {}
    <3>1. Puts = {} /\ Reads = {}
      BY <2>1
    <3> QED
      BY <1>1, <1>8, <3>1 DEF PositionInv
  <2>2. CASE Puts \cup Reads # {}
    <3>1. ~crossing /\ ~unsure
      BY <1>1, <2>2
    <3>2. /\ \A a \in Puts, b \in Puts : a = b
          /\ Puts # {} => Reads = {}
          /\ \A a \in Reads : asks[a].from = saved
          /\ \A a \in Puts : asks[a].served => saved = asks[a].from
      BY <3>1 DEF ReaderInv, PositionInv
    <3>3. \A a \in Puts \cup Reads : asks'[a].from = asks[a].from /\ asks'[a].served = asks[a].served
      BY <1>3, <1>8
    <3> QED
      BY <1>1, <1>8, <3>2, <3>3 DEF PositionInv
  <2> QED
    BY <2>1, <2>2
<1> QED
  BY <1>5, <1>6, <1>7, <1>9, <1>10 DEF ReaderInv

-----------------------------------------------------------------------------
(* The edges.                                                              *)
LEMMA PositionApart ==
    ASSUME PositionInv, ReadInv, UNCHANGED <<saved, opening, lastSent, crossing, unsure>>,
           NEW a \in Ask, asks[a].kind \notin {"put", "read"}, asks'[a].kind \notin {"put", "read"},
           \A b \in Ask : b # a => asks'[b] = asks[b]
    PROVE  PositionInv' /\ ReadInv'
<1>1. Puts' = Puts /\ Reads' = Reads /\ \A b \in Puts \cup Reads : asks'[b] = asks[b]
  BY DEF Puts, Reads
<1>2. PositionInv'
  BY <1>1, PositionRests
<1>3. ReadInv'
  BY ReadsRest
<1> QED
  BY <1>2, <1>3

LEMMA loadEdgeKeeps ==
    ASSUME ReaderInv, NEW a \in Ask, NEW direction \in {"prepend", "append"},
           loadEdge(a, direction)
    PROVE  ReaderInv'
<1> DEFINE plan == IF direction = "prepend" THEN prependPlan ELSE appendPlan
           row == [Silent EXCEPT !.kind = direction, !.from = plan.from, !.limit = plan.limit]
<1>1. /\ UNCHANGED <<length, saved, opening, chunks, atEnd, at, settling, lastSent, crossing,
                     unsure>>
      /\ Reading /\ a \in Quiet /\ fetchingEdge' = TRUE /\ asks' = [asks EXCEPT ![a] = row]
  BY DEF loadEdge, serverVars, placeVars, Reading
<1>2. length \in Nat /\ First \in Nat /\ Last \in Nat /\ First <= Last /\ Last < length
  BY <1>1 DEF ReaderInv, ReaderTypeOK, WindowInv, Chunks, IsRun, First, Last
<1>3. /\ plan.from \in Nat /\ plan.limit \in Nat
      /\ direction = "prepend" => plan.from + plan.limit = First
      /\ direction = "append" => plan.from = Last + 1 /\ plan.limit = WINDOW_LIMIT
  BY <1>2, WindowAssumption DEF prependPlan, appendPlan, Least
<1> HIDE DEF plan
<1>4. /\ row \in AskRow /\ row.kind = direction
      /\ row.from = plan.from /\ row.limit = plan.limit
  BY <1>3, SilentRow DEF AskRow, Index
<1> HIDE DEF row
<1>5. /\ asks' \in [Ask -> AskRow]
      /\ asks'[a] = row /\ \A b \in Ask : b # a => asks'[b] = asks[b]
  BY <1>1, <1>4, OneAsk DEF ReaderInv, ReaderTypeOK
<1>6. ReaderTypeOK'
  BY <1>1, <1>5 DEF ReaderInv, ReaderTypeOK, Chunks
<1>7. WindowInv'
  BY <1>1, WindowRests DEF ReaderInv
<1>8. Fits(row)
  BY <1>1, <1>2, <1>3, <1>4 DEF Fits
<1>9. EdgeInv'
  <2> SUFFICES ASSUME NEW b \in Ask PROVE Fits(asks[b])'
    BY DEF EdgeInv
  <2>1. Fits(asks'[b])
    BY <1>5, <1>8 DEF ReaderInv, EdgeInv
  <2> QED
    BY <1>1, <2>1 DEF Fits, Reading, First, Last
<1>10. PositionInv' /\ ReadInv'
  <2>1. asks[a].kind \notin {"put", "read"} /\ asks'[a].kind \notin {"put", "read"}
    BY <1>1, <1>4, <1>5, SilentRow DEF Quiet
  <2> QED
    BY <1>1, <1>5, <2>1, PositionApart DEF ReaderInv
<1> QED
  BY <1>6, <1>7, <1>9, <1>10 DEF ReaderInv

(* What a merge must keep for the window and the other fetches.            *)
LEMMA GrownWindow ==
    ASSUME ReaderInv, Reading, UNCHANGED <<length, opening, at, settling>>,
           Chunks(chunks'), IsRun(chunks'), Len(chunks') > 0,
           First' <= First, Last' >= Last, Last' < length,
           \A c : Holds(chunks, c) => Holds(chunks', c),
           atEnd' => Last' = length - 1,
           \A b \in Ask : asks'[b] = asks[b] \/ asks'[b].kind = "none"
    PROVE  WindowInv' /\ EdgeInv'
<1>1. WindowInv'
  BY DEF ReaderInv, WindowInv, Reading, IsRun, Holds
<1>2. /\ First \in Nat /\ Last \in Nat /\ First' \in Nat /\ Last' \in Nat
  BY DEF ReaderInv, ReaderTypeOK, WindowInv, Chunks, First, Last
<1>3. ASSUME NEW b \in Ask PROVE Fits(asks[b])'
  <2>1. CASE asks'[b].kind = "none"
    BY <2>1 DEF Fits
  <2>2. CASE asks'[b] = asks[b]
    <3>1. Fits(asks[b]) /\ asks[b] \in AskRow
      BY DEF ReaderInv, EdgeInv, ReaderTypeOK
    <3>2. asks[b].limit \in Nat
      BY <3>1 DEF AskRow
    <3> QED
      BY <1>2, <2>2, <3>1, <3>2 DEF Fits, Reading
  <2> QED
    BY <2>1, <2>2
<1> QED
  BY <1>1, <1>3 DEF EdgeInv

LEMMA AnswerEdgeKeeps ==
    ASSUME ReaderInv, NEW a \in Ask, AnswerEdge(a)
    PROVE  ReaderInv'
<1> DEFINE ask == asks[a]
           data == ChunkWindow(ask.from, ask.limit)
<1>1. /\ UNCHANGED <<length, saved, opening, at, settling, lastSent, crossing, unsure>>
      /\ ask.kind \in {"prepend", "append"} /\ fetchingEdge' = FALSE
      /\ asks' = [asks EXCEPT ![a] = Silent]
      /\ ask \in AskRow /\ Fits(ask)
  BY DEF AnswerEdge, serverVars, placeVars, ReaderInv, ReaderTypeOK, EdgeInv
<1>2. /\ asks' \in [Ask -> AskRow]
      /\ asks'[a] = Silent /\ \A b \in Ask : b # a => asks'[b] = asks[b]
  BY <1>1, SilentRow, OneAsk DEF ReaderInv, ReaderTypeOK
<1>3. \A b \in Ask : asks'[b] = asks[b] \/ asks'[b].kind = "none"
  BY <1>2, SilentRow
<1>4. PositionInv' /\ ReadInv'
  BY <1>1, <1>2, SilentRow, PositionApart DEF ReaderInv
<1>5. ASSUME Chunks(chunks'), atEnd' \in BOOLEAN PROVE ReaderTypeOK'
  BY <1>1, <1>2, <1>5 DEF ReaderInv, ReaderTypeOK
<1>6. CASE UNCHANGED <<chunks, atEnd>>
  <2>1. Chunks(chunks') /\ atEnd' \in BOOLEAN
    BY <1>6 DEF ReaderInv, ReaderTypeOK
  <2>2. WindowInv'
    <3>1. settling' => Reading
      BY <1>1 DEF ReaderInv, WindowInv
    <3> QED
      BY <1>1, <1>6, <3>1, WindowRests DEF ReaderInv
  <2>3. EdgeInv'
    BY <1>1, <1>3, <1>6, EdgesRest DEF ReaderInv
  <2> QED
    BY <1>4, <1>5, <2>1, <2>2, <2>3 DEF ReaderInv
<1>7. CASE /\ ~ask.stale /\ chunks' = mergeWindow(data, ask.kind)
           /\ atEnd' = (atEnd \/ (ask.kind = "append" /\ reachedEnd(data, ask.limit)))
  <2>1. Reading /\ ask.from \in Nat /\ ask.limit \in Nat
    BY <1>1, <1>7 DEF Fits, AskRow
  <2>2. /\ length \in Nat /\ Chunks(chunks) /\ IsRun(chunks) /\ Len(chunks) > 0
        /\ Last < length /\ (atEnd => Last = length - 1)
        /\ First \in Nat /\ Last \in Nat
    BY <2>1 DEF ReaderInv, ReaderTypeOK, WindowInv, Chunks, First, Last
  <2>3. /\ Chunks(data) /\ Starts(data, ask.from)
        /\ ask.from >= length => Len(data) = 0
        /\ ask.from < length => Len(data) = Least(length - ask.from, ask.limit)
    BY <2>1, <2>2, WindowOfBook
  <2> HIDE DEF data
  <2>4. Len(data) \in Nat
    BY <2>3 DEF Chunks
  <2>5. atEnd' \in BOOLEAN
    BY <1>7 DEF ReaderInv, ReaderTypeOK, reachedEnd
  <2>6. CASE ask.kind = "prepend"
    <3>1. Len(data) > 0 => ask.from + Len(data) >= First
      BY <1>1, <1>7, <2>1, <2>2, <2>3, <2>4, <2>6 DEF Fits, Least
    <3>2. /\ Chunks(chunks') /\ IsRun(chunks') /\ Len(chunks') >= Len(chunks)
          /\ chunks'[1] <= First /\ chunks'[Len(chunks')] = Last
          /\ \A c : Holds(chunks, c) => Holds(chunks', c)
      BY <1>7, <2>1, <2>2, <2>3, <2>6, <3>1, MergeInFront
    <3>3. atEnd' => Last = length - 1
      BY <1>7, <2>2, <2>6
    <3>4. Len(chunks') > 0
      BY <2>2, <3>2 DEF Chunks
    <3>5. First' <= First /\ Last' = Last /\ Last' >= Last
      BY <2>2, <3>2 DEF First, Last
    <3>6. WindowInv' /\ EdgeInv'
      BY <1>1, <1>3, <2>1, <2>2, <3>2, <3>3, <3>4, <3>5, GrownWindow
    <3> QED
      BY <1>4, <1>5, <2>5, <3>2, <3>6 DEF ReaderInv
  <2>7. CASE ask.kind = "append"
    <3>1. ask.from <= Last + 1 /\ ask.limit = WINDOW_LIMIT
      BY <1>1, <1>7, <2>7 DEF Fits
    <3>2. /\ Chunks(chunks') /\ IsRun(chunks') /\ Len(chunks') >= Len(chunks)
          /\ chunks'[1] = First
          /\ chunks'[Len(chunks')] =
               IF ask.from + Len(data) > Last + 1 THEN ask.from + Len(data) - 1 ELSE Last
          /\ \A c : Holds(chunks, c) => Holds(chunks', c)
      BY <1>7, <2>1, <2>2, <2>3, <2>7, <3>1, MergeBehind
    <3>3. /\ ask.from + Len(data) <= length
          /\ Len(data) < ask.limit => ask.from + Len(data) = length
      BY <2>1, <2>2, <2>3, <2>4, <3>1 DEF Least
    <3>4. /\ First' = First
          /\ Last' = IF ask.from + Len(data) > Last + 1 THEN ask.from + Len(data) - 1 ELSE Last
      BY <3>2 DEF First, Last
    <3>5. /\ Last' >= Last /\ Last' < length /\ First' <= First
          /\ ask.from + Len(data) = length => Last' = length - 1
          /\ Last = length - 1 => Last' = length - 1
      BY <2>1, <2>2, <2>4, <3>3, <3>4
    <3>6. atEnd' => Last' = length - 1
      <4>1. CASE atEnd
        BY <2>2, <3>5, <4>1
      <4>2. CASE atEnd' /\ ~atEnd
        <5>1. Len(data) < ask.limit
          BY <1>7, <4>2 DEF reachedEnd
        <5> QED
          BY <3>3, <3>5, <5>1
      <4> QED
        BY <4>1, <4>2
    <3>7. Len(chunks') > 0
      BY <2>2, <3>2 DEF Chunks
    <3>8. WindowInv' /\ EdgeInv'
      BY <1>1, <1>3, <2>1, <3>2, <3>5, <3>7, <3>6, GrownWindow
    <3> QED
      BY <1>4, <1>5, <2>5, <3>2, <3>8 DEF ReaderInv
  <2> QED
    BY <1>1, <2>6, <2>7
<1> HIDE DEF data
<1> QED
  BY <1>6, <1>7 DEF AnswerEdge, data

-----------------------------------------------------------------------------
LEMMA ReaderStep == ReaderInv /\ [ReaderNext]_readerVars => ReaderInv'
<1> SUFFICES ASSUME ReaderInv, [ReaderNext]_readerVars PROVE ReaderInv'
  OBVIOUS
<1>1. ASSUME NEW a \in Ask, Settle(a) \/ Flush(a) PROVE ReaderInv'
  <2>1. Reading
    BY <1>1 DEF Settle, Flush, Reading, ReaderInv, WindowInv
  <2> QED
    BY <1>1, <2>1, PersistKeeps DEF Settle, Flush
<1>2. ASSUME NEW a \in Ask, ServePut(a) \/ AnswerPut(a) \/ LosePut(a) \/ AnswerEdge(a)
      PROVE  ReaderInv'
  BY <1>2, ServePutKeeps, EndPutKeeps, AnswerEdgeKeeps
<1>3. ASSUME NEW a \in Ask, NEW direction \in {"prepend", "append"}, loadEdge(a, direction)
      PROVE  ReaderInv'
  BY <1>3, loadEdgeKeeps
<1>4. 0 .. MaxLength \subseteq Nat /\ 0 .. MaxLength + 1 \cup {None} \subseteq Index
  BY WindowAssumption DEF Index
<1>5. ASSUME NEW c \in 0 .. MaxLength, Scroll(c) \/ PutElsewhere(c) PROVE ReaderInv'
  BY <1>4, <1>5, ScrollKeeps, PutElsewhereKeeps
<1>6. ASSUME NEW c \in 0 .. MaxLength + 1 \cup {None}, Retarget(c) PROVE ReaderInv'
  BY <1>4, <1>6, RetargetKeeps
<1>7. ASSUME NEW a \in Ask, ReadPosition(a) \/ Restore(a) PROVE ReaderInv'
  BY <1>7, ReadPositionKeeps, RestoreKeeps
<1>8. CASE OpenWindow
  BY <1>8, OpenWindowKeeps
<1>9. CASE UNCHANGED readerVars
  <2>1. UNCHANGED <<length, saved, opening, chunks, atEnd, at, settling, fetchingEdge, lastSent,
                    asks, crossing, unsure>>
    BY <1>9 DEF readerVars
  <2>2. ReaderTypeOK'
    BY <2>1 DEF ReaderInv, ReaderTypeOK, Chunks
  <2>3. WindowInv'
    BY <2>1, WindowRests DEF ReaderInv, WindowInv
  <2>4. EdgeInv'
    BY <2>1, EdgesRest DEF ReaderInv
  <2>5. PositionInv'
    BY <2>1, PositionRests DEF ReaderInv, Puts, Reads
  <2>6. ReadInv'
    BY <2>1, ReadsRest DEF ReaderInv
  <2> QED
    BY <2>2, <2>3, <2>4, <2>5, <2>6 DEF ReaderInv
<1> QED
  BY <1>1, <1>2, <1>3, <1>5, <1>6, <1>7, <1>8, <1>9 DEF ReaderNext

(* The invariant holds of every behaviour.                                 *)
THEOREM ReaderInvariance == ReaderSpec => []ReaderInv
BY ReaderInvInit, ReaderStep, PTL DEF ReaderSpec

(* Every variable keeps its type, calls of a former epoch included         *)
(* (Reader.tsx).                                                           *)
THEOREM ReaderTypeCorrect == ReaderSpec => []ReaderTypeOK
<1>1. ReaderInv => ReaderTypeOK
  BY DEF ReaderInv
<1> QED
  BY ReaderInvariance, <1>1, PTL

(* However edge fetches of this epoch and of former ones overlap, what is  *)
(* loaded is a gapless run of the book that holds the chunk on the screen, *)
(* and "at the end" is the end (mergeWindow and reachedEnd of              *)
(* reader-view.ts).                                                        *)
THEOREM WindowStaysARun == ReaderSpec => []WindowIsARun
<1>1. ReaderInv => WindowIsARun
  <2> SUFFICES ASSUME ReaderInv, Reading PROVE WindowIsARun
    BY DEF WindowIsARun, Reading
  <2>1. /\ Chunks(chunks) /\ IsRun(chunks) /\ Len(chunks) > 0 /\ Holds(chunks, at)
        /\ Last < length /\ (atEnd => Last = length - 1)
    BY DEF ReaderInv, ReaderTypeOK, WindowInv
  <2>2. Len(chunks) \in Nat /\ First \in Nat
    BY <2>1 DEF Chunks, First
  <2>3. First >= 0
    BY <2>2
  <2>4. \A i \in 1 .. Len(chunks) - 1 : chunks[i + 1] = chunks[i] + 1
    <3> SUFFICES ASSUME NEW i \in 1 .. Len(chunks) - 1 PROVE chunks[i + 1] = chunks[i] + 1
      OBVIOUS
    <3>1. i \in 1 .. Len(chunks) /\ i + 1 \in 1 .. Len(chunks)
      BY <2>2
    <3>2. chunks[i] = First + i - 1 /\ chunks[i + 1] = First + (i + 1) - 1
      BY <2>1, <3>1 DEF IsRun, First
    <3> QED
      BY <2>2, <3>2
  <2> QED
    BY <2>1, <2>3, <2>4 DEF WindowIsARun
<1> QED
  BY ReaderInvariance, <1>1, PTL

(* A position the tab does not send again is the one the server has,       *)
(* whatever retargets come between a PUT or a read of the position and its *)
(* answer, also when the body of a former target's read comes late, but    *)
(* for the slips that SentIsSaved names: an answer lost, another device,   *)
(* or a PUT that overlaps another PUT or a read, since the tab last turned *)
(* to a target with no call on the position under way (persist and the     *)
(* initial load of Reader.tsx).                                            *)
THEOREM SentStaysSaved == ReaderSpec => []SentIsSaved
<1>1. ReaderInv => SentIsSaved
  BY DEF ReaderInv, PositionInv, SentIsSaved
<1> QED
  BY ReaderInvariance, <1>1, PTL
===============================================================================
