-------------------------------- MODULE Search --------------------------------
(***************************************************************************)
(* A summary request (api/search.py, api/summary.py) from its scope to its *)
(* answer, the search history it is saved in (api/search_history.py), and  *)
(* the panel of one browser tab that shows it (web/components).  It reads  *)
(* the tables of Collections and shares the client of MilvusClient.        *)
(*                                                                         *)
(* A query and its passages are left out: the hits of a retrieval are all  *)
(* of the books it was allowed, or none.                                   *)
(***************************************************************************)
EXTENDS Collections, MilvusClient, Sequences

CONSTANT Cap        \* SEARCH_HISTORY_RETENTION

ASSUME CapAssumption == Cap \in Nat \ {0}

VARIABLES
    req,            \* each request: its scope, what it found, where it stands
    started,        \* requests in the order they came: their created_at
    history,        \* search_history: the requests that are saved
    overlap,        \* history: two saves were in progress at once
    panel           \* the tab: what it waits for, what it shows

searchVars == <<req, started, history, overlap, panel>>
vars == <<collectionVars, clientVars, searchVars>>

(* The two lists of a request: omitted, or given, and then perhaps empty.  *)
NoScope == [books |-> {}, folders |-> {}, given |-> FALSE]
Scope == {NoScope} \cup [books : SUBSET Book, folders : SUBSET Folder, given : {TRUE}]

Idle == [at |-> "idle", scope |-> NoScope, books |-> {}, flags |-> {}, doomed |-> {}]
Nothing == NoClient

SearchInit ==
    /\ CollectionInit /\ ClientInit
    /\ req = [q \in Search |-> Idle]
    /\ started = <<>> /\ history = {} /\ overlap = FALSE
    /\ panel = [sent |-> {}, searching |-> FALSE, latest |-> Nothing, shown |-> Nothing,
                opening |-> Nothing, crossed |-> FALSE]

-----------------------------------------------------------------------------
(* The request.                                                            *)
Step(q, from, to) == req[q].at = from /\ req' = [req EXCEPT ![q].at = to]
Finish(q, to) == req' = [req EXCEPT ![q] = [Idle EXCEPT !.at = to]]
Narrow(q, books) == req' = [req EXCEPT ![q].at = "scoped", ![q].books = books]
LoseDense(q) == req' = [req EXCEPT ![q].at = "arms", ![q].flags = {"dense"}]
OnlyReq == UNCHANGED <<collectionVars, clientVars, started, history, overlap, panel>>

(* The scope of a request is resolved against the library it reads first.  *)
(* Without lists it is the library; lists that name nothing find nothing.  *)
Resolve(q, scope) ==
    /\ req[q].at = "idle"
    /\ started' = Append(started, q)
    /\ req' = [req EXCEPT ![q] = [Idle EXCEPT
                 !.scope = scope,
                 !.books = IF scope.folders = {} /\ scope # NoScope
                           THEN library \cap scope.books ELSE library,
                 !.at = IF scope.folders # {} /\ library # {} THEN "folders" ELSE "scoped"]]

CheckFolders(q) ==
    /\ req[q].at = "folders"
    /\ IF Owned(req[q].scope.folders) = req[q].scope.folders THEN Step(q, "folders", "members")
       ELSE Finish(q, "refused")
    /\ OnlyReq

(* Mutant: a selection that comes to nothing searches the whole library.   *)
ReadMembersOrAll(q) ==
    LET r == req[q]
        chosen == (r.scope.books \cup BooksOf(r.scope.folders)) \cap r.books
    IN /\ r.at = "members"
       /\ Narrow(q, IF chosen = {} THEN r.books ELSE chosen)
       /\ OnlyReq

ReadMembers(q) ==
    LET r == req[q]
        chosen == r.scope.books \cup BooksOf(r.scope.folders)
    IN r.at = "members" /\ Narrow(q, r.books \cap chosen) /\ OnlyReq

(* An empty scope is answered at once; otherwise the query is embedded for *)
(* the dense arm, which may fail, and the arm's thread starts.             *)
Embed(q) ==
    /\ req[q].at = "scoped"
    /\ \/ req[q].books = {} /\ Step(q, "scoped", "flush") /\ UNCHANGED thread
       \/ req[q].books # {} /\ Step(q, "scoped", "arms") /\ Put(q, "start", NoClient)
       \/ req[q].books # {} /\ LoseDense(q) /\ UNCHANGED thread
    /\ UNCHANGED <<collectionVars, client, failed, started, history,
                   overlap, panel>>

Running(q) == thread[q].at \in {"start", "build", "call", "reset"}

(* Mutant: the thread is awaited without a budget.                         *)
AwaitForever(q) == FALSE

(* The arm's budget runs out.                                              *)
Timeout(q) ==
    /\ req[q].at = "arms" /\ Running(q) /\ "dense" \notin req[q].flags
    /\ LoseDense(q)
    /\ OnlyReq

(* _surviving_arm_hits for both arms, the second being the SQL statement.  *)
ArmFlags(q, sparse) ==
    (IF "dense" \in req[q].flags \/ thread[q].at = "failed" THEN {"dense"} ELSE {})
      \cup (IF sparse THEN {} ELSE {"sparse"})

(* Both arms are in.  Fusion, reranking and highlighting choose among the  *)
(* hits; the last two fall back on what they were given.                   *)
Retrieve(q) ==
    \E sparse \in BOOLEAN, found \in BOOLEAN :
       LET flags == ArmFlags(q, sparse)
       IN /\ req[q].at = "arms" /\ (~Running(q) \/ "dense" \in req[q].flags)
          /\ IF flags = {"dense", "sparse"}
             THEN ~found /\ Finish(q, "refused")
             ELSE req' = [req EXCEPT ![q].at = IF found THEN "llm" ELSE "flush",
                                     ![q].books = IF found THEN @ ELSE {},
                                     ![q].flags = flags]
          /\ OnlyReq

(* The sparse arm runs in the session of the request: a statement that     *)
(* fails there aborts its transaction, and so every later statement, until *)
(* a rollback.                                                             *)
Aborted(q) == "sparse" \in req[q].flags

(* The titles of the hits are read, then the model is asked.               *)
Summarize(q) ==
    /\ req[q].at = "llm"
    /\ IF Aborted(q) THEN Finish(q, "error")
       ELSE Step(q, "llm", "flush") \/ Finish(q, "refused")
    /\ OnlyReq

-----------------------------------------------------------------------------
(* The history.                                                            *)
Age(q) == CHOOSE i \in DOMAIN started : started[i] = q
Newer(q, rows) == {r \in rows : Age(r) > Age(q)}
Overflow(rows) == {q \in rows : Cardinality(Newer(q, rows)) >= Cap}
Prune(q, rows) == req' = [req EXCEPT ![q].at = "commit", ![q].doomed = Overflow(rows)]

(* Mutant: the prune does not see the row it is to make room for.          *)
FlushAfterPrune(q) ==
    /\ req[q].at = "flush" /\ ~Aborted(q)
    /\ Prune(q, history)
    /\ overlap' = (overlap \/ \E r \in Search : req[r].at = "commit")
    /\ UNCHANGED <<collectionVars, clientVars, started, history, panel>>

(* The insert and the prune, in one transaction: the prune sees what the   *)
(* others have committed, and the request's own row.                       *)
Flush(q) ==
    /\ req[q].at = "flush" /\ ~Aborted(q)
    /\ Prune(q, history \cup {q})
    /\ overlap' = (overlap \/ \E r \in Search : req[r].at = "commit")
    /\ UNCHANGED <<collectionVars, clientVars, started, history, panel>>

(* A failure of the save is swallowed and rolled back.                     *)
SaveFails(q) ==
    /\ req[q].at = "flush" /\ Aborted(q)
    /\ Finish(q, "answered")
    /\ OnlyReq

Commit(q) ==
    /\ req[q].at = "commit" /\ Finish(q, "answered")
    /\ history' = (history \cup {q}) \ req[q].doomed \/ UNCHANGED history
    /\ UNCHANGED <<collectionVars, clientVars, started, overlap, panel>>

(* delete_history and clear_history.                                       *)
Erase(rows) ==
    /\ rows \subseteq history /\ rows # {} /\ (rows = history \/ Cardinality(rows) = 1)
    /\ history' = history \ rows
    /\ UNCHANGED <<collectionVars, clientVars, req, started, overlap, panel>>

-----------------------------------------------------------------------------
(* The panel.                                                              *)
OnlyPanel == UNCHANGED <<collectionVars, clientVars, req, started, history, overlap>>

(* Mutant: the form stays enabled while a search is under way.             *)
SubmitAnyTime(q, scope) ==
    /\ Resolve(q, scope)
    /\ panel' = [panel EXCEPT !.sent = @ \cup {q}, !.searching = TRUE, !.latest = q,
                              !.shown = Nothing]
    /\ UNCHANGED <<collectionVars, clientVars, history, overlap>>

Submit(q, scope) ==
    /\ ~panel.searching
    /\ Resolve(q, scope)
    /\ panel' = [panel EXCEPT !.sent = @ \cup {q}, !.searching = TRUE, !.latest = q,
                              !.shown = Nothing]
    /\ UNCHANGED <<collectionVars, clientVars, history, overlap>>

(* Another device of the user searches.                                    *)
SubmitElsewhere(q, scope) ==
    /\ Resolve(q, scope)
    /\ UNCHANGED <<collectionVars, clientVars, history, overlap, panel>>

(* The answer of a search, whatever the tab has done since.                *)
Deliver(q) ==
    /\ q \in panel.sent /\ req[q].at \in {"answered", "refused", "error"}
    /\ panel' = [panel EXCEPT !.sent = @ \ {q}, !.searching = FALSE,
                              !.shown = IF req[q].at = "answered" THEN q ELSE @]
    /\ OnlyPanel

(* RecentSearches: one saved search at a time is fetched.                  *)
Open(q) ==
    /\ panel.opening = Nothing /\ q \in history
    /\ panel' = [panel EXCEPT !.opening = q]
    /\ OnlyPanel

(* It is put on show, and the panel forgets that a search is under way.    *)
Hydrate ==
    /\ panel.opening # Nothing
    /\ panel' = [panel EXCEPT !.opening = Nothing, !.shown = panel.opening,
                              !.latest = panel.opening, !.searching = FALSE,
                              !.crossed = @ \/ panel.sent # {}]
    /\ OnlyPanel

-----------------------------------------------------------------------------
Serve(q) ==
    \/ CheckFolders(q) \/ ReadMembers(q) \/ Embed(q) \/ Timeout(q) \/ Retrieve(q)
    \/ Summarize(q) \/ Flush(q) \/ SaveFails(q) \/ Commit(q)

SearchNext ==
    \/ CollectionNext /\ UNCHANGED <<clientVars, searchVars>>
    \/ ClientNext /\ UNCHANGED <<collectionVars, searchVars>>
    \/ \E q \in Search, scope \in Scope : Submit(q, scope) \/ SubmitElsewhere(q, scope)
    \/ \E q \in Search : Serve(q) \/ Deliver(q) \/ Open(q)
    \/ Hydrate
    \/ \E rows \in SUBSET history : Erase(rows)

(* The handlers run on; neither Milvus nor its threads need to.            *)
Spec == SearchInit /\ [][SearchNext]_vars /\ \A q \in Search : WF_vars(Serve(q))

-----------------------------------------------------------------------------
(* Passages come from the library, and those of a narrowed request from    *)
(* the books it names and from books its collections held at some time.    *)
ScopeOnlyShrinks ==
    \A q \in Search :
      /\ req[q].books \subseteq library
      /\ (req[q].scope # NoScope /\ req[q].at \notin {"folders", "members", "refused", "error"}) =>
           req[q].books \subseteq req[q].scope.books
             \cup {m[2] : m \in {n \in members \cup undone : n[1] \in req[q].scope.folders}}

(* An answer that does not name the dense arm has the arm's hits, even if  *)
(* a thread outlived its request; with both arms lost there is no answer.  *)
FlagsTellWhatFailed ==
    \A q \in Search : req[q].at \in {"llm", "flush", "commit"} =>
      /\ "dense" \in req[q].flags \/ thread[q].at \in {"idle", "found"}
      /\ ~ {"dense", "sparse"} \subseteq req[q].flags

(* A save takes away only what Cap newer requests have displaced, and      *)
(* unless two saves overlapped there are never more than Cap.              *)
HistoryKeepsTheNewest ==
    /\ ~overlap => Cardinality(history) <= Cap
    /\ \A q \in Search, d \in Search :
         d \in req[q].doomed => Cardinality(Newer(d, {started[i] : i \in DOMAIN started})) >= Cap

(* The tab shows the answer to its user's latest wish, a search or a saved *)
(* one, unless a saved one was opened over a search under way.             *)
PanelShowsTheLatest ==
    panel.crossed \/ panel.shown \in {Nothing, panel.latest}

(* A request comes to an answer or a refusal, also when Milvus hangs.      *)
SearchEnds ==
    \A q \in Search : (req[q].at # "idle") ~> (req[q].at \in {"answered", "refused", "error"})

(* "A single dependency blip no longer means a bare 500" (api/search.py),  *)
(* of the summary that is built on run_search.  It does not hold.          *)
BlipIsNoBareError == \A q \in Search : req[q].at # "error"
=============================================================================
