------------------------------ MODULE Documents ------------------------------
(***************************************************************************)
(* One sermon document under the concurrent requests of its owner          *)
(* (api/documents.py): save, read, import, soft delete and restore.        *)
(*                                                                         *)
(* The api runs several processes, each request in a READ COMMITTED        *)
(* session of its own without row locks.  A request is a sequence of       *)
(* statements; the effect of its UPDATE is visible at the commit, and the  *)
(* row lock keeps other writers out in between, so UPDATE and COMMIT are   *)
(* one action.  A value of updated_at is the start of the transaction that *)
(* wrote it; it is compared for equality only and stands here as the name  *)
(* of that request.  Requests of other users match no row in any statement *)
(* and are left out, and so are the scope columns, which are clamped to    *)
(* what the user owns at the time.                                         *)
(***************************************************************************)

CONSTANTS
    Request,        \* calls of the routes, each arrives at most once
    Field,          \* the columns a PATCH may set, but for the scopes
    Value,          \* what a column may hold
    Blank,          \* the values of the created document
    Creation,       \* the stamp of the created document
    NoText

ASSUME FieldAssumption == "content" \in Field
ASSUME ValueAssumption == Blank \in [Field -> Value]
ASSUME NamesAssumption == /\ Creation \notin Request
                          /\ NoText \notin [Field -> Value]

VARIABLES
    doc,            \* the row: its columns, updated_at, and deleted_at IS NULL
    revisions,      \* sermon_doc_revisions: who inserted the row, the content
    req,            \* each request: what it asks, where it stands, its answer
    stored,         \* history: the columns as of each updated_at
    overlap         \* history: the writes committed since a request's gate

vars == <<doc, revisions, req, stored, overlap>>

Stamp == Request \cup {Creation}
Text == [Field -> Value]
Change == UNION {[F -> Value] : F \in (SUBSET Field) \ {{}}}
Row == [text : Text, stamp : Stamp, live : BOOLEAN]
Revision == [by : Request, content : Value]
Kinds == {"patch", "get", "import", "delete", "restore"}
Places == {"unsent", "received", "convert", "write", "undelete", "refresh",
           "answered"}
Answers == {"none", "ok", "not_found", "conflict", "error"}

Known == {s \in Stamp : stored[s] # NoText}

Created == [text |-> Blank, stamp |-> Creation, live |-> TRUE]
Unsent == [kind |-> "get", base |-> Creation, change |-> NoText, at |-> "unsent",
           row |-> Created, answer |-> "none"]

Init ==
    /\ doc = Created
    /\ revisions = {}
    /\ req = [r \in Request |-> Unsent]
    /\ stored = [s \in Stamp |-> IF s = Creation THEN Blank ELSE NoText]
    /\ overlap = [r \in Request |-> {}]

-----------------------------------------------------------------------------
Is(r, kind, place) == req[r].kind = kind /\ req[r].at = place

(* A request arrives; a PATCH names the updated_at its client last saw.    *)
Receive(r, kind, base, change) ==
    /\ req[r].at = "unsent"
    /\ req' = [req EXCEPT ![r] = [kind |-> kind, base |-> base, change |-> change,
                                  at |-> "received", row |-> Created,
                                  answer |-> "none"]]
    /\ UNCHANGED <<doc, revisions, stored, overlap>>

(* The request read the row and goes on.                                   *)
Proceed(r, place) ==
    /\ req' = [req EXCEPT ![r].at = place, ![r].row = doc]
    /\ overlap' = [overlap EXCEPT ![r] = {}]

(* The request ends; an ok answer carries the row as it stands then, a     *)
(* conflict is about the row as it was read.                               *)
Reply(r, answer) ==
    req' = [req EXCEPT ![r].at = "answered", ![r].answer = answer,
                       ![r].row = IF answer \in {"ok", "conflict"} THEN doc' ELSE @]

ReadOnly == UNCHANGED <<doc, revisions, stored>>

(* A statement raises, the conversion fails or the cap is exceeded: the    *)
(* transaction is rolled back.                                             *)
Fail(r) ==
    /\ req[r].at \notin {"unsent", "answered"}
    /\ ReadOnly
    /\ Reply(r, "error")
    /\ overlap' = [overlap EXCEPT ![r] = {}]

Get(r) ==
    /\ Is(r, "get", "received")
    /\ ReadOnly
    /\ Reply(r, IF doc.live THEN "ok" ELSE "not_found")
    /\ UNCHANGED overlap

(* Mutant: no 409 check.                                                   *)
GatePatchUnchecked(r) ==
    /\ Is(r, "patch", "received")
    /\ ReadOnly
    /\ \/ ~doc.live /\ Reply(r, "not_found") /\ UNCHANGED overlap
       \/ doc.live /\ Proceed(r, "write")

(* _require_owned_document, then the 409 check on what it read.            *)
GatePatch(r) ==
    /\ Is(r, "patch", "received")
    /\ ReadOnly
    /\ \/ ~doc.live /\ Reply(r, "not_found") /\ UNCHANGED overlap
       \/ doc.live /\ req[r].base # doc.stamp /\ Reply(r, "conflict") /\ UNCHANGED overlap
       \/ doc.live /\ req[r].base = doc.stamp /\ Proceed(r, "write")

GateImport(r) ==
    /\ Is(r, "import", "received")
    /\ ReadOnly
    /\ \/ ~doc.live /\ Reply(r, "not_found") /\ UNCHANGED overlap
       \/ doc.live /\ Proceed(r, "convert")

(* convert_from_docx: seconds of pandoc and node between gate and write.   *)
Convert(r) ==
    /\ Is(r, "import", "convert")
    /\ req' = [req EXCEPT ![r].at = "write"]
    /\ UNCHANGED <<doc, revisions, stored, overlap>>

Merge(change, text) ==
    [f \in Field |-> IF f \in DOMAIN change THEN change[f] ELSE text[f]]

(* Mutant: only a write of the content sets updated_at.                    *)
UpdateStampsContent(r, snapshots) ==
    IF doc.live
    THEN /\ doc' = [doc EXCEPT !.text = Merge(req[r].change, @),
                          !.stamp = IF "content" \in DOMAIN req[r].change
                                    THEN r ELSE @]
         /\ stored' = [stored EXCEPT ![doc'.stamp] = doc'.text]
         /\ revisions' = revisions \cup snapshots
         /\ overlap' = [x \in Request |->
                          IF x # r /\ req[x].at \in {"convert", "write"}
                          THEN overlap[x] \cup {r} ELSE {}]
         /\ Reply(r, "ok")
    ELSE Fail(r)

(* Mutant: the UPDATE has no deleted_at IS NULL.                           *)
UpdateDeleted(r, snapshots) ==
    /\ doc' = [doc EXCEPT !.text = Merge(req[r].change, @), !.stamp = r]
    /\ stored' = [stored EXCEPT ![r] = doc'.text]
    /\ revisions' = revisions \cup snapshots
    /\ overlap' = [x \in Request |->
                     IF x # r /\ req[x].at \in {"convert", "write"}
                     THEN overlap[x] \cup {r} ELSE {}]
    /\ Reply(r, "ok")

(* Mutant: the snapshot is committed though the UPDATE matches nothing.    *)
UpdateKeepsSnapshot(r, snapshots) ==
    IF doc.live
    THEN /\ doc' = [doc EXCEPT !.text = Merge(req[r].change, @), !.stamp = r]
         /\ stored' = [stored EXCEPT ![r] = doc'.text]
         /\ revisions' = revisions \cup snapshots
         /\ overlap' = [x \in Request |->
                          IF x # r /\ req[x].at \in {"convert", "write"}
                          THEN overlap[x] \cup {r} ELSE {}]
         /\ Reply(r, "ok")
    ELSE /\ revisions' = revisions \cup snapshots
         /\ Reply(r, "error") /\ UNCHANGED <<doc, stored, overlap>>

(* UPDATE ... WHERE deleted_at IS NULL RETURNING, and the commit.  A row   *)
(* deleted since the gate matches nothing: one() raises, nothing is kept.  *)
Update(r, snapshots) ==
    IF doc.live
    THEN /\ doc' = [doc EXCEPT !.text = Merge(req[r].change, @), !.stamp = r]
         /\ stored' = [stored EXCEPT ![r] = doc'.text]
         /\ revisions' = revisions \cup snapshots
         /\ overlap' = [x \in Request |->
                          IF x # r /\ req[x].at \in {"convert", "write"}
                          THEN overlap[x] \cup {r} ELSE {}]
         /\ Reply(r, "ok")
    ELSE Fail(r)

CommitPatch(r) == Is(r, "patch", "write") /\ Update(r, {})

(* Snapshot first: the content the gate read, in the same transaction.     *)
CommitImport(r) ==
    /\ Is(r, "import", "write")
    /\ Update(r, {[by |-> r, content |-> req[r].row.text["content"]]})

Delete(r) ==
    /\ Is(r, "delete", "received")
    /\ doc' = [doc EXCEPT !.live = FALSE]
    /\ Reply(r, IF doc.live THEN "ok" ELSE "not_found")
    /\ UNCHANGED <<revisions, stored, overlap>>

(* restore: select (deleted rows too), UPDATE by primary key, refresh.     *)
RestoreRead(r) ==
    /\ Is(r, "restore", "received")
    /\ ReadOnly /\ UNCHANGED overlap
    /\ IF doc.live THEN Reply(r, "ok")
       ELSE req' = [req EXCEPT ![r].at = "undelete"]

RestoreWrite(r) ==
    /\ Is(r, "restore", "undelete")
    /\ doc' = [doc EXCEPT !.live = TRUE]
    /\ req' = [req EXCEPT ![r].at = "refresh"]
    /\ UNCHANGED <<revisions, stored, overlap>>

RestoreRefresh(r) ==
    /\ Is(r, "restore", "refresh")
    /\ ReadOnly /\ UNCHANGED overlap
    /\ Reply(r, "ok")

Serve(r) ==
    \/ Get(r) \/ GatePatch(r) \/ CommitPatch(r)
    \/ GateImport(r) \/ Convert(r) \/ CommitImport(r)
    \/ Delete(r) \/ RestoreRead(r) \/ RestoreWrite(r) \/ RestoreRefresh(r)

(* Whoever calls: a PATCH may name any updated_at that was ever returned.  *)
Ask(r) ==
    \/ \E base \in Known, change \in Change : Receive(r, "patch", base, change)
    \/ \E v \in Value : Receive(r, "import", Creation, [f \in {"content"} |-> v])
    \/ \E kind \in {"get", "delete", "restore"} : Receive(r, kind, Creation, NoText)

Next == \E r \in Request : Ask(r) \/ Serve(r) \/ Fail(r)

Spec == Init /\ [][Next]_vars

-----------------------------------------------------------------------------
(* Properties                                                              *)

Call == [kind : Kinds, base : Stamp, change : Change \cup {NoText},
         at : Places, row : Row, answer : Answers]

TypeOK ==
    /\ doc \in Row
    /\ revisions \subseteq Revision
    /\ req \in [Request -> Call]
    /\ stored \in [Stamp -> Text \cup {NoText}]
    /\ overlap \in [Request -> SUBSET Request]

(* Equal values of updated_at mean equal rows, in the table and in every   *)
(* answer: the 409 check compares nothing else.                            *)
StampNamesText ==
    /\ doc.text = stored[doc.stamp]
    /\ \A r \in Request : req[r].row.text = stored[req[r].row.stamp]

(* Whatever a write replaces, the writer had been shown it (its base), or  *)
(* it is kept in a revision, or it was committed after the writer's gate.  *)
OverwritesAreInformedOrRaced ==
    [][\A r \in Request : (doc'.stamp = r /\ doc.stamp # r) =>
         \/ doc.stamp \in overlap[r]
         \/ req[r].kind = "patch" /\ req[r].base = doc.stamp
         \/ /\ req[r].kind = "import"
            /\ [by |-> r, content |-> doc.text["content"]] \in revisions']_vars

(* "an import is never destructive": the content it replaces is kept.      *)
ImportKeepsWhatItReplaces ==
    [][\A r \in Request :
         (doc'.stamp = r /\ doc.stamp # r /\ req[r].kind = "import") =>
             [by |-> r, content |-> doc.text["content"]] \in revisions']_vars

(* While the document is deleted nothing writes to it, so that a restore   *)
(* brings back what was deleted.                                           *)
DeletedIsFrozen ==
    [][~doc.live => doc'.text = doc.text /\ doc'.stamp = doc.stamp]_doc

(* A refused or failed request left no trace, an ok one took effect, and a *)
(* snapshot is there exactly if its import is.                             *)
AnswersTellTheTruth ==
    /\ \A r \in Request : req[r].kind \in {"patch", "import"} =>
         /\ req[r].answer = "ok" <=> stored[r] # NoText
         /\ (\E rev \in revisions : rev.by = r)
              <=> (req[r].kind = "import" /\ stored[r] # NoText)
    /\ \A rev \in revisions : \E s \in Known : rev.content = stored[s]["content"]
=============================================================================
