--------------------------------- MODULE Links ---------------------------------
(***************************************************************************)
(* A sermon document linked to a Google Doc (api/editor_links.py over      *)
(* api/drive_client.py and Connections): link, status, pull and unlink of  *)
(* one user's devices, while the Doc and the document change by themselves. *)
(*                                                                         *)
(* A request reads the document, then its link and the connection, and     *)
(* then makes one call to Google after another; each call, and each commit *)
(* is an action, so that anything may happen between two of them.  The     *)
(* document's deletion and its other columns are the subject of Documents. *)
(***************************************************************************)
EXTENDS Connections, Naturals, Sequences

CONSTANTS
    Request,        \* calls of the four routes
    Earlier,        \* a link request that was answered before
    MaxSaves,       \* bound: autosaves of a tab that is not locked
    MaxVersion      \* bound: versions of one Google Doc

ASSUME EarlierAssumption == Earlier \in Request
ASSUME LinkBoundsAssumption == MaxSaves \in Nat /\ MaxVersion \in Nat \ {0}
ASSUME NoLinkAssumption ==
    /\ NoRow \notin Request
    /\ NoRow \notin [version : Nat, there : BOOLEAN, account : Account]
    /\ NoRow \notin [state : {"linked", "error", "unlinked"}, cursor : Nat]

VARIABLES
    content,        \* documents.content
    revisions,      \* contents kept in sermon_doc_revisions
    files,          \* Google Drive: the Doc each link request uploaded
    rows,           \* editor_links, each named by the request that inserted it
    req,            \* each request: what it read and where it stands
    pulled,         \* history: the version of a Doc the last pull of it brought
    early,          \* history: Docs edited before their link was stored
    over            \* history: requests whose pull was overwritten since

linkVars == <<content, revisions, files, rows, req, pulled, early, over>>
vars == <<connectionVars, linkVars>>

Kinds == {"link", "status", "pull", "pull_final", "keep_app"}

(* Mutant: the Doc is exported before its version is read.                 *)
PathExportsFirst(kind) ==
    CASE kind = "link"       -> <<"token", "upload", "cursor", "insert">>
      [] kind = "status"     -> <<"token", "cursor">>
      [] kind = "pull"       -> <<"token", "export", "cursor", "overwrite">>
      [] kind = "pull_final" -> <<"token", "export", "cursor", "overwrite",
                                  "recheck", "detach", "remove">>
      [] kind = "keep_app"   -> <<"token", "detach", "remove">>

(* What each route does, in the order it does it.                          *)
Path(kind) ==
    CASE kind = "link"       -> <<"token", "upload", "cursor", "insert">>
      [] kind = "status"     -> <<"token", "cursor">>
      [] kind = "pull"       -> <<"token", "cursor", "export", "overwrite">>
      [] kind = "pull_final" -> <<"token", "cursor", "export", "overwrite",
                                  "recheck", "detach", "remove">>
      [] kind = "keep_app"   -> <<"token", "detach", "remove">>

(* A content is the app's own, by the save that wrote it, or the rendition *)
(* of a version of a Doc (markdown export, pandoc, TipTap).                *)
Saved(n) == <<"app", n, 0>>
Rendition(f, v) == <<"doc", f, v>>
Content == {Saved(n) : n \in 0 .. MaxSaves}
           \cup {Rendition(f, v) : f \in Request, v \in 1 .. MaxVersion}

Unsent == [kind |-> "status", step |-> 0, prior |-> Saved(0), conn |-> NoRow,
           file |-> NoRow, cursor |-> 0, version |-> 0, exported |-> 0,
           answer |-> "none"]

Doc(g) == [version |-> 1, there |-> TRUE, account |-> AccountOf[g]]
Link(cursor) == [state |-> "linked", cursor |-> cursor]

(* An earlier request linked the document, or failed to.                   *)
Init ==
    /\ ConnectionInit
    /\ content = Saved(0) /\ revisions = {}
    /\ \E linked \in {{}, {Earlier}} :
         /\ files = [r \in Request |-> IF r \in linked THEN Doc(First) ELSE NoRow]
         /\ rows = [r \in Request |-> IF r \in linked THEN Link(1) ELSE NoRow]
         /\ req = [r \in Request |->
                    IF r # Earlier THEN Unsent
                    ELSE [Unsent EXCEPT !.kind = "link", !.step = 1,
                            !.answer = IF r \in linked THEN "ok" ELSE "error"]]
         /\ pulled = [r \in Request |-> IF r \in linked THEN 1 ELSE 0]
    /\ early = {} /\ over = {}

-----------------------------------------------------------------------------
Step(r) == IF req[r].step = 0 \/ req[r].answer # "none" THEN "none"
           ELSE Path(req[r].kind)[req[r].step]
Next1(r) == [req[r] EXCEPT !.step = @ + 1]
Advance(r) == req' = [req EXCEPT ![r] = Next1(r)]

(* The request ends, and what it read is gone with it.                     *)
Answer(r, a) == req' = [req EXCEPT ![r] = [Unsent EXCEPT !.kind = req[r].kind, !.step = 1,
                          !.answer = a, !.file = IF a = "ok" THEN req[r].file ELSE @]]

(* _linked_row_stmt                                                        *)
LiveRows == {f \in Request : rows[f] # NoRow /\ rows[f].state = "linked"}

File(r) == IF req[r].kind = "link" THEN r ELSE req[r].file
Token(r) == TokenOf(req[r].conn)

(* Drive serves a Doc to a token of a living grant of the account it is in. *)
Reaches(r) ==
    /\ files[File(r)].there
    /\ Token(r) \in alive /\ AccountOf[Token(r)] = files[File(r)].account

SetState(f, state) == rows' = [rows EXCEPT ![f].state = state]

(* The owned-document gate, the link row and the connection, read in a row: *)
(* 404 or 409 without them.  document.content is kept for later.           *)
Receive(r, kind) ==
    /\ req[r].step = 0
    /\ LET live == LiveRows IN
         IF (kind = "link") # (live = {}) \/ connection = NoRow
         THEN req' = [req EXCEPT ![r] = [Unsent EXCEPT !.kind = kind, !.step = 1,
                                                       !.answer = "refused"]]
         ELSE \E f \in IF live = {} THEN {r} ELSE live :
                req' = [req EXCEPT ![r] = [Unsent EXCEPT !.kind = kind, !.step = 1,
                          !.prior = content, !.conn = connection, !.file = f,
                          !.cursor = IF live = {} THEN 0 ELSE rows[f].cursor]]
    /\ UNCHANGED <<connectionVars, content, revisions, files, rows, pulled, early, over>>

GetToken(r) ==
    /\ Step(r) = "token" /\ ~Refused(req[r].conn)
    /\ Persist(req[r].conn)
    /\ Advance(r)
    /\ UNCHANGED <<verifiers, begun, alive, oauth, dropped>>
    /\ UNCHANGED <<content, revisions, files, rows, pulled, early, over>>

(* DriveAuthError, invalid_grant.  Status and unlink mark the row; link    *)
(* has no handler; pull rolls back first, which expires the rows it goes   *)
(* on to read, and that read fails in an async session.                    *)
AuthFails(r) ==
    /\ Step(r) = "token" /\ Refused(req[r].conn)
    /\ IF req[r].kind \in {"link", "pull"} THEN UNCHANGED rows
       ELSE SetState(req[r].file, "error")
    /\ Answer(r, IF req[r].kind = "status" THEN "ok" ELSE "error")
    /\ UNCHANGED <<connectionVars, content, revisions, files, pulled, early, over>>

(* convert_to_docx of the content the gate read, and the upload.           *)
Upload(r) ==
    /\ Step(r) = "upload" /\ Token(r) \in alive
    /\ files' = [files EXCEPT ![r] = Doc(Token(r))]
    /\ pulled' = [pulled EXCEPT ![r] = 1]
    /\ Advance(r)
    /\ UNCHANGED <<connectionVars, content, revisions, rows, early, over>>

(* get_version: the cursor of a link or a pull, the answer of a status.    *)
GetVersion(r) ==
    /\ Step(r) = "cursor" /\ Reaches(r)
    /\ IF req[r].kind = "status"
       THEN Answer(r, IF files[File(r)].version = req[r].cursor THEN "same" ELSE "changed")
       ELSE req' = [req EXCEPT ![r] = [Next1(r) EXCEPT !.version = files[File(r)].version]]
    /\ UNCHANGED <<connectionVars, content, revisions, files, rows, pulled, early, over>>

(* Mutant: the insert does not meet the partial unique index.              *)
InsertUnguarded(r) ==
    /\ Step(r) = "insert"
    /\ rows' = [rows EXCEPT ![r] = Link(req[r].version)]
    /\ Answer(r, "ok")
    /\ UNCHANGED <<connectionVars, content, revisions, files, pulled, early, over>>

(* The loser of two links leaves its Doc behind.                           *)
Insert(r) ==
    /\ Step(r) = "insert"
    /\ IF LiveRows # {} THEN Answer(r, "refused") /\ UNCHANGED rows
       ELSE /\ rows' = [rows EXCEPT ![r] = Link(req[r].version)]
            /\ Answer(r, "ok")
    /\ UNCHANGED <<connectionVars, content, revisions, files, pulled, early, over>>

(* export_markdown, then the conversion.                                   *)
Export(r) ==
    /\ Step(r) = "export" /\ Reaches(r)
    /\ req' = [req EXCEPT ![r] = [Next1(r) EXCEPT !.exported = files[File(r)].version]]
    /\ UNCHANGED <<connectionVars, content, revisions, files, rows, pulled, early, over>>

Exporting == {q \in Request : req[q].exported # 0}

(* Mutant: pull-final keeps the document as it is.                         *)
OverwriteOnPull(r) ==
    /\ Step(r) = "overwrite"
    /\ LET f == req[r].file IN
         /\ revisions' = revisions \cup {req[r].prior}
         /\ content' = IF req[r].kind = "pull" THEN Rendition(f, req[r].exported) ELSE content
         /\ rows' = [rows EXCEPT ![f].cursor = req[r].version]
         /\ pulled' = [pulled EXCEPT ![f] = req[r].exported]
    /\ over' = (over \cup Exporting) \ {r}
    /\ IF req[r].kind = "pull" THEN Answer(r, "ok") ELSE Advance(r)
    /\ UNCHANGED <<connectionVars, files, early>>

(* Snapshot of what the gate read, the overwrite, the cursor: one commit,  *)
(* whatever the link's state is by now.                                    *)
Overwrite(r) ==
    /\ Step(r) = "overwrite"
    /\ LET f == req[r].file IN
         /\ revisions' = revisions \cup {req[r].prior}
         /\ content' = Rendition(f, req[r].exported)
         /\ rows' = [rows EXCEPT ![f].cursor = req[r].version]
         /\ pulled' = [pulled EXCEPT ![f] = req[r].exported]
    /\ over' = (over \cup Exporting) \ {r}
    /\ IF req[r].kind = "pull" THEN Answer(r, "ok") ELSE Advance(r)
    /\ UNCHANGED <<connectionVars, files, early>>

(* The second get_version of pull-final; its failure is an unhandled 500.  *)
Recheck(r) ==
    /\ Step(r) = "recheck" /\ Reaches(r)
    /\ Advance(r)
    /\ UNCHANGED <<connectionVars, content, revisions, files, rows, pulled, early, over>>

Detach(r) ==
    /\ Step(r) = "detach"
    /\ SetState(req[r].file, "unlinked")
    /\ Advance(r)
    /\ UNCHANGED <<connectionVars, content, revisions, files, pulled, early, over>>

(* delete_file, best effort.                                               *)
Remove(r) ==
    /\ Step(r) = "remove"
    /\ files' \in {files} \cup
         IF Reaches(r) THEN {[files EXCEPT ![req[r].file].there = FALSE]} ELSE {}
    /\ Answer(r, "ok")
    /\ UNCHANGED <<connectionVars, content, revisions, rows, pulled, early, over>>

(* DriveError or ConversionError: 502, or 500 where nothing catches it.    *)
Fail(r) ==
    /\ Step(r) \in {"token", "upload", "cursor", "export", "overwrite", "insert",
                    "recheck", "detach"}
    /\ Answer(r, "error")
    /\ UNCHANGED <<connectionVars, content, revisions, files, rows, pulled, early, over>>

(* An autosave of a tab that was not told of the link.                     *)
Save ==
    \E n \in 1 .. MaxSaves :
      /\ \A s \in revisions \cup {content} \cup {req[r].prior : r \in Request} :
           s[1] = "app" => s[2] < n
      /\ content' = Saved(n)
      /\ over' = over \cup Exporting
      /\ UNCHANGED <<connectionVars, revisions, files, rows, req, pulled, early>>

(* Somebody edits the Doc.                                                 *)
EditRemotely(f) ==
    /\ files[f] # NoRow
    /\ files[f].there /\ files[f].version < MaxVersion
    /\ files' = [files EXCEPT ![f].version = @ + 1]
    /\ early' = IF rows[f] = NoRow THEN early \cup {f} ELSE early
    /\ UNCHANGED <<connectionVars, content, revisions, rows, req, pulled, over>>

Serve(r) ==
    \/ \E kind \in Kinds : Receive(r, kind)
    \/ GetToken(r) \/ AuthFails(r) \/ Upload(r) \/ GetVersion(r)
    \/ Insert(r) \/ Export(r) \/ Overwrite(r) \/ Recheck(r) \/ Detach(r)
    \/ Remove(r) \/ Fail(r)

Next ==
    \/ ConnectionNext /\ UNCHANGED linkVars
    \/ \E r \in Request : Serve(r) \/ EditRemotely(r)
    \/ Save

Spec == Init /\ [][Next]_vars

-----------------------------------------------------------------------------
(* Properties                                                              *)

LinksTypeOK ==
    /\ ConnectionTypeOK
    /\ content \in Content /\ revisions \subseteq Content
    /\ files \in [Request -> {NoRow} \cup [version : 1 .. MaxVersion, there : BOOLEAN,
                                          account : Account]]
    /\ rows \in [Request -> {NoRow} \cup [state : {"linked", "error", "unlinked"},
                                         cursor : 1 .. MaxVersion]]
    /\ pulled \in [Request -> 0 .. MaxVersion]
    /\ early \subseteq Request /\ over \subseteq Request

(* A status that says "unchanged" is right: while the cursor of a live     *)
(* link equals the Doc's version, that version is the one last brought     *)
(* into the document (an edit of the Doc before its link was stored apart). *)
StatusMissesNothing ==
    \A f \in LiveRows \ early :
        rows[f].cursor = files[f].version => pulled[f] = files[f].version

(* At most one link is live, and answers are true: a link answered ok is   *)
(* stored, any other leaves no row; after an ok unlink the link is not     *)
(* live.                                                                   *)
LinkAnswersTellTheTruth ==
    /\ \A f, g \in LiveRows : f = g
    /\ \A r \in Request : req[r].kind = "link" => (req[r].answer = "ok" <=> rows[r] # NoRow)
    /\ \A r \in Request : (req[r].kind \in {"pull_final", "keep_app"} /\ req[r].answer = "ok")
         => req[r].file \notin LiveRows

(* pull-final deletes the Doc only when what it exported is the document,  *)
(* or was replaced there after the pull.                                   *)
PullFinalKeepsTheDoc ==
    [][\A r \in Request : (Step(r) = "remove" /\ req[r].kind = "pull_final") =>
         r \in over \/ content = Rendition(req[r].file, req[r].exported)]_files

(* "flip to error so the user re-connects rather than silently losing the  *)
(* latest Doc edits": with a working connection again, no Doc with edits   *)
(* that were never pulled is left on a row that no route finds.  It does   *)
(* not hold if the account connected again is the same one (README,        *)
(* section 10).                                                            *)
ReconnectBringsTheDocBack ==
    ~ \E f \in Request :
        /\ rows[f] # NoRow /\ rows[f].state = "error" /\ files[f].there
        /\ files[f].version > pulled[f]
        /\ connection # NoRow /\ connection.refresh \in alive
        /\ AccountOf[connection.refresh] = files[f].account
=============================================================================
