----------------------------- MODULE Editor_proofs -----------------------------
(* Theorems about the routes of Documents and the editor's tab over them,  *)
(* for every set of requests, columns and values and any bound.            *)
EXTENDS Editor, TLAPS

-----------------------------------------------------------------------------
(* Documents: the routes.                                                  *)

Writes == {"patch", "import"}

(* What is known of a request between two of its steps: until it is        *)
(* answered it left no trace, and past its gate either the row is the one  *)
(* it read or a write that overlaps it is on record.                       *)
RequestInv(r) ==
    /\ req[r].row.text = stored[req[r].row.stamp]
    /\ req[r].kind \in Writes =>
         /\ req[r].answer = "ok" <=> stored[r] # NoText
         /\ (\E rev \in revisions : rev.by = r)
              <=> (req[r].kind = "import" /\ stored[r] # NoText)
    /\ req[r].at # "answered" =>
         /\ req[r].answer = "none" /\ stored[r] = NoText
         /\ ~ \E rev \in revisions : rev.by = r
         /\ req[r].at # "unsent" /\ req[r].kind \in Writes => req[r].change \in Change
    /\ req[r].at \in {"convert", "write"} =>
         /\ doc.stamp \in overlap[r] \cup {req[r].row.stamp}
         /\ req[r].kind = "patch" => req[r].base = req[r].row.stamp

DocumentsInv ==
    /\ TypeOK
    /\ doc.text = stored[doc.stamp]
    /\ stored[Creation] = Blank
    /\ \A r \in Request : RequestInv(r)
    /\ \A rev \in revisions : \E s \in Known : rev.content = stored[s]["content"]

-----------------------------------------------------------------------------
LEMMA InvInit == Init => DocumentsInv
<1> SUFFICES ASSUME Init PROVE DocumentsInv
  OBVIOUS
<1>1. Blank \in Text /\ Creation \in Stamp /\ Blank # NoText
  BY ValueAssumption, NamesAssumption DEF Text, Stamp
<1>2. TypeOK
  BY <1>1 DEF Init, TypeOK, Created, Unsent, Row, Call, Kinds, Places, Answers
<1>3. \A r \in Request : RequestInv(r)
  BY <1>1, NamesAssumption DEF Init, RequestInv, Created, Unsent, Writes, Stamp
<1> QED
  BY <1>1, <1>2, <1>3 DEF Init, DocumentsInv, Created

(* A step that leaves the text and the stamp of the row, the revisions and *)
(* the history alone, and makes of one call a well-formed call.            *)
LEMMA QuietStep ==
    ASSUME DocumentsInv, NEW r \in Request, NEW c \in Call,
           req' = [req EXCEPT ![r] = c],
           doc' \in Row, doc'.text = doc.text, doc'.stamp = doc.stamp,
           UNCHANGED <<revisions, stored>>,
           overlap' \in {overlap, [overlap EXCEPT ![r] = {}]},
           RequestInv(r)'
    PROVE  DocumentsInv'
<1> USE DEF DocumentsInv
<1>1. TypeOK'
  BY DEF TypeOK
<1>2. ASSUME NEW x \in Request, x # r PROVE RequestInv(x)'
  <2>1. req'[x] = req[x] /\ overlap'[x] = overlap[x] /\ stored' = stored
    BY <1>2 DEF TypeOK
  <2> QED
    BY <2>1 DEF RequestInv
<1> QED
  BY <1>1, <1>2 DEF Known

LEMMA MergeType ==
    ASSUME NEW change \in Change, NEW text \in Text
    PROVE  Merge(change, text) \in Text
<1>1. PICK F \in SUBSET Field : change \in [F -> Value]
  BY DEF Change
<1> QED
  BY <1>1 DEF Merge, Text

(* What the receipt of a request makes of its call.                        *)
LEMMA ReceiveStep ==
    ASSUME DocumentsInv, NEW r \in Request, NEW kind \in Kinds, NEW basis \in Stamp,
           NEW change \in Change \cup {NoText}, kind \in Writes => change \in Change,
           Receive(r, kind, basis, change)
    PROVE  DocumentsInv'
<1> DEFINE c == [kind |-> kind, base |-> basis, change |-> change, at |-> "received",
                 row |-> Created, answer |-> "none"]
<1>1. Created \in Row
  BY ValueAssumption DEF Created, Row, Text, Stamp
<1>2. c \in Call
  BY <1>1 DEF Call, Places, Answers
<1>3. req' = [req EXCEPT ![r] = c] /\ UNCHANGED <<doc, revisions, stored, overlap>>
  BY DEF Receive
<1>4. req'[r] = c
  BY <1>3 DEF DocumentsInv, TypeOK
<1>5. RequestInv(r)'
  <2>1. stored[r] = NoText /\ ~ \E rev \in revisions : rev.by = r
    BY DEF DocumentsInv, RequestInv, Receive
  <2>2. c.row.text = stored[c.row.stamp]
    BY DEF DocumentsInv, Created
  <2> QED
    BY <1>3, <1>4, <2>1, <2>2 DEF RequestInv, Writes
<1> HIDE DEF c
<1> QED
  BY <1>2, <1>3, <1>5, QuietStep DEF DocumentsInv, TypeOK

(* An answer, unless it confirms a write.                                  *)
LEMMA ReplyStep ==
    ASSUME DocumentsInv, NEW r \in Request, NEW answer \in Answers,
           req[r].at \notin {"unsent", "answered"},
           answer = "ok" => req[r].kind \notin Writes,
           Reply(r, answer),
           doc' \in Row, doc'.text = doc.text, doc'.stamp = doc.stamp,
           UNCHANGED <<revisions, stored>>,
           overlap' \in {overlap, [overlap EXCEPT ![r] = {}]}
    PROVE  DocumentsInv'
<1> DEFINE shown == IF answer \in {"ok", "conflict"} THEN doc' ELSE req[r].row
           c == [req[r] EXCEPT !.at = "answered", !.answer = answer, !.row = shown]
<1>1. req[r] \in Call /\ req[r].row \in Row
  BY DEF DocumentsInv, TypeOK, Call
<1>2. shown \in Row
  BY <1>1
<1> HIDE DEF shown
<1>3. /\ c \in Call /\ c.at = "answered" /\ c.answer = answer
      /\ c.row = shown /\ c.kind = req[r].kind
  BY <1>1, <1>2 DEF Call, Places
<1>4. req' = [req EXCEPT ![r] = c]
  BY <1>1 DEF Reply, shown, DocumentsInv, TypeOK
<1> HIDE DEF c
<1>5. req'[r] = c
  BY <1>4 DEF DocumentsInv, TypeOK
<1>6. RequestInv(r)'
  <2>1. shown.text = stored[shown.stamp]
    BY DEF DocumentsInv, RequestInv, shown
  <2>2. stored[r] = NoText /\ ~ \E rev \in revisions : rev.by = r
    BY DEF DocumentsInv, RequestInv
  <2> QED
    BY <1>3, <1>5, <2>1, <2>2 DEF RequestInv
<1> QED
  BY <1>3, <1>4, <1>6, QuietStep

(* A request passes its gate with the row as it is.                        *)
LEMMA ProceedStep ==
    ASSUME DocumentsInv, NEW r \in Request, NEW place \in {"convert", "write"},
           req[r].at = "received", Proceed(r, place),
           req[r].kind = "patch" => req[r].base = doc.stamp,
           UNCHANGED <<doc, revisions, stored>>
    PROVE  DocumentsInv'
<1> DEFINE c == [req[r] EXCEPT !.at = place, !.row = doc]
<1>1. req[r] \in Call /\ doc \in Row
  BY DEF DocumentsInv, TypeOK
<1>2. /\ c \in Call /\ c.at = place /\ c.answer = req[r].answer /\ c.change = req[r].change
      /\ c.row = doc /\ c.kind = req[r].kind /\ c.base = req[r].base
  BY <1>1 DEF Call, Places
<1>3. req' = [req EXCEPT ![r] = c] /\ overlap' = [overlap EXCEPT ![r] = {}]
  BY <1>1 DEF Proceed, DocumentsInv, TypeOK
<1> HIDE DEF c
<1>4. req'[r] = c
  BY <1>3 DEF DocumentsInv, TypeOK
<1>5. RequestInv(r)'
  BY <1>2, <1>4 DEF RequestInv, DocumentsInv
<1> QED
  BY <1>1, <1>2, <1>3, <1>5, QuietStep

(* A request moves on to its next statement.                               *)
LEMMA MoveStep ==
    ASSUME DocumentsInv, NEW r \in Request, NEW place \in Places \ {"unsent", "answered"},
           req' = [req EXCEPT ![r].at = place],
           \/ place \in {"undelete", "refresh"} /\ req[r].at \notin {"unsent", "answered"}
           \/ place = "write" /\ req[r].at = "convert",
           doc' \in Row, doc'.text = doc.text, doc'.stamp = doc.stamp,
           UNCHANGED <<revisions, stored, overlap>>
    PROVE  DocumentsInv'
<1> DEFINE c == [req[r] EXCEPT !.at = place]
<1>1. req[r] \in Call
  BY DEF DocumentsInv, TypeOK
<1>2. /\ c \in Call /\ c.at = place /\ c.answer = req[r].answer /\ c.change = req[r].change
      /\ c.row = req[r].row /\ c.kind = req[r].kind /\ c.base = req[r].base
  BY <1>1 DEF Call
<1>3. req' = [req EXCEPT ![r] = c]
  BY <1>1 DEF DocumentsInv, TypeOK
<1> HIDE DEF c
<1>4. req'[r] = c
  BY <1>3 DEF DocumentsInv, TypeOK
<1>5. RequestInv(r)'
  BY <1>2, <1>4 DEF RequestInv, DocumentsInv
<1> QED
  BY <1>2, <1>3, <1>5, QuietStep

(* The two writes, on a row that is not deleted.                           *)
LEMMA WriteStep ==
    ASSUME DocumentsInv, NEW r \in Request, NEW snapshots,
           doc.live, req[r].at = "write", req[r].kind \in Writes,
           snapshots = IF req[r].kind = "import"
                       THEN {[by |-> r, content |-> req[r].row.text["content"]]} ELSE {},
           Update(r, snapshots)
    PROVE  DocumentsInv'
<1> USE DEF DocumentsInv
<1> DEFINE text == Merge(req[r].change, doc.text)
<1>1. /\ req[r] \in Call /\ req[r].row \in Row /\ doc \in Row
      /\ req[r].change \in Change /\ stored[r] = NoText
      /\ ~ \E rev \in revisions : rev.by = r
      /\ req[r].row.text = stored[req[r].row.stamp]
  BY DEF TypeOK, Call, RequestInv
<1>2. text \in Text /\ text # NoText
  BY <1>1, MergeType, NamesAssumption DEF Row, Text
<1> HIDE DEF text
<1>3. /\ doc' = [doc EXCEPT !.text = text, !.stamp = r]
      /\ stored' = [stored EXCEPT ![r] = doc'.text]
      /\ revisions' = revisions \cup snapshots
      /\ overlap' = [x \in Request |->
                       IF x # r /\ req[x].at \in {"convert", "write"}
                       THEN overlap[x] \cup {r} ELSE {}]
      /\ req' = [req EXCEPT ![r].at = "answered", ![r].answer = "ok", ![r].row = doc']
  BY DEF Update, Reply, text
<1>4. doc' \in Row /\ doc'.text = text /\ doc'.stamp = r
  BY <1>1, <1>2, <1>3 DEF Row, Stamp
<1>5. /\ stored' \in [Stamp -> Text \cup {NoText}] /\ stored'[r] = text
      /\ \A s \in Stamp : s # r => stored'[s] = stored[s]
  BY <1>2, <1>3, <1>4 DEF TypeOK, Stamp
<1>6. /\ req'[r] \in Call /\ req'[r].at = "answered" /\ req'[r].answer = "ok"
      /\ req'[r].row = doc' /\ req'[r].kind = req[r].kind
      /\ \A x \in Request : x # r => req'[x] = req[x]
      /\ req' \in [Request -> Call]
  <2> DEFINE c == [req[r] EXCEPT !.at = "answered", !.answer = "ok", !.row = doc']
  <2>1. /\ c \in Call /\ c.at = "answered" /\ c.answer = "ok" /\ c.row = doc'
        /\ c.kind = req[r].kind
    BY <1>1, <1>4 DEF Call, Places, Answers
  <2>2. req' = [req EXCEPT ![r] = c]
    BY <1>1, <1>3 DEF TypeOK
  <2> HIDE DEF c
  <2> QED
    BY <2>1, <2>2 DEF TypeOK
<1>7. snapshots \subseteq Revision
  BY <1>1, FieldAssumption DEF Revision, Row, Text
<1>8. TypeOK'
  <2>1. overlap' \in [Request -> SUBSET Request]
    BY <1>3 DEF TypeOK
  <2> QED
    BY <1>3, <1>4, <1>5, <1>6, <1>7, <2>1 DEF TypeOK
<1>9. \A s \in Known : s # r /\ s \in Known' /\ stored'[s] = stored[s]
  BY <1>1, <1>5 DEF Known
<1>10. \A x \in Request : req[x].row.stamp \in Known
  <2> TAKE x \in Request
  <2>1. req[x].row \in Row /\ req[x].row.text = stored[req[x].row.stamp]
    BY DEF TypeOK, Call, RequestInv
  <2> QED
    BY <2>1, NamesAssumption DEF Row, Known, Text
<1>11. RequestInv(r)'
  <2>1. req'[r].row.text = stored'[req'[r].row.stamp]
    BY <1>4, <1>5, <1>6
  <2>2. stored'[r] # NoText
    BY <1>2, <1>5
  <2>3. (\E rev \in revisions' : rev.by = r) <=> req'[r].kind = "import"
    <3>1. CASE req[r].kind = "import"
      <4>1. [by |-> r, content |-> req[r].row.text["content"]] \in revisions'
        BY <1>3, <3>1
      <4> QED
        BY <1>6, <3>1, <4>1
    <3>2. CASE req[r].kind # "import"
      <4>1. revisions' = revisions
        BY <1>3, <3>2
      <4> QED
        BY <1>1, <1>6, <3>2, <4>1
    <3> QED
      BY <3>1, <3>2
  <2> QED
    BY <1>6, <2>1, <2>2, <2>3 DEF RequestInv
<1>12. ASSUME NEW x \in Request, x # r PROVE RequestInv(x)'
  <2>1. req'[x] = req[x] /\ stored'[x] = stored[x]
    BY <1>5, <1>6, <1>12 DEF Stamp
  <2>2. stored'[req[x].row.stamp] = stored[req[x].row.stamp]
    BY <1>9, <1>10
  <2>3. (\E rev \in revisions' : rev.by = x) <=> (\E rev \in revisions : rev.by = x)
    BY <1>3, <1>12
  <2>4. req[x].at \in {"convert", "write"} => doc'.stamp \in overlap'[x]
    BY <1>3, <1>4, <1>12
  <2> QED
    BY <2>1, <2>2, <2>3, <2>4 DEF RequestInv
<1>13. ASSUME NEW rev \in revisions' PROVE \E s \in Known' : rev.content = stored'[s]["content"]
  <2>1. CASE rev \in revisions
    BY <1>9, <2>1
  <2>2. CASE rev \in snapshots
    <3>1. rev.content = req[r].row.text["content"]
      BY <2>2
    <3> QED
      BY <1>1, <1>9, <1>10, <3>1
  <2> QED
    BY <1>3, <2>1, <2>2
<1>14. doc'.text = stored'[doc'.stamp] /\ stored'[Creation] = Blank
  BY <1>4, <1>5, NamesAssumption DEF Stamp
<1> QED
  BY <1>8, <1>11, <1>12, <1>13, <1>14

-----------------------------------------------------------------------------
(* Each action preserves the invariant.                                    *)
LEMMA InvStep == ASSUME DocumentsInv, [Next]_vars PROVE DocumentsInv'
<1>0. /\ doc \in Row /\ \A r \in Request : req[r] \in Call
      /\ doc \in [text : Text, stamp : Stamp, live : BOOLEAN]
  BY DEF DocumentsInv, TypeOK, Row
<1>1. CASE UNCHANGED vars
  BY <1>1 DEF vars, DocumentsInv, TypeOK, RequestInv, Known
<1>2. ASSUME NEW r \in Request, Ask(r) PROVE DocumentsInv'
  <2>1. ASSUME NEW basis \in Known, NEW change \in Change, Receive(r, "patch", basis, change)
        PROVE  DocumentsInv'
    BY <2>1, ReceiveStep DEF Kinds, Known
  <2>2. ASSUME NEW v \in Value, Receive(r, "import", Creation, [f \in {"content"} |-> v])
        PROVE  DocumentsInv'
    <3>1. [f \in {"content"} |-> v] \in Change
      <4>1. {"content"} \in (SUBSET Field) \ {{}}
        BY FieldAssumption
      <4>2. [f \in {"content"} |-> v] \in [{"content"} -> Value]
        OBVIOUS
      <4> QED
        BY <4>1, <4>2 DEF Change
    <3> QED
      BY <2>2, <3>1, ReceiveStep DEF Kinds, Stamp
  <2>3. ASSUME NEW kind \in {"get", "delete", "restore"}, Receive(r, kind, Creation, NoText)
        PROVE  DocumentsInv'
    BY <2>3, ReceiveStep DEF Kinds, Stamp, Writes
  <2> QED
    BY <1>2, <2>1, <2>2, <2>3 DEF Ask
<1>3. ASSUME NEW r \in Request, Fail(r) PROVE DocumentsInv'
  BY <1>0, <1>3, ReplyStep DEF Fail, ReadOnly, Answers
<1>4. ASSUME NEW r \in Request, Get(r) PROVE DocumentsInv'
  BY <1>0, <1>4, ReplyStep DEF Get, Is, ReadOnly, Answers, Writes
<1>5. ASSUME NEW r \in Request, GatePatch(r) PROVE DocumentsInv'
  <2>1. CASE Proceed(r, "write") /\ req[r].base = doc.stamp
    BY <1>5, <2>1, ProceedStep DEF GatePatch, Is, ReadOnly
  <2>2. CASE (Reply(r, "not_found") \/ Reply(r, "conflict")) /\ UNCHANGED overlap
    BY <1>0, <1>5, <2>2, ReplyStep DEF GatePatch, Is, ReadOnly, Answers
  <2> QED
    BY <1>5, <2>1, <2>2 DEF GatePatch
<1>6. ASSUME NEW r \in Request, GateImport(r) PROVE DocumentsInv'
  <2>1. CASE Proceed(r, "convert")
    BY <1>6, <2>1, ProceedStep DEF GateImport, Is, ReadOnly
  <2>2. CASE Reply(r, "not_found") /\ UNCHANGED overlap
    BY <1>0, <1>6, <2>2, ReplyStep DEF GateImport, Is, ReadOnly, Answers
  <2> QED
    BY <1>6, <2>1, <2>2 DEF GateImport
<1>7. ASSUME NEW r \in Request, Convert(r) PROVE DocumentsInv'
  BY <1>0, <1>7, MoveStep DEF Convert, Is, Places
<1>8. ASSUME NEW r \in Request, CommitPatch(r) PROVE DocumentsInv'
  <2>1. CASE doc.live
    BY <1>8, <2>1, WriteStep DEF CommitPatch, Is, Writes
  <2>2. CASE ~doc.live
    BY <1>3, <1>8, <2>2 DEF CommitPatch, Update
  <2> QED
    BY <2>1, <2>2
<1>9. ASSUME NEW r \in Request, CommitImport(r) PROVE DocumentsInv'
  <2>1. CASE doc.live
    BY <1>9, <2>1, WriteStep DEF CommitImport, Is, Writes
  <2>2. CASE ~doc.live
    BY <1>3, <1>9, <2>2 DEF CommitImport, Update
  <2> QED
    BY <2>1, <2>2
<1>10. ASSUME NEW r \in Request, Delete(r) PROVE DocumentsInv'
  <2>1. doc' \in Row /\ doc'.text = doc.text /\ doc'.stamp = doc.stamp
    BY <1>0, <1>10 DEF Delete, Row
  <2> QED
    BY <1>10, <2>1, ReplyStep DEF Delete, Is, Answers, Writes
<1>11. ASSUME NEW r \in Request, RestoreRead(r) PROVE DocumentsInv'
  <2>1. CASE doc.live
    BY <1>0, <1>11, <2>1, ReplyStep DEF RestoreRead, Is, ReadOnly, Answers, Writes
  <2>2. CASE ~doc.live
    BY <1>0, <1>11, <2>2, MoveStep DEF RestoreRead, Is, ReadOnly, Places
  <2> QED
    BY <2>1, <2>2
<1>12. ASSUME NEW r \in Request, RestoreWrite(r) PROVE DocumentsInv'
  <2>1. doc' \in Row /\ doc'.text = doc.text /\ doc'.stamp = doc.stamp
    BY <1>0, <1>12 DEF RestoreWrite, Row
  <2> QED
    BY <1>12, <2>1, MoveStep DEF RestoreWrite, Is, Places
<1>13. ASSUME NEW r \in Request, RestoreRefresh(r) PROVE DocumentsInv'
  BY <1>0, <1>13, ReplyStep DEF RestoreRefresh, Is, ReadOnly, Answers, Writes
<1> QED
  BY <1>1, <1>2, <1>3, <1>4, <1>5, <1>6, <1>7, <1>8, <1>9, <1>10, <1>11, <1>12, <1>13
     DEF Next, Serve

(* DocumentsInv is an invariant of the routes.                             *)
THEOREM DocumentsInvariance == Spec => []DocumentsInv
BY InvInit, InvStep, PTL DEF Spec

(* Type correctness.                                                       *)
THEOREM DocumentsTypeCorrect == Spec => []TypeOK
<1>1. DocumentsInv => TypeOK
  BY DEF DocumentsInv
<1> QED
  BY <1>1, DocumentsInvariance, PTL

(* Equal values of updated_at mean equal rows, in the table and in every   *)
(* answer, however requests interleave: what the 409 check rests on.       *)
THEOREM StampsNameTexts == Spec => []StampNamesText
<1>1. DocumentsInv => StampNamesText
  BY DEF DocumentsInv, RequestInv, StampNamesText
<1> QED
  BY <1>1, DocumentsInvariance, PTL

(* A failed request leaves no trace, an ok one took effect, a snapshot     *)
(* stands or falls with its import and holds content that was stored.      *)
THEOREM AnswersAreTrue == Spec => []AnswersTellTheTruth
<1>1. DocumentsInv => AnswersTellTheTruth
  BY DEF DocumentsInv, RequestInv, AnswersTellTheTruth, Writes
<1> QED
  BY <1>1, DocumentsInvariance, PTL

-----------------------------------------------------------------------------
(* Only a write to a row that is not deleted changes its stamp.            *)
LEMMA StampStep ==
    ASSUME DocumentsInv, Next
    PROVE  \/ doc'.text = doc.text /\ doc'.stamp = doc.stamp
           \/ /\ doc.live
              /\ \E r \in Request : /\ CommitPatch(r) \/ CommitImport(r)
                                    /\ doc'.stamp = r
<1> USE DEF DocumentsInv, TypeOK, Row
<1>1. ASSUME NEW r \in Request, Ask(r) PROVE doc' = doc
  BY <1>1 DEF Ask, Receive
<1>2. ASSUME NEW r \in Request, Fail(r) PROVE doc' = doc
  BY <1>2 DEF Fail, ReadOnly
<1>3. ASSUME NEW r \in Request, CommitPatch(r) \/ CommitImport(r), ~doc.live PROVE doc' = doc
  BY <1>2, <1>3 DEF CommitPatch, CommitImport, Update
<1>4. ASSUME NEW r \in Request, CommitPatch(r) \/ CommitImport(r), doc.live PROVE doc'.stamp = r
  BY <1>4 DEF CommitPatch, CommitImport, Update
<1>5. ASSUME NEW r \in Request, Delete(r) \/ RestoreWrite(r)
      PROVE  doc'.text = doc.text /\ doc'.stamp = doc.stamp
  BY <1>5 DEF Delete, RestoreWrite
<1>6. ASSUME NEW r \in Request, \/ Get(r) \/ GatePatch(r) \/ GateImport(r) \/ Convert(r)
                                \/ RestoreRead(r) \/ RestoreRefresh(r)
      PROVE  doc' = doc
  BY <1>6 DEF Get, GatePatch, GateImport, Convert, RestoreRead, RestoreRefresh, ReadOnly
<1> QED
  BY <1>1, <1>2, <1>3, <1>4, <1>5, <1>6 DEF Next, Serve

(* While the document is deleted nothing writes to it.                     *)
THEOREM DeletedStaysFrozen == Spec => DeletedIsFrozen
<1>1. ASSUME DocumentsInv, [Next]_vars
      PROVE  [~doc.live => doc'.text = doc.text /\ doc'.stamp = doc.stamp]_doc
  BY <1>1, StampStep DEF vars
<1> QED
  BY <1>1, DocumentsInvariance, PTL DEF Spec, DeletedIsFrozen

(* Whatever a write replaces was shown to the writer, is kept in a         *)
(* revision, or was committed after the writer's gate.                     *)
THEOREM OverwritesAreAccountedFor == Spec => OverwritesAreInformedOrRaced
<1> DEFINE Accounted(r) ==
      (doc'.stamp = r /\ doc.stamp # r) =>
         \/ doc.stamp \in overlap[r]
         \/ req[r].kind = "patch" /\ req[r].base = doc.stamp
         \/ /\ req[r].kind = "import"
            /\ [by |-> r, content |-> doc.text["content"]] \in revisions'
<1>1. ASSUME DocumentsInv, [Next]_vars, NEW r \in Request PROVE Accounted(r)
  <2>1. SUFFICES ASSUME doc'.stamp = r, doc.stamp # r, doc.stamp \notin overlap[r]
                 PROVE  \/ req[r].kind = "patch" /\ req[r].base = doc.stamp
                        \/ /\ req[r].kind = "import"
                           /\ [by |-> r, content |-> doc.text["content"]] \in revisions'
    OBVIOUS
  <2>2. doc.live /\ (CommitPatch(r) \/ CommitImport(r))
    BY <1>1, <2>1, StampStep DEF vars
  <2>3. req[r].row.stamp = doc.stamp /\ req[r].row.text = doc.text
    BY <1>1, <2>1, <2>2 DEF CommitPatch, CommitImport, Is, DocumentsInv, RequestInv
  <2>4. CASE CommitPatch(r)
    BY <1>1, <2>3, <2>4 DEF CommitPatch, Is, DocumentsInv, RequestInv
  <2>5. CASE CommitImport(r)
    BY <2>2, <2>3, <2>5 DEF CommitImport, Is, Update
  <2> QED
    BY <2>2, <2>4, <2>5
<1>2. ASSUME DocumentsInv, [Next]_vars PROVE [\A r \in Request : Accounted(r)]_vars
  BY <1>1, <1>2
<1> QED
  BY <1>2, DocumentsInvariance, PTL DEF Spec, OverwritesAreInformedOrRaced

-----------------------------------------------------------------------------
(* Editor: a tab over the routes.                                          *)

IsPatch(r) == req[r].kind = "patch" /\ req[r].at # "unsent"

(* A save asks for the whole text; the answer that accepts it bears its    *)
(* own stamp.                                                              *)
MineInv(r) ==
    /\ r \in waiting => req[r].at # "unsent"
    /\ r \in pulled => ~IsPatch(r)
    /\ IsPatch(r) =>
         /\ req[r].change \in Text
         /\ req[r].answer = "ok" => req[r].row.stamp = r /\ req[r].row.text = req[r].change

(* One call at a time, as long as none was made beside another.            *)
OneCall ==
    /\ \A r, x \in waiting : r = x
    /\ inFlight <=> \E r \in waiting : IsPatch(r)
    /\ conflicted => \A r \in waiting : ~IsPatch(r)

(* Nothing typed is forgotten: it is saved, scheduled, pending or on its   *)
(* way.                                                                    *)
Scheduled == linked \/ conflicted \/ timer \/ pending
SaveInv ==
    /\ conflicted => status # "saved"
    /\ (page = "open" /\ ~Scheduled) => \A r \in waiting : IsPatch(r) => buffer = req[r].change
    /\ (page = "open" /\ ~linked /\ status = "saved" /\ ~timer /\ ~inFlight)
         => buffer = lastSaved

(* The row was written last by a save of this tab.                         *)
Current(own) == own \in Mine /\ doc.stamp = own /\ req[own].kind = "patch"

SelfConflict(r, own) ==
    /\ req[r].kind = "patch" /\ req[r].answer = "conflict"
    /\ req[r].row.stamp = own /\ req[own].kind = "patch"

(* While nothing was lost, crossed or left, the tab has the token of its   *)
(* own last save, or awaits it.                                            *)
StampInv ==
    /\ \A r \in Mine : IsPatch(r) /\ req[r].at # "answered" => r \in waiting
    /\ \A r \in waiting : IsPatch(r) => req[r].base = base
    /\ \A own : Current(own) =>
         /\ own \notin waiting => base = own
         /\ \A r \in waiting : req[r].answer = "ok" => req[r].row.stamp = own
    /\ \A r, own \in Mine : ~SelfConflict(r, own)

Uncrossed == "crossed" \notin slips
Quiet == slips \cap {"crossed", "reverted", "locked"} = {}
Unslipped == ~lost /\ slips \cap {"crossed", "left"} = {}

EditorInv ==
    /\ EditorTypeOK
    /\ DocumentsInv
    /\ BaselineIsAVersion
    /\ page = "closed" => waiting = {} /\ ~inFlight /\ ~pending /\ ~timer
    /\ \A r \in Mine : MineInv(r)
    /\ Uncrossed => OneCall
    /\ Quiet => SaveInv
    /\ Unslipped => StampInv
-----------------------------------------------------------------------------
(* The calls of the tab                                                    *)

(* A text names every column, so that a save of it asks for a change, and  *)
(* for nothing but the text.                                               *)
LEMMA TextIsAChange ==
    ASSUME NEW text \in Text
    PROVE  /\ text \in Change
           /\ \A other \in Text : Merge(text, other) = text
<1>1. Field \in (SUBSET Field) \ {{}}
  BY FieldAssumption
<1>2. text \in Change
  BY <1>1 DEF Change, Text
<1>3. ASSUME NEW other \in Text PROVE Merge(text, other) = text
  BY DEF Merge, Text
<1> QED
  BY <1>2, <1>3

(* Every row that was ever read is one that was stored.                    *)
LEMMA RowWasStored ==
    ASSUME DocumentsInv, NEW r \in Request
    PROVE  /\ req[r].row.stamp \in Known /\ req[r].row.text = stored[req[r].row.stamp]
           /\ req[r].row.text \in Text
<1>1. req[r].row \in Row /\ req[r].row.text = stored[req[r].row.stamp]
  BY DEF DocumentsInv, TypeOK, Call, RequestInv
<1> QED
  BY <1>1, NamesAssumption DEF Row, Known, Text

(* So is the row itself.                                                    *)
LEMMA DocIsStored ==
    ASSUME DocumentsInv
    PROVE  doc.stamp \in Known /\ doc.text = stored[doc.stamp] /\ doc.text \in Text
<1>1. doc \in Row /\ doc.text = stored[doc.stamp]
  BY DEF DocumentsInv, TypeOK
<1> QED
  BY <1>1, NamesAssumption DEF Row, Known, Text

(* The call that Send makes, and what it leaves as it was.                 *)
LEMMA SendStep ==
    ASSUME DocumentsInv, NEW kind, NEW from, NEW change, Send(kind, from, change),
           Mine \subseteq Request
    PROVE  /\ Spare \in Mine /\ req[Spare].at = "unsent" /\ stored[Spare] = NoText
           /\ req'[Spare].kind = kind /\ req'[Spare].base = from
           /\ req'[Spare].change = change
           /\ req'[Spare].at = "received" /\ req'[Spare].answer = "none"
           /\ \A r \in Request \ {Spare} : req'[r] = req[r]
           /\ UNCHANGED <<doc, revisions, stored, overlap>>
<1>1. Spare \in Unused
  BY DEF Spare, Send
<1>2. Spare \in Mine /\ Spare \in Request /\ req[Spare].at = "unsent"
  BY <1>1 DEF Unused
<1>3. stored[Spare] = NoText
  BY <1>2 DEF DocumentsInv, RequestInv
<1>4. /\ req' = [req EXCEPT ![Spare] = [kind |-> kind, base |-> from, change |-> change,
                              at |-> "received", row |-> Created, answer |-> "none"]]
      /\ UNCHANGED <<doc, revisions, stored, overlap>>
  BY DEF Send, Receive
<1>5. req \in [Request -> Call]
  BY DEF DocumentsInv, TypeOK
<1> QED
  BY <1>2, <1>3, <1>4, <1>5

(* It is a call that the routes of Documents allow.                        *)
LEMMA SendIsAStep ==
    ASSUME DocumentsInv, NEW kind, NEW from, NEW change, Send(kind, from, change),
           \/ kind = "patch" /\ from \in Known /\ change \in Text
           \/ kind = "get" /\ from = Creation /\ change = NoText
           \/ /\ kind = "import" /\ from = Creation
              /\ \E v \in Value : change = [f \in {"content"} |-> v]
    PROVE  Next
<1>1. Spare \in Request /\ Receive(Spare, kind, from, change)
  BY SendStep, MineAssumption DEF Send
<1>2. Ask(Spare)
  BY <1>1, TextIsAChange DEF Ask
<1> QED
  BY <1>1, <1>2 DEF Next

(* runSave: nothing is sent, or the text with the token of its baseline.   *)
LEMMA RunSaveCases ==
    ASSUME NEW flying \in BOOLEAN, NEW others, NEW shown, runSave(flying, others, shown)
    PROVE  \/ NoCall /\ waiting' = others
           \/ /\ Send("patch", base', buffer) /\ waiting' = others \cup {Spare}
              /\ ~conflicted' /\ ~linked /\ ~flying
BY DEF runSave

(* The end of a save: the same, if edits were coalesced.                    *)
LEMMA SettleCases ==
    ASSUME NEW r, NEW shown, Settle(r, shown)
    PROVE  \/ NoCall /\ waiting' = waiting \ {r}
           \/ /\ Send("patch", base', buffer) /\ waiting' = (waiting \ {r}) \cup {Spare}
              /\ ~conflicted' /\ ~linked
BY RunSaveCases DEF Settle

Saves(r) == SaveAccepted(r) \/ SaveConflicts(r) \/ SaveFails(r) \/ SaveIsLost(r)

(* Every step of the tab leaves a baseline that was stored with its token. *)
LEMMA BaselineStep ==
    ASSUME EditorInv, TabStep
    PROVE  base' \in Known /\ lastSaved' \in Text /\ stored[base'] = lastSaved'
<1>0. /\ DocumentsInv /\ base \in Known /\ lastSaved \in Text /\ stored[base] = lastSaved
      /\ Mine \subseteq Request
  BY MineAssumption DEF EditorInv, EditorTypeOK, BaselineIsAVersion
<1>1. CASE UNCHANGED baseline
  BY <1>0, <1>1 DEF baseline
<1>2. ASSUME NEW r \in Mine, SaveAccepted(r)
      PROVE  base' \in Known /\ lastSaved' \in Text /\ stored[base'] = lastSaved'
  <2>1. MineInv(r) /\ IsPatch(r) /\ req[r].answer = "ok"
    BY <1>2 DEF SaveAccepted, Answered, Awaits, IsPatch, EditorInv
  <2>2. base' = req[r].row.stamp /\ lastSaved' = req[r].change
    BY <1>2 DEF SaveAccepted
  <2> QED
    BY <1>0, <2>1, <2>2, RowWasStored DEF MineInv
<1>3. ASSUME NEW r \in Mine, Replace(r)
      PROVE  base' \in Known /\ lastSaved' \in Text /\ stored[base'] = lastSaved'
  BY <1>0, <1>3, RowWasStored DEF Replace
<1>4. CASE Return
  BY <1>0, <1>4, DocIsStored DEF Return
<1>5. ASSUME NEW r \in Mine, Continue(r) \/ SaveIsLost(r)
      PROVE  SaveAccepted(r) \/ Replace(r) \/ UNCHANGED baseline
  BY <1>5 DEF Continue, SaveConflicts, SaveFails, SaveIsLost, Adopt, NotAdopted, adoptPulledDoc
<1>6. (\/ \E text \in Text : Edit(text)
       \/ FireTimer \/ onReloadLatest \/ Leave
       \/ onLink \/ onPull \/ onUnlinkKeepApp \/ onUnlinkPullFinal
       \/ \E v \in Value : onImportFile(v)) => UNCHANGED baseline
  BY DEF Edit, FireTimer, onReloadLatest, Leave, onLink, onPull, onUnlinkKeepApp,
     onUnlinkPullFinal, Unlock, onImportFile
<1> QED
  BY <1>1, <1>2, <1>3, <1>4, <1>5, <1>6 DEF TabStep

(* What the tab asks of the server in one step: nothing, or one call.      *)
Allowed(kind, from, change) ==
    \/ kind = "patch" /\ from \in Known /\ change \in Text
    \/ kind = "get" /\ from = Creation /\ change = NoText
    \/ kind = "import" /\ from = Creation /\ \E v \in Value : change = [f \in {"content"} |-> v]

Calls ==
    \/ NoCall /\ waiting' \subseteq waiting
    \/ \E kind, from, change :
         Allowed(kind, from, change) /\ Send(kind, from, change)
           /\ waiting' \subseteq waiting \cup {Spare}

LEMMA TabCalls ==
    ASSUME EditorInv, TabStep
    PROVE  Calls
<1>0. base' \in Known /\ buffer \in Text
  BY BaselineStep DEF EditorInv, EditorTypeOK
<1>1. CASE Send("patch", base', buffer) /\ waiting' \subseteq waiting \cup {Spare}
  BY <1>0, <1>1 DEF Calls, Allowed
<1>2. CASE NoCall /\ waiting' \subseteq waiting
  BY <1>2 DEF Calls
<1>3. ASSUME Fetch("get", NoText) PROVE Calls
  BY <1>3 DEF Calls, Allowed, Fetch
<1>4. ASSUME NEW v \in Value, onImportFile(v) PROVE Calls
  BY <1>4 DEF Calls, Allowed, Fetch, onImportFile
<1>5. CASE FireTimer
  <2>1. inFlight \in BOOLEAN
    BY DEF EditorInv, EditorTypeOK
  <2> QED
    BY <1>1, <1>2, <1>5, <2>1, RunSaveCases DEF FireTimer
<1>6. ASSUME NEW r \in Mine, Saves(r) PROVE Calls
  BY <1>1, <1>2, <1>6, SettleCases
     DEF Saves, SaveAccepted, SaveConflicts, SaveFails, SaveIsLost
<1>7. ASSUME NEW r \in Mine, Adopt(r) \/ NotAdopted(r) \/ adoptPulledDoc(r)
      PROVE  NoCall /\ waiting' \subseteq waiting
  BY <1>7 DEF Adopt, NotAdopted, adoptPulledDoc, Replace
<1>8. CASE Leave
  <2>1. base' = base /\ waiting' = {}
    BY <1>8 DEF Leave, baseline
  <2> QED
    BY <1>1, <1>2, <1>8, <2>1 DEF Leave
<1>9. CASE onReloadLatest \/ onPull \/ onUnlinkPullFinal
  BY <1>3, <1>9 DEF onReloadLatest, onPull, onUnlinkPullFinal
<1>10. CASE (\E text \in Text : Edit(text)) \/ Return \/ onLink \/ onUnlinkKeepApp
  BY <1>2, <1>10 DEF Edit, Return, onLink, onUnlinkKeepApp
<1> QED
  BY <1>4, <1>5, <1>6, <1>7, <1>2, <1>8, <1>9, <1>10 DEF TabStep, Continue, Saves

(* The tab asks nothing that the routes do not answer.                     *)
LEMMA TabIsAClient ==
    ASSUME EditorInv, TabStep
    PROVE  [Next]_vars
BY TabCalls, SendIsAStep DEF Calls, Allowed, NoCall, EditorInv

LEMMA ServerIsAClient ==
    ASSUME EditorInv, ServerStep
    PROVE  Next
<1>1. doc.stamp \in Known /\ Mine \subseteq Request
  BY DocIsStored, MineAssumption DEF EditorInv
<1>2. ASSUME NEW r \in Request, Elsewhere(r) PROVE Ask(r)
  BY <1>1, <1>2 DEF Elsewhere, Ask
<1> QED
  BY <1>1, <1>2 DEF ServerStep, Next

-----------------------------------------------------------------------------
(* The tab's steps, one part of the invariant after the other              *)

(* In what follows a call is all that happens on the server.               *)
LEMMA CallsFrame ==
    ASSUME EditorInv, TabStep
    PROVE  /\ DocumentsInv' /\ UNCHANGED <<doc, stored>>
           /\ \/ UNCHANGED req /\ waiting' \subseteq waiting
              \/ /\ Spare \in Mine \ waiting /\ waiting' \subseteq waiting \cup {Spare}
                 /\ req[Spare].at = "unsent" /\ stored[Spare] = NoText
                 /\ req'[Spare].at = "received" /\ req'[Spare].answer = "none"
                 /\ req'[Spare].kind = "patch" => req'[Spare].change \in Text
                 /\ \A r \in Request \ {Spare} : req'[r] = req[r]
<1>1. DocumentsInv'
  BY TabIsAClient, InvStep DEF EditorInv
<1>2. CASE NoCall /\ waiting' \subseteq waiting
  BY <1>1, <1>2 DEF NoCall, vars
<1>3. ASSUME NEW kind, NEW from, NEW change, Allowed(kind, from, change),
             Send(kind, from, change), waiting' \subseteq waiting \cup {Spare}
      PROVE  /\ UNCHANGED <<doc, stored>>
             /\ Spare \in Mine \ waiting
             /\ req[Spare].at = "unsent" /\ stored[Spare] = NoText
             /\ req'[Spare].at = "received" /\ req'[Spare].answer = "none"
             /\ req'[Spare].kind = "patch" => req'[Spare].change \in Text
             /\ \A r \in Request \ {Spare} : req'[r] = req[r]
  <2>1. Spare \in Mine /\ MineInv(Spare)
    BY <1>3, SendStep, MineAssumption DEF EditorInv
  <2> QED
    BY <1>3, <2>1, SendStep, MineAssumption DEF EditorInv, MineInv, Allowed
<1> QED
  BY <1>1, <1>2, <1>3, TabCalls DEF Calls

(* What pulls is awaited, and it is no save.                               *)
LEMMA PullsAreAwaited ==
    ASSUME EditorInv, TabStep
    PROVE  /\ pulled' \subseteq waiting'
           /\ \A r \in pulled' \ pulled : r = Spare /\ req'[r].kind = "get"
<1>0. pulled \subseteq waiting /\ waiting \subseteq Mine /\ \A r \in waiting : MineInv(r)
  BY DEF EditorInv, EditorTypeOK
<1>1. ASSUME Fetch("get", NoText), pulled' = {Spare}
      PROVE  /\ pulled' \subseteq waiting'
             /\ \A r \in pulled' \ pulled : r = Spare /\ req'[r].kind = "get"
  BY <1>1, SendStep, MineAssumption DEF Fetch, EditorInv
<1>2. ASSUME UNCHANGED pulled, waiting \subseteq waiting'
      PROVE  pulled' \subseteq waiting' /\ pulled' \ pulled = {}
  BY <1>0, <1>2
<1>3. CASE FireTimer
  BY <1>0, <1>2, <1>3, RunSaveCases DEF FireTimer, lock, EditorInv, EditorTypeOK
<1>4. ASSUME NEW r \in Mine, Saves(r)
      PROVE  pulled' \subseteq waiting' /\ pulled' \ pulled = {}
  <2>1. \E shown : Settle(r, shown)
    BY <1>4 DEF Saves, SaveAccepted, SaveConflicts, SaveFails, SaveIsLost
  <2>2. waiting \ {r} \subseteq waiting'
    BY <2>1, SettleCases
  <2>3. UNCHANGED pulled /\ Awaits(r, "patch")
    BY <1>4 DEF Saves, SaveAccepted, SaveConflicts, SaveFails, SaveIsLost, Answered, lock
  <2>4. r \notin pulled
    BY <1>0, <2>3 DEF Awaits, MineInv, IsPatch
  <2> QED
    BY <1>0, <2>2, <2>3, <2>4
<1>5. ASSUME NEW r \in Mine, Adopt(r) \/ NotAdopted(r) \/ adoptPulledDoc(r)
      PROVE  pulled' \subseteq waiting' /\ pulled' \ pulled = {}
  BY <1>0, <1>5 DEF Adopt, NotAdopted, adoptPulledDoc, Replace
<1>6. CASE Leave
  BY <1>6 DEF Leave
<1>7. CASE onPull \/ onUnlinkPullFinal
  BY <1>1, <1>7 DEF onPull, onUnlinkPullFinal
<1>8. CASE onReloadLatest \/ \E v \in Value : onImportFile(v)
  BY <1>2, <1>8 DEF onReloadLatest, onImportFile, Fetch, lock
<1>9. CASE (\E text \in Text : Edit(text)) \/ Return \/ onLink \/ onUnlinkKeepApp
  BY <1>2, <1>9 DEF Edit, Return, onLink, onUnlinkKeepApp, lock
<1> QED
  BY <1>3, <1>4, <1>5, <1>6, <1>7, <1>8, <1>9 DEF TabStep, Continue, Saves

(* Its saves ask for texts, and none of them pulls.                         *)
LEMMA TabKeepsMine ==
    ASSUME EditorInv, TabStep, NEW r \in Mine
    PROVE  MineInv(r)'
<1>0. r \in pulled' => r \in pulled \/ req'[r].kind = "get"
  BY PullsAreAwaited
<1>1. MineInv(r) /\ r \in Request
  BY MineAssumption DEF EditorInv
<1>2. CASE UNCHANGED req /\ waiting' \subseteq waiting
  BY <1>0, <1>1, <1>2 DEF MineInv, IsPatch
<1>3. CASE /\ Spare \in Mine \ waiting /\ waiting' \subseteq waiting \cup {Spare}
           /\ req'[Spare].at = "received" /\ req'[Spare].answer = "none"
           /\ req'[Spare].kind = "patch" => req'[Spare].change \in Text
           /\ \A x \in Request \ {Spare} : req'[x] = req[x]
  <2>1. CASE r = Spare
    <3>1. r \notin pulled
      BY <1>3, <2>1 DEF EditorInv, EditorTypeOK
    <3> QED
      BY <1>0, <1>3, <2>1, <3>1 DEF MineInv, IsPatch
  <2>2. CASE r # Spare
    BY <1>0, <1>1, <1>3, <2>2 DEF MineInv, IsPatch
  <2> QED
    BY <2>1, <2>2
<1> QED
  BY <1>2, <1>3, CallsFrame

Flags == /\ inFlight \in BOOLEAN /\ pending \in BOOLEAN /\ timer \in BOOLEAN
         /\ conflicted \in BOOLEAN /\ linked \in BOOLEAN /\ lost \in BOOLEAN
         /\ reordered \in BOOLEAN
Slips == {"reverted", "crossed", "left", "locked"}

(* The types of what the save loop sets.                                    *)
LEMMA RunSaveType ==
    ASSUME NEW flying \in BOOLEAN, NEW others, NEW shown \in Statuses,
           pending \in BOOLEAN, slips \subseteq Slips, runSave(flying, others, shown)
    PROVE  /\ inFlight' \in BOOLEAN /\ pending' \in BOOLEAN
           /\ status' \in Statuses /\ slips' \subseteq Slips
BY DEF runSave, Crossing, Statuses, Slips

LEMMA SettleType ==
    ASSUME NEW r, NEW shown \in Statuses,
           pending \in BOOLEAN, slips \subseteq Slips, Settle(r, shown)
    PROVE  /\ inFlight' \in BOOLEAN /\ pending' \in BOOLEAN
           /\ status' \in Statuses /\ slips' \subseteq Slips
BY RunSaveType DEF Settle

LEMMA TabKeepsTypes ==
    ASSUME EditorInv, TabStep
    PROVE  EditorTypeOK'
<1> DEFINE Rest == /\ page \in {"open", "closed"} /\ buffer \in Text
                   /\ Flags /\ status \in Statuses /\ slips \subseteq Slips
<1>0. Rest /\ waiting \subseteq Mine /\ pulled \subseteq waiting /\ DocumentsInv
  BY DEF EditorInv, EditorTypeOK, Flags, Slips
<1>1. ASSUME NEW text \in Text, Edit(text) PROVE Rest'
  BY <1>0, <1>1 DEF Edit, Flags, baseline, flight, lock, Statuses
<1>2. ASSUME FireTimer PROVE Rest'
  <2>1. runSave(inFlight, waiting, status)
    BY <1>2 DEF FireTimer
  <2>2. /\ inFlight' \in BOOLEAN /\ pending' \in BOOLEAN
        /\ status' \in Statuses /\ slips' \subseteq Slips
    BY <1>0, <2>1, RunSaveType DEF Flags
  <2>3. UNCHANGED <<page, buffer, lastSaved, base, reordered, conflicted, linked, lost>>
    BY <1>2 DEF FireTimer, baseline, lock
  <2>4. timer' \in BOOLEAN
    BY <1>2 DEF FireTimer
  <2> QED
    BY <1>0, <2>2, <2>3, <2>4 DEF Flags
<1>3. ASSUME NEW r \in Mine, Saves(r) PROVE Rest'
  <2>1. \E shown \in Statuses : Settle(r, shown)
    BY <1>3 DEF Saves, SaveAccepted, SaveConflicts, SaveFails, SaveIsLost, Statuses
  <2>2. /\ inFlight' \in BOOLEAN /\ pending' \in BOOLEAN
        /\ status' \in Statuses /\ slips' \subseteq Slips
    BY <1>0, <2>1, SettleType DEF Flags
  <2>3. /\ UNCHANGED <<page, buffer, linked>>
        /\ timer' \in {timer, FALSE} /\ conflicted' \in {conflicted, TRUE}
        /\ lost' \in {lost, TRUE} /\ reordered' \in {reordered, FALSE}
    BY <1>3 DEF Saves, SaveAccepted, SaveConflicts, SaveFails, SaveIsLost, baseline, lock
  <2> QED
    BY <1>0, <2>2, <2>3 DEF Flags
<1>4. ASSUME NEW r \in Mine, Replace(r), conflicted' \in {conflicted, FALSE},
             status' \in Statuses
      PROVE  Rest'
  <2>1. /\ buffer' \in Text /\ inFlight' = FALSE /\ pending' = FALSE
        /\ timer' = (timer \/ ~(conflicted \/ linked))
        /\ reordered' = Reorders(req[r].row.text)
        /\ UNCHANGED <<page, linked, lost, slips>>
    BY <1>0, <1>4, RowWasStored, MineAssumption DEF Replace
  <2>2. timer' \in BOOLEAN /\ reordered' \in BOOLEAN
    BY <2>1 DEF Reorders
  <2> QED
    BY <1>0, <1>4, <2>1, <2>2 DEF Flags
<1>5. ASSUME NEW r \in Mine, Adopt(r) \/ adoptPulledDoc(r) PROVE Rest'
  BY <1>0, <1>4, <1>5 DEF Adopt, adoptPulledDoc, Statuses
<1>6. ASSUME NEW r \in Mine, NotAdopted(r) PROVE Rest'
  BY <1>0, <1>6 DEF NotAdopted, baseline, flight, Flags, Statuses
<1>7. ASSUME onReloadLatest \/ (\E v \in Value : onImportFile(v)) PROVE Rest'
  BY <1>0, <1>7 DEF onReloadLatest, onImportFile, Fetch, Crossing, baseline, flight, lock,
     Flags, Statuses, Slips
<1>8. ASSUME onLink PROVE Rest'
  BY <1>0, <1>8 DEF onLink, baseline, flight, Flags, Statuses, Slips
<1>9. ASSUME onPull \/ onUnlinkKeepApp \/ onUnlinkPullFinal PROVE Rest'
  BY <1>0, <1>9 DEF onPull, onUnlinkKeepApp, onUnlinkPullFinal, Unlock, Fetch, Crossing,
     baseline, flight, Flags, Statuses, Slips
<1>10. ASSUME Leave PROVE Rest'
  BY <1>0, <1>10 DEF Leave, baseline, Flags, Slips
<1>11. ASSUME Return PROVE Rest'
  <2>1. /\ page' = "open" /\ linked' \in {linked, FALSE} /\ buffer' = doc.text
        /\ reordered' = Reorders(doc.text) /\ conflicted' = FALSE
        /\ timer' = ~linked' /\ status' = (IF linked' THEN "saved" ELSE "unsaved")
        /\ UNCHANGED <<inFlight, pending, lost, slips>>
    BY <1>11 DEF Return, flight
  <2>2. timer' \in BOOLEAN /\ reordered' \in BOOLEAN /\ linked' \in BOOLEAN
    BY <1>0, <2>1 DEF Reorders, Flags
  <2> QED
    BY <1>0, <2>1, <2>2, DocIsStored DEF Flags, Statuses
<1> HIDE DEF Rest
<1>12. Rest'
  BY <1>1, <1>2, <1>3, <1>5, <1>6, <1>7, <1>8, <1>9, <1>10, <1>11
     DEF TabStep, Continue, Saves
<1>13. waiting' \subseteq Mine
  BY <1>0, CallsFrame
<1>14. pulled' \subseteq waiting'
  BY PullsAreAwaited
<1>15. base' \in Known' /\ lastSaved' \in Text /\ TypeOK'
  BY BaselineStep, CallsFrame DEF Known, DocumentsInv
<1> QED
  BY <1>12, <1>13, <1>14, <1>15 DEF Rest, EditorTypeOK, Flags, Slips

LEMMA TabKeepsBaseline ==
    ASSUME EditorInv, TabStep
    PROVE  BaselineIsAVersion'
BY BaselineStep, CallsFrame DEF BaselineIsAVersion

(* Nothing is left to happen to a page that was left.                       *)
LEMMA TabKeepsClosed ==
    ASSUME EditorInv, TabStep
    PROVE  page' = "closed" => waiting' = {} /\ ~inFlight' /\ ~pending' /\ ~timer'
<1>1. CASE Leave
  BY <1>1 DEF Leave
<1>2. CASE page' = "open"
  BY <1>2
<1>3. CASE page = "closed" /\ TabStep /\ page' = "closed"
  <2>1. waiting = {} /\ ~inFlight /\ ~pending /\ ~timer /\ page # "open"
    BY <1>3 DEF EditorInv
  <2>2. \A r \in Mine : ~Continue(r) /\ ~SaveIsLost(r)
    BY <2>1 DEF Continue, SaveIsLost, SaveAccepted, SaveConflicts, SaveFails, Adopt, NotAdopted,
       adoptPulledDoc, Answered, Awaits, EditorInv, EditorTypeOK
  <2>3. ~FireTimer /\ ~onReloadLatest /\ ~onLink /\ ~onPull /\ ~onUnlinkKeepApp
        /\ ~onUnlinkPullFinal /\ ~Return /\ ~Leave
        /\ (\A text \in Text : ~Edit(text)) /\ (\A v \in Value : ~onImportFile(v))
    BY <1>3, <2>1 DEF FireTimer, onReloadLatest, onLink, onPull, onUnlinkKeepApp,
       onUnlinkPullFinal, Return, Leave, Edit, onImportFile, Act
  <2> QED
    BY <1>3, <2>2, <2>3 DEF TabStep
<1>4. page \in {"open", "closed"} /\ page' \in {"open", "closed"}
  BY TabKeepsTypes DEF EditorInv, EditorTypeOK
<1>5. CASE page = "open" /\ page' = "closed"
  <2>1. \A r \in Mine : Continue(r) \/ SaveIsLost(r) => page' = page
    BY DEF Continue, SaveIsLost, SaveAccepted, SaveConflicts, SaveFails, Adopt, NotAdopted,
       adoptPulledDoc, Replace
  <2>2. FireTimer \/ onReloadLatest \/ onLink \/ onPull \/ onUnlinkKeepApp \/ onUnlinkPullFinal
          \/ (\E text \in Text : Edit(text)) \/ (\E v \in Value : onImportFile(v))
        => page' = page
    BY DEF FireTimer, onReloadLatest, onLink, onPull, onUnlinkKeepApp, onUnlinkPullFinal,
       Unlock, Edit, onImportFile
  <2>3. Return => page' = "open"
    BY DEF Return
  <2> QED
    BY <1>1, <1>5, <2>1, <2>2, <2>3 DEF TabStep
<1> QED
  BY <1>2, <1>3, <1>4, <1>5

(* A slip is never forgotten.                                              *)
LEMMA SlipsStay ==
    ASSUME EditorInv, TabStep
    PROVE  slips \subseteq slips' /\ (lost => lost')
<1>1. ASSUME NEW r \in Mine, Saves(r) PROVE slips \subseteq slips' /\ (lost => lost')
  <2>1. \E shown : Settle(r, shown)
    BY <1>1 DEF Saves, SaveAccepted, SaveConflicts, SaveFails, SaveIsLost
  <2>2. lost => lost'
    BY <1>1 DEF Saves, SaveAccepted, SaveConflicts, SaveFails, SaveIsLost
  <2> QED
    BY <2>1, <2>2 DEF Settle, runSave, Crossing
<1>2. ASSUME NEW r \in Mine, Adopt(r) \/ NotAdopted(r) \/ adoptPulledDoc(r)
      PROVE  UNCHANGED <<slips, lost>>
  BY <1>2 DEF Adopt, NotAdopted, adoptPulledDoc, Replace
<1>3. FireTimer => slips \subseteq slips' /\ UNCHANGED lost
  BY DEF FireTimer, runSave, Crossing
<1>4. onReloadLatest \/ onPull \/ onUnlinkPullFinal \/ (\E v \in Value : onImportFile(v))
        => slips \subseteq slips' /\ UNCHANGED lost
  BY DEF onReloadLatest, onPull, onUnlinkPullFinal, onImportFile, Unlock, Fetch, Crossing
<1>5. Leave \/ onLink => slips \subseteq slips' /\ UNCHANGED lost
  BY DEF Leave, onLink
<1>6. (\E text \in Text : Edit(text)) \/ Return \/ onUnlinkKeepApp => UNCHANGED <<slips, lost>>
  BY DEF Edit, Return, onUnlinkKeepApp, Unlock
<1> QED
  BY <1>1, <1>2, <1>3, <1>4, <1>5, <1>6 DEF TabStep, Continue, Saves

(* Uncrossed, a call that is awaited is the only one.                      *)
LEMMA Alone ==
    ASSUME EditorInv, Uncrossed, NEW r \in waiting
    PROVE  waiting = {r} /\ r \in Mine /\ MineInv(r)
BY DEF EditorInv, EditorTypeOK, OneCall

(* What a save's handler, the timer and a fetch make of the calls that are *)
(* awaited, if none of them crosses another.                               *)
LEMMA SavesAlone ==
    ASSUME EditorInv, Uncrossed, NEW r \in Mine, NEW shown, Settle(r, shown),
           Awaits(r, "patch")
    PROVE  /\ waiting = {r} /\ IsPatch(r) /\ inFlight /\ ~conflicted
           /\ \/ /\ NoCall /\ waiting' = {} /\ inFlight' = FALSE /\ pending' = FALSE
                 /\ status' = shown
                 /\ ~pending \/ conflicted' \/ linked \/ ~isDirty'
              \/ /\ Send("patch", base', buffer) /\ waiting' = {Spare}
                 /\ inFlight' = TRUE /\ ~conflicted' /\ status' = "saving"
<1>1. r \in waiting /\ waiting = {r} /\ MineInv(r) /\ IsPatch(r)
  BY Alone DEF Awaits, MineInv, IsPatch
<1>2. inFlight /\ ~conflicted
  BY <1>1 DEF EditorInv, OneCall
<1>3. waiting \ {r} = {}
  BY <1>1
<1> QED
  BY <1>1, <1>2, <1>3 DEF Settle, runSave

LEMMA FireAlone ==
    ASSUME EditorInv, Uncrossed, Uncrossed', FireTimer
    PROVE  \/ /\ NoCall /\ waiting' = waiting /\ inFlight' = inFlight /\ status' = status
              /\ \/ conflicted \/ linked
                 \/ ~isDirty /\ (inFlight => "reverted" \in slips')
                 \/ inFlight /\ pending' = TRUE
           \/ /\ Send("patch", base', buffer) /\ waiting = {} /\ waiting' = {Spare}
              /\ inFlight' = TRUE /\ ~conflicted' /\ status' = "saving"
<1>1. runSave(inFlight, waiting, status) /\ UNCHANGED <<conflicted, buffer, lastSaved, reordered>>
  BY DEF FireTimer, baseline
<1>2. isDirty' <=> isDirty
  BY <1>1 DEF isDirty
<1>3. ASSUME Send("patch", base', buffer), ~inFlight,
             Crossing({x \in waiting : req[x].kind # "patch"})
      PROVE  waiting = {}
  <2>1. \A x \in waiting : req[x].kind = "patch"
    BY <1>3 DEF Crossing, Uncrossed
  <2>2. \A x \in waiting : IsPatch(x)
    BY <2>1, Alone DEF MineInv, IsPatch
  <2> QED
    BY <1>3, <2>2 DEF EditorInv, OneCall
<1>4. inFlight \in BOOLEAN
  BY DEF EditorInv, EditorTypeOK
<1> QED
  BY <1>1, <1>2, <1>3, <1>4 DEF runSave

LEMMA FetchAlone ==
    ASSUME EditorInv, Uncrossed', NEW kind, NEW change, Fetch(kind, change)
    PROVE  /\ waiting = {} /\ waiting' = {Spare} /\ Send(kind, Creation, change)
           /\ Spare \in Mine /\ req'[Spare].kind = kind
BY SendStep, MineAssumption DEF Fetch, Crossing, Uncrossed, EditorInv

(* The single flight.                                                       *)
LEMMA TabKeepsOneCall ==
    ASSUME EditorInv, TabStep, Uncrossed'
    PROVE  OneCall'
<1>0. Uncrossed /\ OneCall /\ waiting \subseteq Mine /\ Mine \subseteq Request
  BY SlipsStay, MineAssumption DEF Uncrossed, EditorInv, EditorTypeOK
<1>1. ASSUME waiting' = {}, inFlight' = FALSE PROVE OneCall'
  BY <1>1 DEF OneCall
<1>2. ASSUME NEW kind, NEW from, NEW change, Send(kind, from, change), waiting' = {Spare},
             inFlight' <=> kind = "patch", kind = "patch" => ~conflicted'
      PROVE  OneCall'
  <2>1. PICK new \in Mine : new = Spare
    BY <1>0, <1>2, SendStep DEF EditorInv
  <2>2. IsPatch(new)' <=> kind = "patch"
    BY <1>0, <1>2, <2>1, SendStep DEF IsPatch, EditorInv
  <2> QED
    BY <1>2, <2>1, <2>2 DEF OneCall
<1>3. ASSUME UNCHANGED <<req, waiting, inFlight>>, conflicted' => conflicted
      PROVE  OneCall'
  BY <1>0, <1>3 DEF OneCall, IsPatch
<1>4. CASE FireTimer
  <2>1. UNCHANGED conflicted
    BY <1>4 DEF FireTimer
  <2> QED
    BY <1>0, <1>2, <1>3, <1>4, <2>1, FireAlone DEF NoCall, vars
<1>5. ASSUME NEW r \in Mine, Saves(r) PROVE OneCall'
  <2>1. PICK shown : Settle(r, shown)
    BY <1>5 DEF Saves, SaveAccepted, SaveConflicts, SaveFails, SaveIsLost
  <2>2. Awaits(r, "patch")
    BY <1>5 DEF Saves, SaveAccepted, SaveConflicts, SaveFails, SaveIsLost, Answered
  <2> QED
    BY <1>0, <1>1, <1>2, <2>1, <2>2, SavesAlone
<1>6. ASSUME NEW r \in Mine, Adopt(r) \/ NotAdopted(r) \/ adoptPulledDoc(r)
      PROVE  OneCall'
  <2>1. r \in waiting /\ ~IsPatch(r) /\ waiting' = waiting \ {r} /\ inFlight' \in {inFlight, FALSE}
    BY <1>6 DEF Adopt, NotAdopted, adoptPulledDoc, Replace, Answered, Awaits, IsPatch, MineInv,
       EditorInv, EditorTypeOK, flight
  <2>2. waiting = {r}
    BY <1>0, <2>1, Alone
  <2>3. inFlight' = FALSE
    BY <1>0, <2>1, <2>2 DEF OneCall, EditorInv, EditorTypeOK
  <2> QED
    BY <1>1, <2>1, <2>2, <2>3
<1>7. ASSUME Fetch("get", NoText) \/ (\E change : Fetch("import", change)), UNCHANGED inFlight
      PROVE  OneCall'
  <2>1. waiting = {}
    BY <1>7, FetchAlone
  <2>2. inFlight' = FALSE
    BY <1>0, <1>7, <2>1 DEF OneCall, EditorInv, EditorTypeOK
  <2> QED
    BY <1>2, <1>7, <2>2, FetchAlone
<1>8. CASE onReloadLatest \/ onPull \/ onUnlinkPullFinal \/ \E v \in Value : onImportFile(v)
  BY <1>7, <1>8 DEF onReloadLatest, onPull, onUnlinkPullFinal, Unlock, onImportFile, flight
<1>9. CASE Leave
  BY <1>1, <1>9 DEF Leave
<1>10. CASE (\E text \in Text : Edit(text)) \/ Return \/ onLink \/ onUnlinkKeepApp
  BY <1>3, <1>10 DEF Edit, Return, onLink, onUnlinkKeepApp, Unlock, NoCall, vars, flight
<1> QED
  BY <1>4, <1>5, <1>6, <1>8, <1>9, <1>10 DEF TabStep, Continue, Saves

(* The text that is shown is accounted for.                                 *)
LEMMA TabKeepsSaves ==
    ASSUME EditorInv, TabStep, Quiet'
    PROVE  SaveInv'
<1>0. /\ Quiet /\ SaveInv /\ Uncrossed /\ Uncrossed' /\ OneCall
      /\ waiting \subseteq Mine /\ Mine \subseteq Request
  BY SlipsStay, MineAssumption DEF Quiet, Uncrossed, EditorInv, EditorTypeOK
<1>1. ASSUME waiting' = {}, conflicted' => status' # "saved",
             (page' = "open" /\ ~linked' /\ status' = "saved" /\ ~timer' /\ ~inFlight')
               => buffer' = lastSaved'
      PROVE  SaveInv'
  BY <1>1 DEF SaveInv
<1>2. ASSUME conflicted' => status' # "saved", linked' \/ timer' \/ conflicted'
      PROVE  SaveInv'
  BY <1>2 DEF SaveInv, Scheduled
<1>3. ASSUME NEW from, Send("patch", from, buffer), waiting' = {Spare},
             status' = "saving", buffer' = buffer
      PROVE  SaveInv'
  BY <1>0, <1>3, SendStep DEF SaveInv, EditorInv
<1>4. ASSUME NEW kind \in {"get", "import"}, NEW from, NEW change, Send(kind, from, change),
             waiting' = {Spare}, conflicted' => status' # "saved",
             (page' = "open" /\ ~linked' /\ status' = "saved" /\ ~timer' /\ ~inFlight')
               => buffer' = lastSaved'
      PROVE  SaveInv'
  BY <1>0, <1>4, SendStep DEF SaveInv, IsPatch, EditorInv
<1>5. ASSUME NEW text \in Text, Edit(text) PROVE SaveInv'
  <2>1. conflicted' = conflicted /\ IF conflicted THEN status' = status
                                    ELSE timer' = TRUE
    BY <1>5 DEF Edit
  <2> QED
    BY <1>0, <1>2, <2>1 DEF SaveInv
<1>6. ASSUME FireTimer PROVE SaveInv'
  <2>1. /\ UNCHANGED <<page, buffer, lastSaved, reordered, conflicted, linked>>
        /\ timer' = FALSE
    BY <1>6 DEF FireTimer, baseline, lock
  <2>2. CASE /\ NoCall /\ waiting' = waiting /\ inFlight' = inFlight /\ status' = status
             /\ conflicted \/ linked
    BY <1>0, <2>1, <2>2 DEF SaveInv, Scheduled
  <2>3. CASE /\ NoCall /\ waiting' = waiting /\ inFlight' = inFlight /\ status' = status
             /\ ~isDirty /\ (inFlight => "reverted" \in slips')
    <3>1. ~inFlight /\ \A r \in waiting : ~IsPatch(r)
      BY <1>0, <2>3 DEF Quiet, OneCall
    <3>2. \A r \in waiting' : ~IsPatch(r)'
      BY <2>3, <3>1 DEF NoCall, vars, IsPatch
    <3> QED
      BY <1>0, <2>1, <2>3, <3>2 DEF SaveInv, isDirty
  <2>4. CASE /\ NoCall /\ waiting' = waiting /\ inFlight' = inFlight /\ status' = status
             /\ inFlight /\ pending' = TRUE
    BY <1>0, <2>1, <2>4 DEF SaveInv, Scheduled
  <2>5. CASE /\ Send("patch", base', buffer) /\ waiting' = {Spare} /\ status' = "saving"
    BY <1>3, <2>1, <2>5
  <2> QED
    BY <1>0, <1>6, <2>2, <2>3, <2>4, <2>5, FireAlone
<1>7. ASSUME NEW r \in Mine, Saves(r) PROVE SaveInv'
  <2>1. PICK shown : /\ Settle(r, shown)
                     /\ \/ shown = "saved" /\ SaveAccepted(r)
                        \/ shown = "conflict" \/ shown = "error"
    BY <1>7 DEF Saves, SaveAccepted, SaveConflicts, SaveFails, SaveIsLost
  <2>2. Awaits(r, "patch") /\ UNCHANGED <<buffer, page, linked>>
    BY <1>7 DEF Saves, SaveAccepted, SaveConflicts, SaveFails, SaveIsLost, Answered, lock
  <2>3. CASE Send("patch", base', buffer) /\ waiting' = {Spare} /\ status' = "saving"
    BY <1>3, <2>2, <2>3
  <2>4. CASE /\ waiting' = {} /\ inFlight' = FALSE /\ status' = shown
             /\ ~pending \/ conflicted' \/ linked \/ ~isDirty'
    <3>1. CASE shown # "saved"
      BY <1>1, <2>4, <3>1
    <3>2. CASE shown = "saved" /\ SaveAccepted(r)
      <4>1. waiting = {r} /\ IsPatch(r) /\ ~conflicted
        BY <1>0, <2>1, <2>2, SavesAlone
      <4>2. /\ lastSaved' = req[r].change
            /\ UNCHANGED <<timer, conflicted>>
        BY <3>2 DEF SaveAccepted
      <4>3. (page = "open" /\ ~linked /\ ~timer /\ ~pending) => buffer = req[r].change
        BY <1>0, <4>1 DEF SaveInv, Scheduled
      <4> QED
        BY <1>1, <2>2, <2>4, <4>1, <4>2, <4>3 DEF isDirty
    <3> QED
      BY <2>1, <3>1, <3>2
  <2> QED
    BY <1>0, <2>1, <2>2, <2>3, <2>4, SavesAlone
<1>8. ASSUME NEW r \in Mine, Adopt(r) \/ adoptPulledDoc(r) PROVE SaveInv'
  <2>1. /\ r \in waiting /\ waiting' = waiting \ {r} /\ buffer' = lastSaved'
        /\ \/ conflicted' = FALSE
           \/ conflicted' = conflicted /\ (conflicted => status' = status)
    BY <1>8 DEF Adopt, adoptPulledDoc, Replace, Answered, Awaits
  <2>2. waiting' = {}
    BY <1>0, <2>1, Alone
  <2> QED
    BY <1>0, <1>1, <2>1, <2>2 DEF SaveInv
<1>9. ASSUME NEW r \in Mine, NotAdopted(r) PROVE SaveInv'
  <2>1. /\ r \in waiting /\ waiting' = waiting \ {r}
        /\ UNCHANGED <<page, buffer, lastSaved, inFlight, timer, conflicted, linked>>
        /\ status' \in {status, "conflict"}
    BY <1>9 DEF NotAdopted, Answered, Awaits, baseline, flight, EditorInv, EditorTypeOK
  <2>2. waiting' = {}
    BY <1>0, <2>1, Alone
  <2> QED
    BY <1>0, <1>1, <2>1, <2>2 DEF SaveInv
<1>10. ASSUME onReloadLatest \/ \E v \in Value : onImportFile(v) PROVE SaveInv'
  <2>1. /\ Fetch("get", NoText) \/ \E change : Fetch("import", change)
        /\ UNCHANGED <<page, buffer, lastSaved, inFlight, timer, conflicted, linked>>
        /\ status' \in {status, "saving"}
    BY <1>10 DEF onReloadLatest, onImportFile, baseline, flight, lock
  <2> QED
    BY <1>0, <1>4, <2>1, FetchAlone DEF SaveInv
<1>11. ASSUME Unlock PROVE SaveInv'
  <2>1. conflicted' = conflicted /\ timer' = ~conflicted /\ (conflicted => status' = status)
    BY <1>11 DEF Unlock
  <2> QED
    BY <1>0, <1>2, <2>1 DEF SaveInv
<1>12. ASSUME onPull PROVE SaveInv'
  <2>1. linked' = TRUE /\ UNCHANGED <<conflicted, status>>
    BY <1>12 DEF onPull, EditorInv, EditorTypeOK
  <2> QED
    BY <1>0, <1>2, <2>1 DEF SaveInv
<1>13. ASSUME onLink PROVE SaveInv'
  <2>1. linked' = TRUE /\ conflicted' = conflicted /\ ~conflicted
    BY <1>0, <1>13 DEF onLink, Quiet
  <2> QED
    BY <1>2, <2>1
<1>14. ASSUME Leave \/ Return PROVE SaveInv'
  <2>1. CASE Leave
    <3>1. waiting' = {} /\ page' = "closed" /\ UNCHANGED <<conflicted, status>>
      BY <2>1 DEF Leave
    <3> QED
      BY <1>0, <1>1, <3>1 DEF SaveInv
  <2>2. CASE Return
    <3>1. waiting' = {} /\ conflicted' = FALSE /\ buffer' = lastSaved'
      BY <2>2 DEF Return, EditorInv
    <3> QED
      BY <1>1, <3>1
  <2> QED
    BY <1>14, <2>1, <2>2
<1> QED
  BY <1>5, <1>6, <1>7, <1>8, <1>9, <1>10, <1>11, <1>12, <1>13, <1>14
     DEF TabStep, Continue, Saves, onUnlinkKeepApp, onUnlinkPullFinal

(* A step of the tab that keeps the tokens in step keeps StampInv.         *)
LEMMA StampFrame ==
    ASSUME EditorInv, TabStep, Unslipped, StampInv,
           \A r \in waiting \ waiting' : IsPatch(r) => req[r].at = "answered",
           UNCHANGED req \/ Spare \in waiting',
           \A r \in waiting' : req'[r].kind = "patch" => req'[r].base = base',
           \A own : Current(own) /\ own \notin waiting' => base' = own
    PROVE  StampInv'
<1>0. /\ waiting \subseteq Mine /\ Mine \subseteq Request /\ DocumentsInv
      /\ doc.stamp \in Known /\ UNCHANGED <<doc, stored>>
      /\ \A r \in Request : req[r].row.stamp \in Known
      /\ waiting' \subseteq Mine
  BY CallsFrame, MineAssumption, DocIsStored, RowWasStored, TabKeepsTypes
     DEF EditorInv, EditorTypeOK
<1>1. PICK new :
        /\ waiting' \subseteq waiting \cup {new}
        /\ \A r \in Request \ {new} : req'[r] = req[r]
        /\ req' # req => new \in waiting'
        /\ new \in Mine => stored[new] = NoText /\ req'[new].answer = "none"
  <2>1. CASE UNCHANGED req /\ waiting' \subseteq waiting
    <3>1. PICK new : new \notin Mine
      BY <1>0, NamesAssumption
    <3> QED
      BY <2>1, <3>1
  <2>2. CASE ~UNCHANGED req
    BY <2>2, CallsFrame
  <2>3. CASE UNCHANGED req /\ ~(waiting' \subseteq waiting)
    <3>1. req[Spare].at = "unsent" /\ req'[Spare].at = "received"
      BY <2>3, CallsFrame
    <3> QED
      BY <2>3, <3>1
  <2> QED
    BY <2>1, <2>2, <2>3
<1>2. \A own : Current(own)' => Current(own) /\ own # new
  BY <1>0, <1>1 DEF Current, Known
<1>3. ASSUME NEW r \in Mine, IsPatch(r)', req'[r].at # "answered" PROVE r \in waiting'
  <2>1. CASE req'[r] = req[r]
    BY <1>3, <2>1 DEF IsPatch, StampInv
  <2>2. CASE req'[r] # req[r]
    BY <1>0, <1>1, <2>2
  <2> QED
    BY <2>1, <2>2
<1>4. \A r \in waiting' : IsPatch(r)' => req'[r].base = base'
  BY DEF IsPatch
<1>5. ASSUME NEW own, Current(own)', NEW r \in waiting', req'[r].answer = "ok"
      PROVE  req'[r].row.stamp = own
  <2>1. r \in waiting /\ req'[r] = req[r]
    BY <1>0, <1>1, <1>5
  <2> QED
    BY <1>2, <1>5, <2>1 DEF StampInv
<1>6. ASSUME NEW r \in Mine, NEW own \in Mine PROVE ~SelfConflict(r, own)'
  <2>1. ~SelfConflict(r, own)
    BY DEF StampInv
  <2>2. CASE req'[r] = req[r] /\ req'[own] = req[own]
    BY <2>1, <2>2 DEF SelfConflict
  <2>3. CASE req'[r] # req[r]
    BY <1>0, <1>1, <2>3 DEF SelfConflict
  <2>4. CASE req'[r] = req[r] /\ req'[own] # req[own]
    BY <1>0, <1>1, <2>4 DEF SelfConflict, Known
  <2> QED
    BY <2>2, <2>3, <2>4
<1> QED
  BY <1>2, <1>3, <1>4, <1>5, <1>6 DEF StampInv

(* What the row's last save says of the calls of this tab.                 *)
LEMMA CurrentWasAccepted ==
    ASSUME EditorInv, NEW own, Current(own)
    PROVE  IsPatch(own) /\ req[own].answer = "ok" /\ own \in Request
<1>1. own \in Request /\ stored[own] # NoText /\ req[own].kind = "patch"
  BY DocIsStored, MineAssumption DEF Current, Known, EditorInv
<1>2. RequestInv(own)
  BY <1>1 DEF EditorInv, DocumentsInv
<1> QED
  BY <1>1, <1>2 DEF RequestInv, Writes, IsPatch

(* The token is that of the last save.                                      *)
LEMMA TabKeepsStamps ==
    ASSUME EditorInv, TabStep, Unslipped'
    PROVE  StampInv'
<1>0. /\ Unslipped /\ StampInv /\ Uncrossed /\ Uncrossed' /\ OneCall
      /\ waiting \subseteq Mine /\ Mine \subseteq Request /\ DocumentsInv
      /\ \A r \in waiting : MineInv(r)
  BY SlipsStay, MineAssumption DEF Unslipped, Uncrossed, EditorInv, EditorTypeOK
<1>1. \A own : Current(own) => IsPatch(own) /\ req[own].answer = "ok"
  BY CurrentWasAccepted
<1>2. ASSUME NoCall, UNCHANGED <<base, waiting>> PROVE StampInv'
  <2>1. UNCHANGED req
    BY <1>2 DEF NoCall, vars
  <2>2. \A r \in waiting : req[r].kind = "patch" => req[r].base = base
    BY <1>0 DEF StampInv, MineInv, IsPatch
  <2>3. \A own : Current(own) /\ own \notin waiting => base = own
    BY <1>0 DEF StampInv
  <2> QED
    BY <1>0, <1>2, <2>1, <2>2, <2>3, StampFrame
<1>3. ASSUME NEW gone \in SUBSET waiting, waiting' = {}, NoCall, waiting = gone,
             \A r \in gone : req[r].at = "answered",
             \A own : Current(own) => base' = own
      PROVE  StampInv'
  <2>1. UNCHANGED req
    BY <1>3 DEF NoCall, vars
  <2> QED
    BY <1>0, <1>3, <2>1, StampFrame
<1>4. ASSUME NEW kind, NEW change, Send(kind, base', change), waiting' = {Spare},
             \A r \in waiting : req[r].at = "answered",
             \A own : Current(own) => base' = own
      PROVE  StampInv'
  <2>1. req'[Spare].base = base'
    BY <1>0, <1>4, SendStep
  <2> QED
    BY <1>0, <1>4, <2>1, StampFrame
<1>5. ASSUME waiting = {} PROVE \A own : Current(own) => base = own
  BY <1>0, <1>5 DEF StampInv
<1>6. CASE FireTimer
  <2>1. base' = base
    BY <1>6 DEF FireTimer, baseline
  <2> QED
    BY <1>0, <1>2, <1>4, <1>5, <1>6, <2>1, FireAlone
<1>7. ASSUME NEW r \in Mine, Saves(r) PROVE StampInv'
  <2>1. PICK shown : Settle(r, shown)
    BY <1>7 DEF Saves, SaveAccepted, SaveConflicts, SaveFails, SaveIsLost
  <2>2. ~SaveIsLost(r)
    BY <1>0 DEF SaveIsLost, Unslipped
  <2>3. Answered(r, "patch") /\ Awaits(r, "patch")
    BY <1>7, <2>2 DEF Saves, SaveAccepted, SaveConflicts, SaveFails, Answered
  <2>4. waiting = {r} /\ MineInv(r) /\ IsPatch(r) /\ req[r].at = "answered"
    BY <1>0, <2>1, <2>3, SavesAlone DEF Answered
  <2>5. \A own : Current(own) => base' = own
    <3>1. CASE SaveAccepted(r)
      <4>1. req[r].answer = "ok" /\ base' = req[r].row.stamp
        BY <3>1 DEF SaveAccepted
      <4> QED
        BY <1>0, <2>4, <4>1 DEF StampInv
    <3>2. CASE SaveConflicts(r) \/ SaveFails(r)
      <4>1. req[r].answer # "ok" /\ base' = base
        BY <3>2 DEF SaveConflicts, SaveFails, baseline
      <4> QED
        BY <1>0, <1>1, <2>4, <4>1 DEF StampInv
    <3> QED
      BY <1>7, <2>2, <3>1, <3>2 DEF Saves
  <2> QED
    BY <1>0, <1>3, <1>4, <2>1, <2>3, <2>4, <2>5, SavesAlone
<1>8. ASSUME NEW r \in Mine, Adopt(r) \/ NotAdopted(r) \/ adoptPulledDoc(r)
      PROVE  StampInv'
  <2>1. /\ r \in waiting /\ ~IsPatch(r) /\ waiting' = waiting \ {r} /\ NoCall
        /\ req[r].at = "answered"
        /\ \/ req[r].answer = "ok" /\ base' = req[r].row.stamp
           \/ base' = base
    BY <1>0, <1>8 DEF Adopt, NotAdopted, adoptPulledDoc, Replace, Answered, Awaits, IsPatch,
       MineInv, baseline, EditorInv, EditorTypeOK
  <2>2. waiting = {r} /\ waiting' = {}
    BY <1>0, <2>1, Alone
  <2>3. \A own : Current(own) => base' = own
    BY <1>0, <1>1, <2>1, <2>2 DEF StampInv
  <2> QED
    BY <1>3, <2>1, <2>2, <2>3
<1>9. ASSUME NEW kind \in {"get", "import"}, NEW change, Fetch(kind, change), base' = base
      PROVE  StampInv'
  <2>1. PICK new \in Mine : new = Spare
    BY <1>0, <1>9, FetchAlone
  <2>2. waiting = {} /\ waiting' = {new} /\ req'[new].kind = kind
    BY <1>0, <1>9, <2>1, FetchAlone
  <2> QED
    BY <1>0, <1>5, <1>9, <2>1, <2>2, StampFrame
<1>10. CASE onReloadLatest \/ onPull \/ onUnlinkPullFinal \/ \E v \in Value : onImportFile(v)
  BY <1>9, <1>10 DEF onReloadLatest, onPull, onUnlinkPullFinal, Unlock, onImportFile, baseline
<1>11. CASE Leave
  <2>1. waiting = {} /\ ~isDirty
    BY <1>11 DEF Leave, Unslipped
  <2>2. NoCall /\ waiting' = {} /\ base' = base
    BY <1>11, <2>1 DEF Leave, baseline
  <2> QED
    BY <1>2, <2>1, <2>2
<1>12. CASE Return
  <2>1. waiting = {} /\ waiting' = {} /\ NoCall /\ base' = doc.stamp
    BY <1>12 DEF Return, EditorInv
  <2> QED
    BY <1>3, <2>1 DEF Current
<1>13. CASE (\E text \in Text : Edit(text)) \/ onLink \/ onUnlinkKeepApp
  BY <1>2, <1>13 DEF Edit, onLink, onUnlinkKeepApp, Unlock, baseline
<1> QED
  BY <1>6, <1>7, <1>8, <1>10, <1>11, <1>12, <1>13 DEF TabStep, Continue, Saves

LEMMA TabKeepsInv ==
    ASSUME EditorInv, TabStep
    PROVE  EditorInv'
<1>1. DocumentsInv'
  BY CallsFrame
<1> QED
  BY <1>1, TabKeepsTypes, TabKeepsBaseline, TabKeepsClosed, TabKeepsMine, TabKeepsOneCall,
     TabKeepsSaves, TabKeepsStamps DEF EditorInv

-----------------------------------------------------------------------------
(* The server's steps                                                      *)

(* What a step of a route may tell: it answers with the row as it is, or   *)
(* it writes what was asked and answers with that.                         *)
Tells(r) ==
    /\ doc'.stamp = doc.stamp
    /\ req'[r].answer \in {"ok", "conflict"} => req'[r].row.stamp = doc.stamp
    /\ req[r].kind = "patch" => req'[r].answer # "ok"
    /\ req'[r].answer = "conflict" => req[r].base # doc.stamp
    /\ UNCHANGED stored
WritesRow(r) ==
    /\ req[r].kind \in Writes /\ req'[r].answer = "ok"
    /\ doc'.stamp = r /\ req'[r].row = doc'
    /\ doc'.text = Merge(req[r].change, doc.text)
    /\ \A s \in Known : stored'[s] = stored[s]

(* Every step of a route is one or the other, or an intermediate one.       *)
LEMMA ServeFrame ==
    ASSUME DocumentsInv, NEW r \in Request, Serve(r) \/ Fail(r)
    PROVE  /\ \A x \in Request \ {r} : req'[x] = req[x]
           /\ req[r].at \notin {"unsent", "answered"} /\ req'[r].at # "unsent"
           /\ req'[r].kind = req[r].kind /\ req'[r].base = req[r].base
           /\ req'[r].change = req[r].change
           /\ \/ req'[r].at # "answered" /\ req'[r].answer = "none" /\ doc'.stamp = doc.stamp
                 /\ UNCHANGED stored
              \/ req'[r].at = "answered" /\ (Tells(r) \/ WritesRow(r))
<1> DEFINE Frame == /\ \A x \in Request \ {r} : req'[x] = req[x]
                    /\ req[r].at \notin {"unsent", "answered"} /\ req'[r].at # "unsent"
                    /\ req'[r].kind = req[r].kind /\ req'[r].base = req[r].base
                    /\ req'[r].change = req[r].change
           Moves == /\ req'[r].at # "answered" /\ req'[r].answer = "none"
                    /\ doc'.stamp = doc.stamp /\ UNCHANGED stored
           Ends == req'[r].at = "answered" /\ (Tells(r) \/ WritesRow(r))
<1>0. /\ req \in [Request -> Call] /\ req[r] \in Call /\ doc \in Row
      /\ req[r].at # "answered" => req[r].answer = "none" /\ stored[r] = NoText
  BY DEF DocumentsInv, TypeOK, RequestInv
<1>1. ASSUME NEW answer, Reply(r, answer)
      PROVE  /\ \A x \in Request \ {r} : req'[x] = req[x]
             /\ req'[r].kind = req[r].kind /\ req'[r].base = req[r].base
             /\ req'[r].change = req[r].change
             /\ req'[r].at = "answered" /\ req'[r].answer = answer
             /\ answer \in {"ok", "conflict"} => req'[r].row = doc'
  <2> DEFINE shown == IF answer \in {"ok", "conflict"} THEN doc' ELSE req[r].row
             c == [req[r] EXCEPT !.at = "answered", !.answer = answer, !.row = shown]
  <2>1. /\ c.at = "answered" /\ c.answer = answer /\ c.row = shown /\ c.kind = req[r].kind
        /\ c.base = req[r].base /\ c.change = req[r].change
    BY <1>0 DEF Call
  <2>2. req' = [req EXCEPT ![r] = c]
    BY <1>0, <1>1 DEF Reply
  <2> HIDE DEF c
  <2>3. req'[r] = c /\ \A x \in Request \ {r} : req'[x] = req[x]
    BY <1>0, <2>2
  <2> QED
    BY <2>1, <2>3
<1>2. ASSUME NEW place \in Places \ {"unsent", "answered"},
             \/ req' = [req EXCEPT ![r].at = place]
             \/ Proceed(r, place),
             req[r].at \notin {"unsent", "answered"}, doc'.stamp = doc.stamp, UNCHANGED stored
      PROVE  Frame /\ Moves
  <2>1. CASE req' = [req EXCEPT ![r].at = place]
    <3> DEFINE c == [req[r] EXCEPT !.at = place]
    <3>1. /\ c.at = place /\ c.answer = req[r].answer /\ c.kind = req[r].kind
          /\ c.base = req[r].base /\ c.change = req[r].change
      BY <1>0 DEF Call
    <3>2. req' = [req EXCEPT ![r] = c]
      BY <1>0, <2>1
    <3> HIDE DEF c
    <3>3. req'[r] = c /\ \A x \in Request \ {r} : req'[x] = req[x]
      BY <1>0, <3>2
    <3> QED
      BY <1>0, <1>2, <3>1, <3>3
  <2>2. CASE Proceed(r, place)
    <3> DEFINE c == [req[r] EXCEPT !.at = place, !.row = doc]
    <3>1. /\ c.at = place /\ c.answer = req[r].answer /\ c.kind = req[r].kind
          /\ c.base = req[r].base /\ c.change = req[r].change
      BY <1>0 DEF Call
    <3>2. req' = [req EXCEPT ![r] = c]
      BY <1>0, <2>2 DEF Proceed
    <3> HIDE DEF c
    <3>3. req'[r] = c /\ \A x \in Request \ {r} : req'[x] = req[x]
      BY <1>0, <3>2
    <3> QED
      BY <1>0, <1>2, <3>1, <3>3
  <2> QED
    BY <1>2, <2>1, <2>2
<1>3. ASSUME NEW answer, Reply(r, answer), doc'.stamp = doc.stamp, UNCHANGED stored,
             req[r].at \notin {"unsent", "answered"},
             answer = "ok" => req[r].kind # "patch",
             answer = "conflict" => req[r].base # doc.stamp
      PROVE  Frame /\ Ends
  BY <1>1, <1>3 DEF Tells
<1>4. CASE Fail(r)
  BY <1>3, <1>4 DEF Fail, ReadOnly
<1>5. ASSUME NEW snapshots, Update(r, snapshots), req[r].kind \in Writes, req[r].at = "write"
      PROVE  Frame /\ Ends
  <2>1. CASE ~doc.live
    BY <1>3, <1>5, <2>1 DEF Update, Fail, ReadOnly
  <2>2. CASE doc.live
    <3>1. /\ doc' = [doc EXCEPT !.text = Merge(req[r].change, @), !.stamp = r]
          /\ stored' = [stored EXCEPT ![r] = doc'.text] /\ Reply(r, "ok")
      BY <1>5, <2>2 DEF Update
    <3>2. doc'.stamp = r /\ doc'.text = Merge(req[r].change, doc.text)
      BY <1>0, <3>1 DEF Row
    <3>3. \A s \in Known : stored'[s] = stored[s]
      BY <1>0, <1>5, <3>1 DEF Known, DocumentsInv, TypeOK
    <3>4. WritesRow(r) /\ req'[r].at = "answered"
      BY <1>1, <1>5, <3>1, <3>2, <3>3 DEF WritesRow
    <3> QED
      BY <1>1, <1>5, <3>1, <3>4
  <2> QED
    BY <2>1, <2>2
<1>6. CASE CommitPatch(r) \/ CommitImport(r)
  BY <1>5, <1>6 DEF CommitPatch, CommitImport, Is, Writes
<1>7. CASE Get(r)
  BY <1>3, <1>7 DEF Get, Is, ReadOnly
<1>8. CASE GatePatch(r)
  BY <1>2, <1>3, <1>8 DEF GatePatch, Is, ReadOnly, Places
<1>9. CASE GateImport(r)
  BY <1>2, <1>3, <1>9 DEF GateImport, Is, ReadOnly, Places
<1>10. CASE Convert(r)
  BY <1>2, <1>10 DEF Convert, Is, Places
<1>11. CASE Delete(r)
  <2>1. doc'.stamp = doc.stamp
    BY <1>0, <1>11 DEF Delete, Row
  <2> QED
    BY <1>3, <1>11, <2>1 DEF Delete, Is
<1>12. CASE RestoreRead(r)
  BY <1>2, <1>3, <1>12 DEF RestoreRead, Is, ReadOnly, Places
<1>13. CASE RestoreWrite(r)
  <2>1. doc'.stamp = doc.stamp
    BY <1>0, <1>13 DEF RestoreWrite, Row
  <2> QED
    BY <1>2, <1>13, <2>1 DEF RestoreWrite, Is, Places
<1>14. CASE RestoreRefresh(r)
  BY <1>3, <1>14 DEF RestoreRefresh, Is, ReadOnly
<1> QED
  BY <1>4, <1>6, <1>7, <1>8, <1>9, <1>10, <1>11, <1>12, <1>13, <1>14 DEF Serve

(* On the calls of the tab: one of them is served, or none.                *)
Served(r) ==
    /\ r \in Request /\ req[r].at \notin {"unsent", "answered"} /\ req'[r].at # "unsent"
    /\ \A x \in Request \ {r} : req'[x] = req[x]
    /\ req'[r].kind = req[r].kind /\ req'[r].base = req[r].base
    /\ req'[r].change = req[r].change
    /\ \/ req'[r].at # "answered" /\ req'[r].answer = "none" /\ doc'.stamp = doc.stamp
          /\ UNCHANGED stored
       \/ req'[r].at = "answered" /\ (Tells(r) \/ WritesRow(r))

LEMMA ServerFrame ==
    ASSUME EditorInv, ServerStep
    PROVE  /\ DocumentsInv' /\ UNCHANGED tab
           /\ \/ \E r : Served(r)
              \/ UNCHANGED <<doc, stored>> /\ \A x \in Mine : req'[x] = req[x]
           /\ \A s \in Known : s \in Known' /\ stored'[s] = stored[s]
<1>0. DocumentsInv /\ Mine \subseteq Request /\ req \in [Request -> Call]
  BY MineAssumption DEF EditorInv, DocumentsInv, TypeOK
<1>1. DocumentsInv' /\ UNCHANGED tab
  BY <1>0, ServerIsAClient, InvStep DEF ServerStep
<1>2. ASSUME NEW r \in Request, Serve(r) \/ Fail(r) PROVE Served(r)
  BY <1>0, <1>2, ServeFrame DEF Served
<1>3. ASSUME NEW r \in Request \ Mine, Elsewhere(r)
      PROVE  UNCHANGED <<doc, stored>> /\ \A x \in Mine : req'[x] = req[x]
  BY <1>0, <1>3 DEF Elsewhere, Receive
<1>4. \/ \E r : Served(r)
      \/ UNCHANGED <<doc, stored>> /\ \A x \in Mine : req'[x] = req[x]
  BY <1>0, <1>2, <1>3 DEF ServerStep
<1>5. \A s \in Known : s \in Known' /\ stored'[s] = stored[s]
  BY <1>4 DEF Served, Tells, WritesRow, Known
<1> QED
  BY <1>1, <1>4, <1>5

(* The server keeps the parts that speak of the tab's calls.                *)
LEMMA ServedIsPatch ==
    ASSUME NEW r, Served(r), NEW x \in Request
    PROVE  IsPatch(x)' <=> IsPatch(x)
BY DEF Served, IsPatch

LEMMA ServerKeepsMine ==
    ASSUME EditorInv, NEW r, Served(r), UNCHANGED tab, NEW x \in Mine
    PROVE  MineInv(x)'
<1>0. MineInv(x) /\ x \in Request /\ (IsPatch(x)' <=> IsPatch(x)) /\ UNCHANGED <<waiting, pulled>>
  BY ServedIsPatch, MineAssumption DEF EditorInv, tab
<1>1. CASE x # r
  <2>1. req'[x] = req[x]
    BY <1>0, <1>1 DEF Served
  <2> QED
    BY <1>0, <2>1 DEF MineInv
<1>2. CASE x = r
  <2>1. IsPatch(x) => req'[x].change \in Text
    BY <1>0, <1>2 DEF MineInv, Served
  <2>2. ASSUME IsPatch(x), req'[x].answer = "ok"
        PROVE  req'[x].row.stamp = x /\ req'[x].row.text = req'[x].change
    <3>1. WritesRow(r)
      BY <1>2, <2>2 DEF Served, Tells, IsPatch
    <3>2. req[r].change \in Text /\ doc.text \in Text
      BY <1>0, <1>2, <2>2, DocIsStored DEF MineInv, EditorInv
    <3>3. Merge(req[r].change, doc.text) = req[r].change
      BY <3>2, TextIsAChange
    <3> QED
      BY <1>2, <3>1, <3>3 DEF WritesRow, Served
  <2> QED
    BY <1>0, <1>2, <2>1, <2>2 DEF MineInv, Served
<1> QED
  BY <1>1, <1>2

LEMMA ServerKeepsStamps ==
    ASSUME EditorInv, NEW r, Served(r), UNCHANGED tab, Unslipped
    PROVE  StampInv'
<1>0. /\ StampInv /\ Uncrossed /\ waiting \subseteq Mine /\ Mine \subseteq Request
      /\ UNCHANGED <<waiting, base>> /\ r \in Request
      /\ \A x \in Request : req'[x].kind = req[x].kind
      /\ \A x \in Request : IsPatch(x)' <=> IsPatch(x)
  BY ServedIsPatch, MineAssumption DEF Unslipped, Uncrossed, EditorInv, EditorTypeOK, tab, Served
<1>1. r \in Mine /\ IsPatch(r) => waiting = {r} /\ req[r].base = base
  BY <1>0, Alone DEF StampInv, Served
<1>2. ASSUME NEW own, Current(own)' PROVE Current(own) \/ (WritesRow(r) /\ own = r)
  BY <1>0, <1>2 DEF Current, Served, Tells, WritesRow
<1>3. ASSUME NEW own, Current(own)', own \notin waiting PROVE base = own
  <2>1. CASE Current(own)
    BY <1>0, <1>3, <2>1 DEF StampInv
  <2>2. CASE WritesRow(r) /\ own = r
    <3>1. r \in Mine /\ IsPatch(r)
      BY <1>0, <1>3, <2>2 DEF Current, IsPatch, Served
    <3> QED
      BY <1>1, <1>3, <2>2, <3>1
  <2> QED
    BY <1>2, <1>3, <2>1, <2>2
<1>4. ASSUME NEW own, Current(own)', NEW x \in waiting, req'[x].answer = "ok"
      PROVE  req'[x].row.stamp = own
  <2>1. CASE x = r
    <3>1. Tells(r) \/ WritesRow(r)
      BY <1>4, <2>1 DEF Served
    <3>2. CASE Tells(r)
      BY <1>4, <2>1, <3>2 DEF Tells, Current
    <3>3. CASE WritesRow(r)
      BY <1>4, <2>1, <3>3 DEF WritesRow, Current
    <3> QED
      BY <3>1, <3>2, <3>3
  <2>2. CASE x # r
    <3>1. req'[x] = req[x]
      BY <1>0, <2>2 DEF Served
    <3>2. CASE Current(own)
      BY <1>0, <1>4, <3>1, <3>2 DEF StampInv
    <3>3. CASE WritesRow(r) /\ own = r
      <4>1. r \in Mine /\ IsPatch(r)
        BY <1>0, <1>4, <3>3 DEF Current, IsPatch, Served
      <4> QED
        BY <1>1, <2>2, <4>1
    <3> QED
      BY <1>2, <1>4, <3>2, <3>3
  <2> QED
    BY <2>1, <2>2
<1>5. ASSUME NEW x \in Mine, NEW own \in Mine PROVE ~SelfConflict(x, own)'
  <2>1. CASE x # r
    <3>1. req'[x] = req[x] /\ req'[own].kind = req[own].kind
      BY <1>0, <2>1 DEF Served
    <3>2. ~SelfConflict(x, own)
      BY <1>0 DEF StampInv
    <3> QED
      BY <3>1, <3>2 DEF SelfConflict
  <2>2. CASE x = r
    <3>1. SUFFICES ASSUME SelfConflict(r, own)' PROVE FALSE
      BY <2>2
    <3>2. req'[r].answer = "conflict" /\ IsPatch(r)
      BY <1>0, <3>1 DEF SelfConflict, Served, IsPatch
    <3>3. Tells(r)
      BY <3>2 DEF Served, WritesRow
    <3>4. Current(own) /\ req[r].base # doc.stamp
      BY <1>0, <3>1, <3>2, <3>3 DEF Tells, SelfConflict, Current
    <3>5. own # r
      <4>1. req[r].answer # "ok"
        BY <1>0 DEF Served, EditorInv, DocumentsInv, RequestInv
      <4> QED
        BY <3>4, <4>1, CurrentWasAccepted
    <3>6. own \notin waiting /\ req[r].base = base
      BY <1>1, <2>2, <3>2, <3>5
    <3>7. base = own
      BY <1>0, <3>4, <3>6 DEF StampInv
    <3> QED
      BY <3>4, <3>6, <3>7 DEF Current
  <2> QED
    BY <2>1, <2>2
<1>6. ASSUME NEW x \in Mine, IsPatch(x)', req'[x].at # "answered" PROVE x \in waiting
  BY <1>0, <1>6 DEF StampInv, Served
<1>7. ASSUME NEW x \in waiting, IsPatch(x)' PROVE req'[x].base = base
  BY <1>0, <1>7 DEF StampInv, Served
<1> QED
  BY <1>0, <1>3, <1>4, <1>5, <1>6, <1>7 DEF StampInv

LEMMA ServerKeepsInv ==
    ASSUME EditorInv, ServerStep
    PROVE  EditorInv'
<1>0. DocumentsInv' /\ UNCHANGED tab /\ waiting \subseteq Mine /\ Mine \subseteq Request
  BY ServerFrame, MineAssumption DEF EditorInv, EditorTypeOK
<1>1. EditorTypeOK' /\ BaselineIsAVersion'
  <2>1. base \in Known /\ stored[base] = lastSaved /\ TypeOK'
    BY <1>0 DEF EditorInv, EditorTypeOK, BaselineIsAVersion, DocumentsInv
  <2>2. base' \in Known' /\ stored'[base'] = lastSaved'
    BY <1>0, <2>1, ServerFrame DEF tab
  <2> QED
    BY <1>0, <2>1, <2>2 DEF EditorInv, EditorTypeOK, BaselineIsAVersion, tab
<1>2. page' = "closed" => waiting' = {} /\ ~inFlight' /\ ~pending' /\ ~timer'
  BY <1>0 DEF EditorInv, tab
<1>3. ASSUME NEW r, Served(r) PROVE EditorInv'
  <2>1. \A x \in Mine : MineInv(x)'
    BY <1>0, <1>3, ServerKeepsMine
  <2>2. \A x \in Mine : /\ IsPatch(x)' <=> IsPatch(x)
                        /\ req'[x].change = req[x].change
    BY <1>0, <1>3, ServedIsPatch DEF Served
  <2>3. Uncrossed' => OneCall'
    BY <1>0, <2>2 DEF EditorInv, OneCall, Uncrossed, tab
  <2>4. Quiet' => SaveInv'
    BY <1>0, <2>2 DEF EditorInv, SaveInv, Scheduled, Quiet, tab
  <2>5. Unslipped' => StampInv'
    BY <1>0, <1>3, ServerKeepsStamps DEF Unslipped, tab
  <2> QED
    BY <1>0, <1>1, <1>2, <2>1, <2>3, <2>4, <2>5 DEF EditorInv
<1>4. ASSUME UNCHANGED <<doc, stored>>, \A x \in Mine : req'[x] = req[x] PROVE EditorInv'
  <2>1. \A x \in Mine : MineInv(x)' /\ (IsPatch(x)' <=> IsPatch(x))
    BY <1>0, <1>4 DEF EditorInv, MineInv, IsPatch, tab
  <2>2. Uncrossed' => OneCall'
    BY <1>0, <2>1 DEF EditorInv, OneCall, Uncrossed, tab
  <2>3. Quiet' => SaveInv'
    BY <1>0, <1>4, <2>1 DEF EditorInv, SaveInv, Scheduled, Quiet, tab
  <2>4. Unslipped' => StampInv'
    <3>1. \A own : Current(own)' <=> Current(own)
      BY <1>4 DEF Current
    <3>2. \A x, own \in Mine : SelfConflict(x, own)' <=> SelfConflict(x, own)
      BY <1>4 DEF SelfConflict
    <3> QED
      BY <1>0, <1>4, <2>1, <3>1, <3>2 DEF EditorInv, StampInv, Unslipped, tab
  <2> QED
    BY <1>0, <1>1, <1>2, <2>1, <2>2, <2>3, <2>4 DEF EditorInv
<1> QED
  BY <1>3, <1>4, ServerFrame

(* A step of nobody, and the page as it is opened.                          *)
LEMMA EditorStutter ==
    ASSUME EditorInv, UNCHANGED editorVars
    PROVE  EditorInv'
<1>1. DocumentsInv'
  BY InvStep DEF EditorInv, editorVars
<1>2. UNCHANGED <<doc, stored, req>> /\ UNCHANGED tab
  BY DEF editorVars, vars
<1>3. EditorTypeOK' /\ BaselineIsAVersion'
  BY <1>1, <1>2 DEF EditorInv, EditorTypeOK, BaselineIsAVersion, DocumentsInv, Known, tab
<1>4. OneCall' = OneCall /\ SaveInv' = SaveInv /\ \A x \in Mine : MineInv(x)' = MineInv(x)
  BY <1>2 DEF OneCall, SaveInv, Scheduled, MineInv, IsPatch, tab
<1>5. StampInv => StampInv'
  BY <1>2 DEF StampInv, Current, SelfConflict, IsPatch, tab
<1> QED
  BY <1>1, <1>2, <1>3, <1>4, <1>5 DEF EditorInv, Uncrossed, Quiet, Unslipped, tab

LEMMA EditorInvInit == EditorInit => EditorInv
<1> SUFFICES ASSUME EditorInit PROVE EditorInv
  OBVIOUS
<1>1. DocumentsInv
  BY InvInit DEF EditorInit
<1>2. /\ Blank \in Text /\ Creation \in Known /\ stored[Creation] = Blank
      /\ \A r \in Request : req[r] = Unsent
  BY ValueAssumption, NamesAssumption DEF EditorInit, Init, Text, Known, Stamp
<1>3. EditorTypeOK
  BY <1>1, <1>2 DEF EditorInit, EditorTypeOK, DocumentsInv, Statuses
<1>4. \A r \in Mine : MineInv(r) /\ ~IsPatch(r)
  <2>1. \A r \in Mine : ~IsPatch(r)
    <3>1. Unsent.at = "unsent"
      BY DEF Unsent
    <3> QED
      BY <1>2, <3>1, MineAssumption DEF IsPatch
  <2>2. waiting = {} /\ pulled = {}
    BY DEF EditorInit
  <2> QED
    BY <2>1, <2>2 DEF MineInv
<1>5. \A r, own \in Mine : ~SelfConflict(r, own)
  BY <1>2, MineAssumption DEF SelfConflict, Unsent
<1>6. \A own : ~Current(own)
  BY <1>2, MineAssumption, NamesAssumption DEF Current, EditorInit, Init, Created
<1> QED
  BY <1>1, <1>2, <1>3, <1>4, <1>5, <1>6 DEF EditorInit, EditorInv, BaselineIsAVersion, OneCall,
     SaveInv, StampInv

LEMMA EditorInvStep ==
    ASSUME EditorInv, [TabStep \/ ServerStep]_editorVars
    PROVE  EditorInv'
BY TabKeepsInv, ServerKeepsInv, EditorStutter

-----------------------------------------------------------------------------
(* Theorems                                                                *)

(* Inductive: the tab's baseline, its flight, its schedule and its tokens  *)
(* stand in the relations that EditorInv names, whatever the server, the   *)
(* network, the other devices and the user do in between.                  *)
THEOREM EditorInvariance == EditorSpec => []EditorInv
<1>1. EditorInit => EditorInv
  BY EditorInvInit
<1>2. EditorInv /\ [TabStep \/ ServerStep]_editorVars => EditorInv'
  BY EditorInvStep
<1> QED
  BY <1>1, <1>2, PTL DEF EditorSpec

(* The editor implements a client of the routes: every step of the tab, of *)
(* the server and of the other devices is a step of Documents, or none of  *)
(* its variables moves, so that all that is proved there holds here.       *)
THEOREM EditorIsAClient == EditorSpec => Spec
<1>1. EditorInit => Init
  BY DEF EditorInit
<1>2. ASSUME EditorInv, [TabStep \/ ServerStep]_editorVars PROVE [Next]_vars
  BY <1>2, TabIsAClient, ServerIsAClient DEF editorVars
<1> QED
  BY <1>1, <1>2, EditorInvariance, PTL DEF EditorSpec, Spec

(* Every variable of the tab and of the document keeps its type.           *)
THEOREM EditorTypeCorrect == EditorSpec => []EditorTypeOK
<1>1. EditorInv => EditorTypeOK
  BY DEF EditorInv
<1> QED
  BY <1>1, EditorInvariance, PTL

(* Dirty baseline and token describe one stored version, however answers,  *)
(* reloads, imports, pulls and the user's leaving interleave.              *)
THEOREM BaselineStaysAVersion == EditorSpec => []BaselineIsAVersion
<1>1. EditorInv => BaselineIsAVersion
  BY DEF EditorInv
<1> QED
  BY <1>1, EditorInvariance, PTL

(* A save of the tab never collides with a save of its own, unless an      *)
(* answer was lost, calls crossed, or the page was left.                   *)
THEOREM NoFalseSelfConflict == EditorSpec => []SelfConflictNeedsASlip
<1>1. EditorInv => SelfConflictNeedsASlip
  <2> SUFFICES ASSUME EditorInv, NEW r \in Mine, NEW own \in Mine, SelfConflict(r, own)
               PROVE  lost \/ slips \cap {"crossed", "left"} # {}
    BY DEF SelfConflictNeedsASlip, SelfConflict
  <2> QED
    BY DEF EditorInv, StampInv, Unslipped
<1> QED
  BY <1>1, EditorInvariance, PTL

(* "Saved" with nothing scheduled means that the server accepted what the  *)
(* editor shows, but for the three slips.                                  *)
THEOREM SavedMeansAccepted == EditorSpec => []SavedIsSaved
<1>1. EditorInv => SavedIsSaved
  BY DEF EditorInv, SaveInv, SavedIsSaved, Quiet
<1> QED
  BY <1>1, EditorInvariance, PTL

(* Between a 409 and the user's choice the tab sends no save.              *)
THEOREM ConflictHaltsAutosave == EditorSpec => ConflictStopsSaving
<1> DEFINE Silent == (conflicted /\ conflicted') =>
              \A r \in Mine : req[r].at = "unsent" => req'[r].at = "unsent"
                                                      \/ req'[r].kind # "patch"
<1>1. ASSUME EditorInv, ServerStep PROVE Silent
  <2>1. ASSUME NEW r, Served(r), NEW x \in Mine, req[x].at = "unsent" PROVE req'[x] = req[x]
    BY <1>1, <2>1, MineAssumption DEF Served
  <2> QED
    BY <1>1, <2>1, ServerFrame
<1>2. ASSUME EditorInv, TabStep, conflicted, conflicted', NEW r \in Mine,
             req[r].at = "unsent", req'[r].at # "unsent", req'[r].kind = "patch"
      PROVE  FALSE
  <2>1. DocumentsInv /\ Mine \subseteq Request
    BY <1>2, MineAssumption DEF EditorInv
  <2>2. ~NoCall
    BY <1>2 DEF NoCall, vars
  <2>3. ASSUME NEW kind \in {"get", "import"}, NEW change, Fetch(kind, change) PROVE FALSE
    BY <1>2, <2>1, <2>3, SendStep DEF Fetch
  <2>4. ~FireTimer
    BY <1>2, <2>2, RunSaveCases DEF FireTimer, EditorInv, EditorTypeOK
  <2>5. \A x \in Mine : ~Saves(x)
    BY <1>2, <2>2, SettleCases DEF Saves, SaveAccepted, SaveConflicts, SaveFails, SaveIsLost
  <2>6. \A x \in Mine : ~Adopt(x) /\ ~NotAdopted(x) /\ ~adoptPulledDoc(x)
    BY <2>2 DEF Adopt, NotAdopted, adoptPulledDoc, Replace
  <2>7. ~Leave
    BY <1>2, <2>2 DEF Leave
  <2>8. ~onReloadLatest /\ ~onPull /\ ~onUnlinkPullFinal /\ \A v \in Value : ~onImportFile(v)
    BY <2>3 DEF onReloadLatest, onPull, onUnlinkPullFinal, onImportFile
  <2>9. ~(\E text \in Text : Edit(text)) /\ ~Return /\ ~onLink /\ ~onUnlinkKeepApp
    BY <2>2 DEF Edit, Return, onLink, onUnlinkKeepApp
  <2> QED
    BY <1>2, <2>4, <2>5, <2>6, <2>7, <2>8, <2>9 DEF TabStep, Continue, Saves
<1>3. ASSUME EditorInv, [TabStep \/ ServerStep]_editorVars PROVE [Silent]_editorVars
  BY <1>1, <1>2, <1>3
<1> QED
  BY <1>3, EditorInvariance, PTL DEF EditorSpec, ConflictStopsSaving
===============================================================================
