----------------------------- MODULE Search_proofs -----------------------------
(* Theorems about Search and the two modules it extends, for every set of  *)
(* requests, commands, books and collections, and every cap.               *)
EXTENDS Search, FiniteSetTheorems, TLAPS

-----------------------------------------------------------------------------
(* Memberships: a command that is about to write names owned books.        *)
Kinds == Writes \cup {"none", "create", "get", "list", "delete"}
Places == {"unsent", "missing", "clamp", "write", "reread", "done", "error"}
CommandRow == [kind : Kinds, place : Places, folders : SUBSET Folder,
               books : SUBSET Book, answer : SUBSET (Folder \X Book)]

CollectionsInv ==
    /\ library \subseteq Book /\ folders \subseteq Folder
    /\ members \subseteq folders \X library
    /\ cmd \in [Command -> CommandRow]
    /\ \A c \in Command : cmd[c].kind = "add" =>
         /\ cmd[c].place = "write" => cmd[c].books \subseteq library
         /\ cmd[c].place \in {"reread", "done"} =>
              cmd[c].folders \X cmd[c].books \subseteq members \cup undone

LEMMA CollectionsInvInit == CollectionInit => CollectionsInv
<1>a. {} \in SUBSET Folder /\ {} \in SUBSET Book /\ {} \in SUBSET (Folder \X Book)
  OBVIOUS
<1>b. "none" \in Kinds /\ "unsent" \in Places
  BY DEF Kinds, Places
<1>c. Fresh \in CommandRow
  BY <1>a, <1>b DEF Fresh, CommandRow
<1>1. Fresh \in CommandRow /\ Fresh.kind # "add"
  BY <1>c DEF Fresh
<1>2. SUFFICES ASSUME CollectionInit PROVE CollectionsInv
  OBVIOUS
<1>3. cmd \in [Command -> CommandRow] /\ \A c \in Command : cmd[c] = Fresh
  BY <1>1, <1>2 DEF CollectionInit
<1> QED
  BY <1>1, <1>2, <1>3 DEF CollectionInit, CollectionsInv

(* A step that keeps the tables, or lets them grow, and changes one        *)
(* command, is judged by that command.                                     *)
LEMMA OneCommand ==
    ASSUME CollectionsInv, NEW c \in Command, NEW row \in CommandRow,
           cmd' = [cmd EXCEPT ![c] = row],
           library' \subseteq Book, folders' \subseteq Folder,
           library \subseteq library',
           members' \subseteq folders' \X library',
           members \cup undone \subseteq members' \cup undone',
           row.kind = "add" /\ row.place = "write" => row.books \subseteq library',
           row.kind = "add" /\ row.place \in {"reread", "done"} =>
             row.folders \X row.books \subseteq members' \cup undone'
    PROVE  CollectionsInv'
<1>1. cmd' \in [Command -> CommandRow]
  BY DEF CollectionsInv
<1>2. cmd'[c] = row /\ \A x \in Command : x # c => cmd'[x] = cmd[x]
  BY DEF CollectionsInv
<1>3. ASSUME NEW x \in Command, cmd'[x].kind = "add"
      PROVE  /\ cmd'[x].place = "write" => cmd'[x].books \subseteq library'
             /\ cmd'[x].place \in {"reread", "done"} =>
                  cmd'[x].folders \X cmd'[x].books \subseteq members' \cup undone'
  <2>1. CASE x = c
    BY <2>1, <1>2, <1>3
  <2>2. CASE x # c
    <3>1. cmd'[x] = cmd[x]
      BY <2>2, <1>2
    <3>2. cmd[x].place = "write" => cmd[x].books \subseteq library
      BY <3>1, <1>3 DEF CollectionsInv
    <3>3. cmd[x].place \in {"reread", "done"} =>
            cmd[x].folders \X cmd[x].books \subseteq members \cup undone
      BY <3>1, <1>3 DEF CollectionsInv
    <3> QED
      BY <3>1, <3>2, <3>3
  <2> QED
    BY <2>1, <2>2
<1> QED
  BY <1>1, <1>3 DEF CollectionsInv

Filled(kind, place, fs, books) ==
    [Fresh EXCEPT !.kind = kind, !.place = place, !.folders = fs, !.books = books]

LEMMA FilledRow ==
    ASSUME NEW kind \in Kinds, NEW place \in Places, NEW fs \in SUBSET Folder,
           NEW books \in SUBSET Book
    PROVE  /\ Filled(kind, place, fs, books) \in CommandRow
           /\ Filled(kind, place, fs, books).kind = kind
           /\ Filled(kind, place, fs, books).place = place
           /\ Filled(kind, place, fs, books).folders = fs
           /\ Filled(kind, place, fs, books).books = books
<1>1. {} \in SUBSET (Folder \X Book)
  OBVIOUS
<1> QED
  BY <1>1 DEF Filled, Fresh, CommandRow

Ended(kind, place) == [Fresh EXCEPT !.kind = kind, !.place = place]

LEMMA EndedRow ==
    ASSUME NEW kind \in Kinds, NEW place \in Places
    PROVE  /\ Ended(kind, place) \in CommandRow
           /\ Ended(kind, place).place = place
<1>1. {} \in SUBSET (Folder \X Book) /\ {} \in SUBSET Folder /\ {} \in SUBSET Book
  OBVIOUS
<1> QED
  BY <1>1 DEF Ended, Fresh, CommandRow

Moved(row, place) == [row EXCEPT !.place = place]

LEMMA MovedRow ==
    ASSUME NEW row \in CommandRow, NEW place \in Places
    PROVE  /\ Moved(row, place) \in CommandRow
           /\ Moved(row, place).place = place
           /\ Moved(row, place).kind = row.kind
           /\ Moved(row, place).folders = row.folders
           /\ Moved(row, place).books = row.books
  BY DEF Moved, CommandRow

(* The tables and their histories as a command's step leaves them.         *)
Grown == /\ library \subseteq library'
         /\ members \cup undone \subseteq members' \cup undone'

LEMMA CollectionsStep == CollectionsInv /\ CollectionNext => CollectionsInv' /\ Grown
<1> SUFFICES ASSUME CollectionsInv, CollectionNext PROVE CollectionsInv' /\ Grown
  OBVIOUS
<1>1. /\ library \subseteq Book /\ folders \subseteq Folder
      /\ members \subseteq folders \X library /\ cmd \in [Command -> CommandRow]
  BY DEF CollectionsInv
<1>2. ASSUME NEW c \in Command, NEW f \in Folder, Create(c, f) PROVE CollectionsInv' /\ Grown
  <2>1. "create" \in Kinds /\ "done" \in Places /\ {f} \in SUBSET Folder /\ {} \in SUBSET Book
    BY DEF Kinds, Places
  <2> DEFINE row == Filled("create", "done", {f}, {})
  <2>2. cmd' = [cmd EXCEPT ![c] = row] /\ row \in CommandRow /\ row.kind = "create"
    <3>1. cmd' = [cmd EXCEPT ![c] = row]
      BY <1>2 DEF Create, Receive, Filled
    <3> QED
      BY <2>1, <3>1, FilledRow
  <2> HIDE DEF row
  <2>3. /\ library' = library /\ members' = members /\ undone' = undone
        /\ folders' = folders \cup {f}
    BY <1>2 DEF Create
  <2> QED
    BY <1>1, <2>2, <2>3, OneCommand DEF Grown
<1>3. ASSUME NEW c \in Command, NEW f \in Folder, Delete(c, f) PROVE CollectionsInv' /\ Grown
  <2>1. /\ "delete" \in Kinds /\ {"done", "missing"} \subseteq Places
        /\ {f} \in SUBSET Folder /\ {} \in SUBSET Book
    BY DEF Kinds, Places
  <2> DEFINE place == IF Owned({f}) # {} THEN "done" ELSE "missing"
             row == Filled("delete", place, {f}, {})
  <2>a. place \in Places
    BY <2>1
  <2>b. cmd' = [cmd EXCEPT ![c] = row]
    BY <1>3 DEF Delete, Receive, Filled
  <2> HIDE DEF place
  <2>c. row \in CommandRow /\ row.kind = "delete"
    BY <2>1, <2>a, FilledRow
  <2> HIDE DEF row
  <2>3. /\ library' = library /\ folders' = folders \ {f}
        /\ members' = (members \cup {}) \ Memberships({f})
        /\ undone' = (undone \ {}) \cup Memberships({f})
    BY <1>3 DEF Delete, Store
  <2>4. members' \subseteq folders' \X library'
    <3> SUFFICES ASSUME NEW m \in members' PROVE m \in folders' \X library'
      OBVIOUS
    <3>1. m \in folders \X library /\ m[1] # f
      BY <1>1, <2>3 DEF Memberships
    <3> QED
      BY <3>1, <2>3
  <2> QED
    BY <1>1, <2>b, <2>c, <2>3, <2>4, OneCommand DEF Grown
<1>4. ASSUME NEW c \in Command, NEW f \in Folder, NEW kind \in Writes \cup {"get"},
             NEW books \in SUBSET Book, Gate(c, kind, f, books)
      PROVE CollectionsInv' /\ Grown
  <2> DEFINE place == IF Owned({f}) = {} THEN "missing"
                      ELSE IF kind = "get" THEN "reread"
                      ELSE IF kind = "add" THEN "clamp" ELSE "write"
  <2>1. kind \in Kinds /\ place \in Places /\ {f} \in SUBSET Folder
    BY DEF Kinds, Places
  <2>2. kind = "add" => place \notin {"write", "reread", "done"}
    OBVIOUS
  <2> DEFINE row == Filled(kind, place, {f}, books)
  <2>3. cmd' = [cmd EXCEPT ![c] = row]
    BY <1>4 DEF Gate, Receive, Filled
  <2> HIDE DEF place
  <2>4. row \in CommandRow /\ row.kind = kind /\ row.place = place
    BY <2>1, FilledRow
  <2> HIDE DEF row
  <2>5. UNCHANGED <<library, folders, members, undone>>
    BY <1>4 DEF Gate
  <2>6. row.kind = "add" => row.place \notin {"write", "reread", "done"}
    BY <2>2, <2>4
  <2>7. row \in CommandRow
    BY <2>4
  <2>8. /\ library' = library /\ folders' = folders
        /\ members' = members /\ undone' = undone
    BY <2>5
  <2>9. CollectionsInv'
    BY <1>1, <2>3, <2>6, <2>7, <2>8, OneCommand
  <2> QED
    <3>1. Grown
      BY <2>8 DEF Grown
    <3> QED
      BY <2>9, <3>1
<1>5. ASSUME NEW c \in Command, List(c) PROVE CollectionsInv' /\ Grown
  <2>1. "list" \in Kinds /\ "reread" \in Places /\ folders \in SUBSET Folder /\ {} \in SUBSET Book
    BY <1>1 DEF Kinds, Places
  <2> DEFINE row == Filled("list", "reread", folders, {})
  <2>2. cmd' = [cmd EXCEPT ![c] = row] /\ row \in CommandRow /\ row.kind = "list"
    <3>1. cmd' = [cmd EXCEPT ![c] = row]
      BY <1>5 DEF List, Receive, Filled
    <3> QED
      BY <2>1, <3>1, FilledRow
  <2> HIDE DEF row
  <2>3. UNCHANGED <<library, folders, members, undone>>
    BY <1>5 DEF List
  <2> QED
    BY <1>1, <2>2, <2>3, OneCommand DEF Grown
<1>6. ASSUME NEW c \in Command, Clamp(c) PROVE CollectionsInv' /\ Grown
  <2> DEFINE row == [cmd[c] EXCEPT !.place = "write", !.books = @ \cap library]
  <2>1. cmd' = [cmd EXCEPT ![c] = row]
    BY <1>1, <1>6 DEF Clamp
  <2>2. "write" \in Places
    BY DEF Places
  <2>3. row \in CommandRow /\ row.place = "write" /\ row.books \subseteq library
    <3>1. cmd[c] \in CommandRow
      BY <1>1
    <3> QED
      BY <2>2, <3>1 DEF CommandRow
  <2> HIDE DEF row
  <2>4. UNCHANGED <<library, folders, members, undone>>
    BY <1>6 DEF Clamp
  <2> QED
    BY <1>1, <2>1, <2>3, <2>4, OneCommand DEF Grown
<1>7. ASSUME NEW c \in Command, Rename(c) PROVE CollectionsInv' /\ Grown
  <2>1. {"error", "reread"} \subseteq Places
    BY DEF Places
  <2>2. PICK row \in CommandRow : /\ cmd' = [cmd EXCEPT ![c] = row]
                                  /\ row.place = "reread" => row.kind # "add"
                                  /\ row.place \notin {"write", "done"}
    <3>1. CASE Gone(c)
      <4>1. cmd' = [cmd EXCEPT ![c] = Ended(cmd[c].kind, "error")]
        BY <1>7, <3>1 DEF Rename, End, Ended
      <4>2. cmd[c].kind \in Kinds
        BY <1>1 DEF CommandRow
      <4> QED
        BY <2>1, <4>1, <4>2, EndedRow
    <3>2. CASE ~Gone(c)
      <4>1. cmd' = [cmd EXCEPT ![c] = Moved(cmd[c], "reread")]
        BY <1>1, <1>7, <3>2 DEF Rename, Moved
      <4>2. cmd[c].kind = "rename" /\ cmd[c] \in CommandRow
        BY <1>1, <1>7 DEF Rename
      <4> QED
        BY <2>1, <4>1, <4>2, MovedRow
    <3> QED
      BY <3>1, <3>2
  <2>3. UNCHANGED <<library, folders, members, undone>>
    BY <1>7 DEF Rename
  <2> QED
    BY <1>1, <2>2, <2>3, OneCommand DEF Grown
<1>8. ASSUME NEW c \in Command, AddBooks(c) PROVE CollectionsInv' /\ Grown
  <2>1. {"error", "reread"} \subseteq Places /\ cmd[c] \in CommandRow
    BY <1>1 DEF Places
  <2>2. cmd[c].books \subseteq library
    BY <1>8 DEF AddBooks, CollectionsInv
  <2>3. UNCHANGED <<library, folders>>
    BY <1>8 DEF AddBooks
  <2>4. CASE Gone(c) /\ Named(c) # {}
    <3>1. PICK row \in CommandRow : cmd' = [cmd EXCEPT ![c] = row] /\ row.place = "error"
      <4>1. cmd' = [cmd EXCEPT ![c] = Ended(cmd[c].kind, "error")]
        BY <1>8, <2>4 DEF AddBooks, End, Ended
      <4>2. cmd[c].kind \in Kinds
        BY <1>1 DEF CommandRow
      <4> QED
        BY <2>1, <4>1, <4>2, EndedRow
    <3>2. members' = members /\ undone' = undone
      BY <1>8, <2>4 DEF AddBooks, Store
    <3> QED
      BY <1>1, <2>3, <3>1, <3>2, OneCommand DEF Grown
  <2>5. CASE ~(Gone(c) /\ Named(c) # {})
    <3>1. cmd' = [cmd EXCEPT ![c] = Moved(cmd[c], "reread")]
      BY <1>1, <1>8, <2>5 DEF AddBooks, Moved
    <3>2. members' = members \cup Named(c) /\ undone' = undone \ Named(c)
      BY <1>8, <2>5 DEF AddBooks, Store
    <3>3. PICK row \in CommandRow : /\ cmd' = [cmd EXCEPT ![c] = row]
                                    /\ row.place = "reread"
                                    /\ row.folders = cmd[c].folders /\ row.books = cmd[c].books
      BY <2>1, <3>1, MovedRow
    <3>4. Named(c) \subseteq folders \X library
      <4>1. CASE Named(c) = {}
        BY <4>1
      <4>2. CASE ~Gone(c)
        BY <2>2, <4>2 DEF Gone, Owned, Named
      <4> QED
        BY <2>5, <4>1, <4>2
    <3>5. row.folders \X row.books \subseteq members'
      BY <3>2, <3>3 DEF Named
    <3>6. members' \subseteq folders' \X library'
      BY <1>1, <2>3, <3>2, <3>4
    <3>7. members \cup undone \subseteq members' \cup undone'
      BY <3>2
    <3> QED
      BY <1>1, <2>3, <3>3, <3>5, <3>6, <3>7, OneCommand DEF Grown
  <2> QED
    BY <2>4, <2>5
<1>9. ASSUME NEW c \in Command, RemoveBooks(c) PROVE CollectionsInv' /\ Grown
  <2>1. "reread" \in Places /\ cmd[c] \in CommandRow /\ cmd[c].kind = "remove"
    BY <1>1, <1>9 DEF Places, RemoveBooks
  <2> DEFINE row == Moved(cmd[c], "reread")
  <2>a. cmd' = [cmd EXCEPT ![c] = row]
    BY <1>1, <1>9 DEF RemoveBooks, Moved
  <2>2. row \in CommandRow /\ row.kind = "remove"
    BY <2>1, MovedRow
  <2> HIDE DEF row
  <2>3. /\ library' = library /\ folders' = folders
        /\ members' = members \ Named(c) /\ undone' = undone \cup Named(c)
    BY <1>9 DEF RemoveBooks, Store
  <2> QED
    BY <1>1, <2>a, <2>2, <2>3, OneCommand DEF Grown
<1>10. ASSUME NEW c \in Command, Reread(c) PROVE CollectionsInv' /\ Grown
  <2>1. "done" \in Places /\ cmd[c] \in CommandRow
    BY <1>1 DEF Places
  <2>2. Memberships(cmd[c].folders) \in SUBSET (Folder \X Book)
    BY <1>1 DEF Memberships
  <2> DEFINE row == [cmd[c] EXCEPT !.place = "done", !.answer = Memberships(cmd[c].folders)]
  <2>a. cmd' = [cmd EXCEPT ![c] = row]
    BY <1>1, <1>10 DEF Reread
  <2>3. /\ row \in CommandRow /\ row.place = "done" /\ row.kind = cmd[c].kind
        /\ row.folders = cmd[c].folders /\ row.books = cmd[c].books
    BY <2>1, <2>2 DEF CommandRow
  <2> HIDE DEF row
  <2>4. UNCHANGED <<library, folders, members, undone>>
    BY <1>10 DEF Reread
  <2>5. row.kind = "add" => row.folders \X row.books \subseteq members \cup undone
    BY <1>10, <2>3 DEF Reread, CollectionsInv
  <2> QED
    BY <1>1, <2>a, <2>3, <2>4, <2>5, OneCommand DEF Grown
<1>11. ASSUME NEW b \in Book, Acquire(b) PROVE CollectionsInv' /\ Grown
  BY <1>1, <1>11 DEF Acquire, CollectionsInv, Grown
<1> QED
  BY <1>2, <1>3, <1>4, <1>5, <1>6, <1>7, <1>8, <1>9, <1>10, <1>11 DEF CollectionNext

-----------------------------------------------------------------------------
(* Requests: what a request holds, and its books within its scope.         *)
ReqPlaces == {"idle", "folders", "members", "scoped", "arms", "llm", "flush", "commit",
              "answered", "refused", "error"}
RequestRow == [at : ReqPlaces, scope : Scope, books : SUBSET Book,
               flags : SUBSET {"dense", "sparse"}, doomed : SUBSET Search]

WithinScope(r, seen) ==
    (r.scope # NoScope /\ r.at \notin {"folders", "members", "refused", "error"}) =>
      r.books \subseteq r.scope.books \cup {m[2] : m \in {n \in seen : n[1] \in r.scope.folders}}

RequestInv ==
    /\ req \in [Search -> RequestRow]
    /\ \A q \in Search : req[q].books \subseteq library /\ WithinScope(req[q], members \cup undone)

LEMMA ScopeGrows ==
    ASSUME NEW r, NEW seen, NEW more, seen \subseteq more, WithinScope(r, seen)
    PROVE  WithinScope(r, more)
  BY DEF WithinScope

LEMMA OneRequest ==
    ASSUME RequestInv, NEW q \in Search, NEW row \in RequestRow,
           req' = [req EXCEPT ![q] = row],
           Grown, row.books \subseteq library', WithinScope(row, members' \cup undone')
    PROVE  RequestInv'
<1>1. req' \in [Search -> RequestRow]
  BY DEF RequestInv
<1>2. req'[q] = row /\ \A x \in Search : x # q => req'[x] = req[x]
  BY DEF RequestInv
<1>3. ASSUME NEW x \in Search
      PROVE  req'[x].books \subseteq library' /\ WithinScope(req'[x], members' \cup undone')
  <2>1. CASE x = q
    BY <1>2, <2>1
  <2>2. CASE x # q
    <3>1. req'[x] = req[x] /\ req[x].books \subseteq library'
      BY <1>2, <2>2 DEF RequestInv, Grown
    <3>2. WithinScope(req[x], members \cup undone)
      BY DEF RequestInv
    <3>3. WithinScope(req[x], members' \cup undone')
      BY <3>2, ScopeGrows DEF Grown
    <3> QED
      BY <3>1, <3>3
  <2> QED
    BY <2>1, <2>2
<1> QED
  BY <1>1, <1>3 DEF RequestInv

(* Steps that leave the tables alone.                                      *)
Still == UNCHANGED <<library, members, undone>>

LEMMA StillGrown == Still => Grown
  BY DEF Still, Grown

LEMMA NoScopeIsScope == NoScope \in Scope /\ NoScope.books = {}
  BY DEF NoScope, Scope

LEMMA FinishInv ==
    ASSUME RequestInv, Still, NEW q \in Search, NEW to \in ReqPlaces, Finish(q, to)
    PROVE  RequestInv'
<1> DEFINE row == [Idle EXCEPT !.at = to]
<1>1. row \in RequestRow /\ row.books = {} /\ row.scope = NoScope
  BY NoScopeIsScope DEF Idle, RequestRow
<1>2. req' = [req EXCEPT ![q] = row]
  BY DEF Finish
<1> HIDE DEF row
<1>3. WithinScope(row, members' \cup undone')
  BY <1>1 DEF WithinScope
<1> QED
  BY <1>1, <1>2, <1>3, StillGrown, OneRequest

(* A request that stays in its scope, or narrows it.                       *)
LEMMA NarrowInv ==
    ASSUME RequestInv, Still, NEW q \in Search, NEW row \in RequestRow,
           req' = [req EXCEPT ![q] = row], row.scope = req[q].scope,
           row.books \subseteq req[q].books,
           req[q].at \notin {"folders", "members", "refused", "error"}
    PROVE  RequestInv'
<1>1. req[q].books \subseteq library /\ WithinScope(req[q], members \cup undone)
  BY DEF RequestInv
<1>2. WithinScope(row, members' \cup undone')
  <2>1. members' \cup undone' = members \cup undone
    BY DEF Still
  <2> QED
    BY <1>1, <2>1 DEF WithinScope
<1>3. row.books \subseteq library'
  BY <1>1 DEF Still
<1> QED
  BY <1>2, <1>3, StillGrown, OneRequest

LEMMA ResolveInv ==
    ASSUME CollectionsInv, RequestInv, Still, NEW q \in Search, NEW scope \in Scope,
           Resolve(q, scope)
    PROVE  RequestInv'
<1> DEFINE named == IF scope.folders = {} /\ scope # NoScope
                    THEN library \cap scope.books ELSE library
           to == IF scope.folders # {} /\ library # {} THEN "folders" ELSE "scoped"
           row == [Idle EXCEPT !.scope = scope, !.books = named, !.at = to]
<1>1. req' = [req EXCEPT ![q] = row]
  BY DEF Resolve
<1>2. named \subseteq library /\ library \subseteq Book /\ to \in ReqPlaces
  BY DEF CollectionsInv, ReqPlaces
<1>3. (scope # NoScope /\ to # "folders") => named \subseteq scope.books
  OBVIOUS
<1> HIDE DEF named, to
<1>4. /\ row \in RequestRow /\ row.books = named /\ row.scope = scope /\ row.at = to
  BY <1>2 DEF Idle, RequestRow
<1> HIDE DEF row
<1>5. WithinScope(row, members' \cup undone')
  BY <1>3, <1>4 DEF WithinScope
<1>6. row.books \subseteq library'
  BY <1>2, <1>4 DEF Still
<1> QED
  BY <1>1, <1>4, <1>5, <1>6, StillGrown, OneRequest

LEMMA ServeInv ==
    ASSUME CollectionsInv, RequestInv, history \subseteq Search, Still, NEW q \in Search, Serve(q)
    PROVE  RequestInv'
<1>1. req[q] \in RequestRow /\ req \in [Search -> RequestRow]
  BY DEF RequestInv
<1>2. {"members", "refused", "scoped", "flush", "arms", "llm", "commit", "answered", "error"}
        \subseteq ReqPlaces
  BY DEF ReqPlaces
<1>3. ASSUME NEW from, NEW to \in ReqPlaces, Step(q, from, to),
             from \notin {"folders", "members", "refused", "error"}
      PROVE  RequestInv'
  <2> DEFINE row == [req[q] EXCEPT !.at = to]
  <2>1. req' = [req EXCEPT ![q] = row] /\ req[q].at = from
    BY <1>1, <1>3 DEF Step
  <2>2. row \in RequestRow /\ row.scope = req[q].scope /\ row.books = req[q].books
    BY <1>1 DEF RequestRow
  <2> HIDE DEF row
  <2> QED
    BY <1>3, <2>1, <2>2, NarrowInv
<1>4. CASE CheckFolders(q)
  <2>1. CASE Finish(q, "refused")
    BY <1>2, <2>1, FinishInv
  <2>2. CASE Step(q, "folders", "members")
    <3> DEFINE row == [req[q] EXCEPT !.at = "members"]
    <3>1. req' = [req EXCEPT ![q] = row]
      BY <1>1, <2>2 DEF Step
    <3>2. row \in RequestRow /\ row.at = "members" /\ row.books = req[q].books
      BY <1>1, <1>2 DEF RequestRow
    <3> HIDE DEF row
    <3>3. row.books \subseteq library'
      BY <3>2 DEF RequestInv, Still
    <3>4. WithinScope(row, members' \cup undone')
      BY <3>2 DEF WithinScope
    <3> QED
      BY <3>1, <3>2, <3>3, <3>4, StillGrown, OneRequest
  <2> QED
    BY <1>4, <2>1, <2>2 DEF CheckFolders
<1>5. CASE ReadMembers(q)
  <2> DEFINE chosen == req[q].scope.books \cup BooksOf(req[q].scope.folders)
             row == [req[q] EXCEPT !.at = "scoped", !.books = req[q].books \cap chosen]
  <2>1. req' = [req EXCEPT ![q] = row]
    BY <1>1, <1>5 DEF ReadMembers, Narrow
  <2>2. /\ row \in RequestRow /\ row.scope = req[q].scope
        /\ row.books = req[q].books \cap chosen
    BY <1>1, <1>2 DEF RequestRow
  <2> HIDE DEF row
  <2>3. row.books \subseteq library'
    BY <2>2 DEF RequestInv, Still
  <2>4. WithinScope(row, members' \cup undone')
    <3>1. chosen \subseteq req[q].scope.books
            \cup {m[2] : m \in {n \in members \cup undone : n[1] \in req[q].scope.folders}}
      BY DEF BooksOf, Memberships
    <3> QED
      BY <2>2, <3>1 DEF WithinScope, Still
  <2> QED
    BY <2>1, <2>2, <2>3, <2>4, StillGrown, OneRequest
<1>6. ASSUME LoseDense(q), req[q].at \in {"scoped", "arms"} PROVE RequestInv'
  <2> DEFINE row == [req[q] EXCEPT !.at = "arms", !.flags = {"dense"}]
  <2>1. req' = [req EXCEPT ![q] = row]
    BY <1>1, <1>6 DEF LoseDense
  <2>2. row \in RequestRow /\ row.scope = req[q].scope /\ row.books = req[q].books
    BY <1>1, <1>2 DEF RequestRow
  <2> HIDE DEF row
  <2> QED
    BY <1>6, <2>1, <2>2, NarrowInv
<1>7. CASE Embed(q)
  BY <1>2, <1>3, <1>6, <1>7 DEF Embed
<1>8. CASE Timeout(q)
  BY <1>6, <1>8 DEF Timeout
<1>9. CASE Retrieve(q)
  <2> PICK sparse \in BOOLEAN, found \in BOOLEAN :
        /\ req[q].at = "arms"
        /\ IF ArmFlags(q, sparse) = {"dense", "sparse"}
           THEN ~found /\ Finish(q, "refused")
           ELSE req' = [req EXCEPT ![q].at = IF found THEN "llm" ELSE "flush",
                                   ![q].books = IF found THEN @ ELSE {},
                                   ![q].flags = ArmFlags(q, sparse)]
    BY <1>9 DEF Retrieve
  <2>1. CASE Finish(q, "refused")
    BY <1>2, <2>1, FinishInv
  <2>2. CASE req' = [req EXCEPT ![q].at = IF found THEN "llm" ELSE "flush",
                                ![q].books = IF found THEN @ ELSE {},
                                ![q].flags = ArmFlags(q, sparse)]
    <3> DEFINE to == IF found THEN "llm" ELSE "flush"
               kept == IF found THEN req[q].books ELSE {}
               flags == ArmFlags(q, sparse)
               row == [req[q] EXCEPT !.at = to, !.books = kept, !.flags = flags]
    <3>1. req' = [req EXCEPT ![q] = row]
      BY <1>1, <2>2
    <3>2. kept \subseteq req[q].books /\ to \in ReqPlaces /\ flags \in SUBSET {"dense", "sparse"}
      BY <1>2 DEF ArmFlags
    <3> HIDE DEF to, kept, flags
    <3>3. row \in RequestRow /\ row.scope = req[q].scope /\ row.books = kept
      BY <1>1, <3>2 DEF RequestRow
    <3> HIDE DEF row
    <3> QED
      BY <3>1, <3>2, <3>3, NarrowInv
  <2> QED
    BY <2>1, <2>2
<1>10. CASE Summarize(q)
  BY <1>2, <1>3, <1>10, FinishInv DEF Summarize
<1>11. CASE Flush(q)
  <2> DEFINE doomed == Overflow(history \cup {q})
             row == [req[q] EXCEPT !.at = "commit", !.doomed = doomed]
  <2>1. req' = [req EXCEPT ![q] = row] /\ req[q].at = "flush"
    BY <1>1, <1>11 DEF Flush, Prune
  <2>2. doomed \subseteq Search
    BY DEF Overflow
  <2> HIDE DEF doomed
  <2>3. row \in RequestRow /\ row.scope = req[q].scope /\ row.books = req[q].books
    BY <1>1, <1>2, <2>2 DEF RequestRow
  <2> HIDE DEF row
  <2> QED
    BY <2>1, <2>3, NarrowInv
<1>12. CASE SaveFails(q)
  BY <1>2, <1>12, FinishInv DEF SaveFails
<1>13. CASE Commit(q)
  BY <1>2, <1>13, FinishInv DEF Commit
<1> QED
  BY <1>4, <1>5, <1>7, <1>8, <1>9, <1>10, <1>11, <1>12, <1>13 DEF Serve

-----------------------------------------------------------------------------
(* Threads: who holds a client, and that a client is built only once.      *)
ThreadPlaces == {"idle", "start", "build", "call", "reset", "failed", "found"}
ThreadRow == [at : ThreadPlaces, holds : Search \cup {NoClient}]
Early == {"idle", "folders", "members", "scoped"}
Unbuilt == {"idle", "start", "build"}
Due(c) == \E q \in Search : thread[q] = [at |-> "reset", holds |-> c]

ThreadsInv ==
    /\ client \in Search \cup {NoClient} /\ failed \subseteq Search
    /\ thread \in [Search -> ThreadRow]
    /\ \A q \in Search : thread[q].at \in {"call", "reset"} =>
                           thread[q].holds \in Search /\ thread[thread[q].holds].at \notin Unbuilt
    /\ \A q \in Search : thread[q].at = "reset" => thread[q].holds \in failed
    /\ client \in Search => thread[client].at \notin Unbuilt
    /\ \A c \in failed : thread[c].at \notin Unbuilt
    /\ client \in failed => Due(client)

DropsOnlyTheFailed ==
    /\ (client # NoClient /\ client' = NoClient) => client \in failed
    /\ client' \in failed' => \E q \in Search : thread'[q] = [at |-> "reset", holds |-> client']

LEMMA ThreadRows ==
    ASSUME NEW at \in ThreadPlaces, NEW holds \in Search \cup {NoClient}
    PROVE  [at |-> at, holds |-> holds] \in ThreadRow
  BY DEF ThreadRow

(* A thread that goes on, without building, failing or resetting.          *)
LEMMA ThreadMoves ==
    ASSUME ThreadsInv, NEW q \in Search, NEW row \in ThreadRow,
           thread' = [thread EXCEPT ![q] = row], UNCHANGED <<client, failed>>,
           row.at \in {"call", "reset"} =>
             row.holds \in Search /\ thread[row.holds].at \notin Unbuilt,
           row.at = "reset" => row.holds \in failed,
           thread[q].at \notin Unbuilt => row.at \notin Unbuilt,
           thread[q].at # "reset"
    PROVE  ThreadsInv' /\ DropsOnlyTheFailed
<1>1. thread' \in [Search -> ThreadRow]
  BY DEF ThreadsInv
<1>2. thread'[q] = row /\ \A x \in Search : x # q => thread'[x] = thread[x]
  BY DEF ThreadsInv
<1>3. \A x \in Search : thread[x].at \notin Unbuilt => thread'[x].at \notin Unbuilt
  BY <1>2
<1>4. ASSUME NEW x \in Search, thread'[x].at \in {"call", "reset"}
      PROVE  thread'[x].holds \in Search /\ thread'[thread'[x].holds].at \notin Unbuilt
  BY <1>2, <1>3, <1>4 DEF ThreadsInv
<1>5. ASSUME NEW x \in Search, thread'[x].at = "reset" PROVE thread'[x].holds \in failed'
  BY <1>2, <1>5 DEF ThreadsInv
<1>6. client' \in failed' => Due(client)'
  <2> SUFFICES ASSUME client \in failed PROVE Due(client)'
    OBVIOUS
  <2>1. PICK x \in Search : thread[x] = [at |-> "reset", holds |-> client]
    BY DEF ThreadsInv, Due
  <2>2. x # q
    BY <2>1
  <2>3. thread'[x] = [at |-> "reset", holds |-> client']
    BY <1>2, <2>1, <2>2
  <2> QED
    BY <2>3 DEF Due
<1>7. client' \in Search => thread'[client'].at \notin Unbuilt
  BY <1>3 DEF ThreadsInv
<1>8. \A c \in failed' : thread'[c].at \notin Unbuilt
  BY <1>3 DEF ThreadsInv
<1>9. client' \in Search \cup {NoClient} /\ failed' \subseteq Search
  BY DEF ThreadsInv
<1>10. ThreadsInv'
  BY <1>1, <1>4, <1>5, <1>6, <1>7, <1>8, <1>9 DEF ThreadsInv
<1> QED
  BY <1>6, <1>10 DEF DropsOnlyTheFailed, Due

LEMMA ThreadsStep == ThreadsInv /\ ClientNext => ThreadsInv' /\ DropsOnlyTheFailed
<1> SUFFICES ASSUME ThreadsInv, NEW q \in Search,
                    Checkout(q) \/ Build(q) \/ CallMilvus(q) \/ ResetClient(q)
             PROVE  ThreadsInv' /\ DropsOnlyTheFailed
  BY DEF ClientNext
<1>0. /\ client \in Search \cup {NoClient} /\ failed \subseteq Search
      /\ thread \in [Search -> ThreadRow] /\ thread[q].holds \in Search \cup {NoClient}
  BY DEF ThreadsInv, ThreadRow
<1>1. CASE Checkout(q)
  <2>1. CASE client = NoClient
    <3> DEFINE row == [at |-> "build", holds |-> NoClient]
    <3>1. /\ thread' = [thread EXCEPT ![q] = row] /\ UNCHANGED <<client, failed>>
          /\ thread[q].at = "start"
      BY <1>1, <2>1 DEF Checkout, Put
    <3>2. row \in ThreadRow /\ row.at = "build"
      BY ThreadRows DEF ThreadPlaces
    <3> HIDE DEF row
    <3> QED
      BY <3>1, <3>2, ThreadMoves DEF Unbuilt
  <2>2. CASE client # NoClient
    <3> DEFINE row == [at |-> "call", holds |-> client]
    <3>1. /\ thread' = [thread EXCEPT ![q] = row] /\ UNCHANGED <<client, failed>>
          /\ thread[q].at = "start"
      BY <1>1, <2>2 DEF Checkout, Put
    <3>2. row \in ThreadRow /\ row.at = "call" /\ row.holds = client
      BY <1>0, ThreadRows DEF ThreadPlaces
    <3>3. client \in Search /\ thread[client].at \notin Unbuilt
      BY <2>2 DEF ThreadsInv
    <3> HIDE DEF row
    <3> QED
      BY <3>1, <3>2, <3>3, ThreadMoves DEF Unbuilt
  <2> QED
    BY <2>1, <2>2
<1>2. CASE Build(q)
  <2>1. CASE UNCHANGED client /\ Put(q, "failed", NoClient)
    <3> DEFINE row == [at |-> "failed", holds |-> NoClient]
    <3>1. /\ thread' = [thread EXCEPT ![q] = row] /\ UNCHANGED <<client, failed>>
          /\ thread[q].at = "build"
      BY <1>2, <2>1 DEF Build, Put
    <3>2. row \in ThreadRow /\ row.at = "failed"
      BY ThreadRows DEF ThreadPlaces
    <3> HIDE DEF row
    <3> QED
      BY <3>1, <3>2, ThreadMoves DEF Unbuilt
  <2>2. CASE client' = q /\ Put(q, "call", q)
    <3> DEFINE row == [at |-> "call", holds |-> q]
    <3>1. /\ thread' = [thread EXCEPT ![q] = row] /\ failed' = failed
          /\ client' = q /\ thread[q].at = "build"
      BY <1>2, <2>2 DEF Build, Put
    <3>2. row \in ThreadRow /\ row.at = "call" /\ row.holds = q
      BY ThreadRows DEF ThreadPlaces
    <3> HIDE DEF row
    <3>3. thread'[q] = row /\ \A x \in Search : x # q => thread'[x] = thread[x]
      BY <1>0, <3>1
    <3>4. q \notin failed
      BY <3>1 DEF ThreadsInv, Unbuilt
    <3>5. \A x \in Search : thread[x].at \notin Unbuilt => thread'[x].at \notin Unbuilt
      BY <3>2, <3>3 DEF Unbuilt
    <3>6. /\ thread' \in [Search -> ThreadRow]
          /\ client' \in Search \cup {NoClient} /\ failed' \subseteq Search
      BY <1>0, <3>1, <3>2
    <3>7. ASSUME NEW x \in Search, thread'[x].at \in {"call", "reset"}
          PROVE  thread'[x].holds \in Search /\ thread'[thread'[x].holds].at \notin Unbuilt
      <4>1. CASE x = q
        BY <3>2, <3>3, <4>1 DEF Unbuilt
      <4>2. CASE x # q
        BY <3>3, <3>5, <3>7, <4>2 DEF ThreadsInv
      <4> QED
        BY <4>1, <4>2
    <3>8. \A x \in Search : thread'[x].at = "reset" => thread'[x].holds \in failed'
      BY <3>1, <3>2, <3>3 DEF ThreadsInv
    <3>9. (client' \in Search => thread'[client'].at \notin Unbuilt)
          /\ \A c \in failed' : thread'[c].at \notin Unbuilt
      BY <1>0, <3>1, <3>2, <3>3, <3>5 DEF ThreadsInv, Unbuilt
    <3>10. client' \notin failed'
      BY <3>1, <3>4
    <3>11. ThreadsInv'
      BY <3>6, <3>7, <3>8, <3>9, <3>10 DEF ThreadsInv
    <3>12. client' # NoClient
      BY <3>1, NoClientAssumption
    <3> QED
      BY <3>10, <3>11, <3>12 DEF DropsOnlyTheFailed
  <2> QED
    BY <1>2, <2>1, <2>2 DEF Build
<1>3. CASE CallMilvus(q)
  <2>0. thread[q].at = "call" /\ client' = client
    BY <1>3 DEF CallMilvus
  <2>1. ASSUME NEW to \in {"found", "failed"}, Put(q, to, NoClient), failed' = failed
        PROVE  ThreadsInv' /\ DropsOnlyTheFailed
    <3> DEFINE row == [at |-> to, holds |-> NoClient]
    <3>1. thread' = [thread EXCEPT ![q] = row] /\ UNCHANGED <<client, failed>>
      BY <2>0, <2>1 DEF Put
    <3>2. row \in ThreadRow /\ row.at \in {"found", "failed"}
      BY ThreadRows DEF ThreadPlaces
    <3> HIDE DEF row
    <3> QED
      BY <2>0, <3>1, <3>2, ThreadMoves DEF Unbuilt
  <2>2. CASE Put(q, "reset", thread[q].holds) /\ failed' = failed \cup {thread[q].holds}
    <3> DEFINE held == thread[q].holds
               row == [at |-> "reset", holds |-> held]
    <3>1. thread' = [thread EXCEPT ![q] = row] /\ failed' = failed \cup {held}
      BY <2>2 DEF Put
    <3>2. held \in Search /\ thread[held].at \notin Unbuilt
      BY <2>0 DEF ThreadsInv
    <3> HIDE DEF held
    <3>3. row \in ThreadRow /\ row.at = "reset" /\ row.holds = held
      BY <3>2, ThreadRows DEF ThreadPlaces
    <3>4. thread'[q] = row /\ \A x \in Search : x # q => thread'[x] = thread[x]
      BY <1>0, <3>1
    <3>5. \A x \in Search : thread[x].at \notin Unbuilt => thread'[x].at \notin Unbuilt
      BY <3>3, <3>4 DEF Unbuilt
    <3>6. /\ thread' \in [Search -> ThreadRow]
          /\ client' \in Search \cup {NoClient} /\ failed' \subseteq Search
      BY <1>0, <2>0, <3>1, <3>2, <3>3
    <3>7. ASSUME NEW x \in Search, thread'[x].at \in {"call", "reset"}
          PROVE  thread'[x].holds \in Search /\ thread'[thread'[x].holds].at \notin Unbuilt
      <4>1. CASE x = q
        BY <3>2, <3>3, <3>4, <3>5, <4>1
      <4>2. CASE x # q
        BY <3>4, <3>5, <3>7, <4>2 DEF ThreadsInv
      <4> QED
        BY <4>1, <4>2
    <3>8. \A x \in Search : thread'[x].at = "reset" => thread'[x].holds \in failed'
      BY <3>1, <3>3, <3>4 DEF ThreadsInv
    <3>9. (client' \in Search => thread'[client'].at \notin Unbuilt)
          /\ \A c \in failed' : thread'[c].at \notin Unbuilt
      BY <1>0, <2>0, <3>1, <3>2, <3>5 DEF ThreadsInv
    <3>10. client' \in failed' => \E x \in Search : thread'[x] = [at |-> "reset", holds |-> client']
      <4>1. CASE client = held
        BY <2>0, <3>4, <4>1
      <4>2. CASE client \in failed /\ client # held
        <5>1. PICK x \in Search : thread[x] = [at |-> "reset", holds |-> client]
          BY <4>2 DEF ThreadsInv, Due
        <5>2. x # q
          BY <2>0, <5>1
        <5> QED
          BY <2>0, <3>4, <5>1, <5>2
      <4> QED
        BY <2>0, <3>1, <4>1, <4>2
    <3>11. ThreadsInv'
      BY <3>6, <3>7, <3>8, <3>9, <3>10 DEF ThreadsInv, Due
    <3> QED
      BY <2>0, <3>10, <3>11 DEF DropsOnlyTheFailed
  <2> QED
    BY <1>3, <2>1, <2>2 DEF CallMilvus
<1>4. CASE ResetClient(q)
  <2> DEFINE held == thread[q].holds
             row == [at |-> "failed", holds |-> NoClient]
  <2>1. /\ thread' = [thread EXCEPT ![q] = row] /\ failed' = failed /\ thread[q].at = "reset"
        /\ client' = IF client = held THEN NoClient ELSE client
    BY <1>4 DEF ResetClient, Put
  <2>2. held \in failed
    BY <2>1 DEF ThreadsInv
  <2>3. row \in ThreadRow /\ row.at = "failed"
    BY ThreadRows DEF ThreadPlaces
  <2>4. thread'[q] = row /\ \A x \in Search : x # q => thread'[x] = thread[x]
    BY <1>0, <2>1
  <2>5. thread[q].holds = held
    OBVIOUS
  <2> HIDE DEF held, row
  <2>6. \A x \in Search : thread[x].at \notin Unbuilt => thread'[x].at \notin Unbuilt
    BY <2>3, <2>4 DEF Unbuilt
  <2>7. /\ thread' \in [Search -> ThreadRow]
        /\ client' \in Search \cup {NoClient} /\ failed' \subseteq Search
    BY <1>0, <2>1, <2>3
  <2>8. ASSUME NEW x \in Search, thread'[x].at \in {"call", "reset"}
        PROVE  thread'[x].holds \in Search /\ thread'[thread'[x].holds].at \notin Unbuilt
    BY <2>3, <2>4, <2>6, <2>8 DEF ThreadsInv
  <2>9. \A x \in Search : thread'[x].at = "reset" => thread'[x].holds \in failed'
    BY <2>1, <2>3, <2>4 DEF ThreadsInv
  <2>10. (client' \in Search => thread'[client'].at \notin Unbuilt)
         /\ \A c \in failed' : thread'[c].at \notin Unbuilt
    BY <1>0, <2>1, <2>6, NoClientAssumption DEF ThreadsInv
  <2>11. client' \in failed' => \E x \in Search : thread'[x] = [at |-> "reset", holds |-> client']
    <3> SUFFICES ASSUME client' \in failed
                 PROVE  \E x \in Search : thread'[x] = [at |-> "reset", holds |-> client']
      BY <2>1
    <3>1. client' = client /\ client # held
      BY <1>0, <2>1, NoClientAssumption
    <3>2. PICK x \in Search : thread[x] = [at |-> "reset", holds |-> client]
      BY <3>1 DEF ThreadsInv, Due
    <3>3. x # q
      BY <2>5, <3>1, <3>2
    <3> QED
      BY <2>4, <3>1, <3>2, <3>3
  <2>12. ThreadsInv'
    BY <2>7, <2>8, <2>9, <2>10, <2>11 DEF ThreadsInv, Due
  <2> QED
    BY <2>1, <2>2, <2>11, <2>12 DEF DropsOnlyTheFailed
<1> QED
  BY <1>1, <1>2, <1>3, <1>4

(* A thread is started only for a request whose scope is known.            *)
EarlyInv == \A q \in Search : req[q].at \in Early => thread[q].at = "idle"

LEMMA ThreadsRest ==
    ASSUME ThreadsInv, UNCHANGED clientVars
    PROVE  ThreadsInv' /\ DropsOnlyTheFailed
<1>1. client' = client /\ thread' = thread /\ failed' = failed
  BY DEF clientVars
<1>2. ThreadsInv'
  BY <1>1 DEF ThreadsInv, Due
<1> QED
  BY <1>1, <1>2 DEF DropsOnlyTheFailed, ThreadsInv, Due

LEMMA IdleRests ==
    ASSUME ThreadsInv, ClientNext, NEW x \in Search, thread[x].at = "idle"
    PROVE  thread'[x].at = "idle"
<1> PICK q \in Search : Checkout(q) \/ Build(q) \/ CallMilvus(q) \/ ResetClient(q)
  BY DEF ClientNext
<1>1. q # x
  BY DEF Checkout, Build, CallMilvus, ResetClient
<1>2. \E row : thread' = [thread EXCEPT ![q] = row]
  BY DEF Checkout, Build, CallMilvus, ResetClient, Put
<1> QED
  BY <1>1, <1>2 DEF ThreadsInv

(* No step leads a request back before its scope.                          *)
LEMMA ServeGoesOn ==
    ASSUME RequestInv, NEW q \in Search, Serve(q), NEW x \in Search, req'[x].at \in Early
    PROVE  req[x].at \in Early
<1>1. req \in [Search -> RequestRow] /\ req[q] \in RequestRow
  BY DEF RequestInv
<1>2. CASE CheckFolders(q) \/ ReadMembers(q)
  <2>1. req[q].at \in Early
    BY <1>2 DEF CheckFolders, ReadMembers, Early
  <2>2. \E row : req' = [req EXCEPT ![q] = row]
    BY <1>2 DEF CheckFolders, ReadMembers, Step, Finish, Narrow
  <2> QED
    BY <1>1, <2>1, <2>2
<1>3. ASSUME NEW row, req' = [req EXCEPT ![q] = row], row.at \notin Early
      PROVE  req[x].at \in Early
  BY <1>1, <1>3
<1>4. ASSUME NEW to, Finish(q, to), to \notin Early PROVE req[x].at \in Early
  <2>1. [Idle EXCEPT !.at = to].at = to
    BY DEF Idle
  <2> QED
    BY <1>3, <1>4, <2>1 DEF Finish
<1>5. ASSUME NEW from, NEW to, Step(q, from, to), to \notin Early PROVE req[x].at \in Early
  <2>1. [req[q] EXCEPT !.at = to].at = to
    BY <1>1 DEF RequestRow
  <2>2. req' = [req EXCEPT ![q] = [req[q] EXCEPT !.at = to]]
    BY <1>1, <1>5 DEF Step
  <2> QED
    BY <1>3, <1>5, <2>1, <2>2
<1>6. ASSUME LoseDense(q) PROVE req[x].at \in Early
  <2> DEFINE row == [req[q] EXCEPT !.at = "arms", !.flags = {"dense"}]
  <2>1. row.at = "arms"
    BY <1>1 DEF RequestRow
  <2>2. req' = [req EXCEPT ![q] = row]
    BY <1>1, <1>6 DEF LoseDense
  <2> QED
    BY <1>3, <2>1, <2>2 DEF Early
<1>7. CASE Embed(q)
  BY <1>5, <1>6, <1>7 DEF Embed, Early
<1>8. CASE Timeout(q)
  BY <1>6, <1>8 DEF Timeout
<1>9. CASE Retrieve(q)
  <2> PICK sparse \in BOOLEAN, found \in BOOLEAN :
        \/ Finish(q, "refused")
        \/ req' = [req EXCEPT ![q].at = IF found THEN "llm" ELSE "flush",
                              ![q].books = IF found THEN @ ELSE {},
                              ![q].flags = ArmFlags(q, sparse)]
    BY <1>9 DEF Retrieve
  <2>1. CASE Finish(q, "refused")
    BY <1>4, <2>1 DEF Early
  <2>2. CASE req' = [req EXCEPT ![q].at = IF found THEN "llm" ELSE "flush",
                                ![q].books = IF found THEN @ ELSE {},
                                ![q].flags = ArmFlags(q, sparse)]
    <3> DEFINE row == [req[q] EXCEPT !.at = IF found THEN "llm" ELSE "flush",
                                     !.books = IF found THEN @ ELSE {},
                                     !.flags = ArmFlags(q, sparse)]
    <3>1. row.at \notin Early
      BY <1>1 DEF RequestRow, Early
    <3>2. req' = [req EXCEPT ![q] = row]
      BY <1>1, <2>2
    <3> QED
      BY <1>3, <3>1, <3>2
  <2> QED
    BY <2>1, <2>2
<1>10. CASE Summarize(q) \/ SaveFails(q) \/ Commit(q)
  BY <1>4, <1>5, <1>10 DEF Summarize, SaveFails, Commit, Early
<1>11. CASE Flush(q)
  <2> DEFINE row == [req[q] EXCEPT !.at = "commit", !.doomed = Overflow(history \cup {q})]
  <2>1. row.at = "commit"
    BY <1>1 DEF RequestRow
  <2>2. req' = [req EXCEPT ![q] = row]
    BY <1>1, <1>11 DEF Flush, Prune
  <2> QED
    BY <1>3, <2>1, <2>2 DEF Early
<1> QED
  BY <1>2, <1>7, <1>8, <1>9, <1>10, <1>11 DEF Serve

LEMMA ServeThreads ==
    ASSUME ThreadsInv, EarlyInv, RequestInv, NEW q \in Search, Serve(q)
    PROVE  ThreadsInv' /\ EarlyInv' /\ DropsOnlyTheFailed
<1>1. \A x \in Search : req'[x].at \in Early => req[x].at \in Early
  BY ServeGoesOn
<1>2. CASE UNCHANGED clientVars
  <2>1. EarlyInv'
    BY <1>1, <1>2 DEF EarlyInv, clientVars
  <2> QED
    BY <1>2, <2>1, ThreadsRest
<1>3. CASE Embed(q) /\ Step(q, "scoped", "arms") /\ Put(q, "start", NoClient)
  <2> DEFINE row == [at |-> "start", holds |-> NoClient]
  <2>1. /\ thread' = [thread EXCEPT ![q] = row] /\ UNCHANGED <<client, failed>>
        /\ req[q].at = "scoped"
    BY <1>3 DEF Embed, Put, Step
  <2>2. thread[q].at = "idle"
    BY <2>1 DEF EarlyInv, Early
  <2>3. row \in ThreadRow /\ row.at = "start"
    BY ThreadRows DEF ThreadPlaces
  <2> HIDE DEF row
  <2>4. ThreadsInv' /\ DropsOnlyTheFailed
    BY <2>1, <2>2, <2>3, ThreadMoves DEF Unbuilt
  <2>5. req'[q].at = "arms"
    BY <1>3 DEF RequestInv, RequestRow, Step
  <2>6. EarlyInv'
    BY <1>1, <2>1, <2>5 DEF EarlyInv, Early, ThreadsInv
  <2> QED
    BY <2>4, <2>6
<1>4. CASE Embed(q)
  BY <1>2, <1>3, <1>4 DEF Embed, clientVars
<1>5. CASE ~Embed(q)
  <2>1. UNCHANGED clientVars
    BY <1>5 DEF Serve, CheckFolders, ReadMembers, Timeout, Retrieve, Summarize, Flush,
                SaveFails, Commit, OnlyReq
  <2> QED
    BY <1>2, <2>1
<1> QED
  BY <1>4, <1>5

-----------------------------------------------------------------------------
(* The panel: a search it waits for is the latest wish, unless crossed.    *)
PanelRow == [sent : SUBSET Search, searching : BOOLEAN, latest : Search \cup {Nothing},
             shown : Search \cup {Nothing}, opening : Search \cup {Nothing},
             crossed : BOOLEAN]

PanelInv ==
    /\ panel \in PanelRow
    /\ panel.crossed \/ (/\ panel.sent \subseteq {panel.latest}
                         /\ panel.sent # {} => panel.searching
                         /\ panel.shown \in {Nothing, panel.latest})

LEMMA PanelInvInit == SearchInit => PanelInv
<1>1. {} \in SUBSET Search
  OBVIOUS
<1> QED
  BY <1>1 DEF SearchInit, PanelInv, PanelRow

LEMMA SubmitPanel ==
    ASSUME PanelInv, NEW q \in Search, NEW scope, Submit(q, scope)
    PROVE  PanelInv'
<1> DEFINE sent == panel.sent \cup {q}
           row == [panel EXCEPT !.sent = sent, !.searching = TRUE, !.latest = q,
                                !.shown = Nothing]
<1>1. panel' = row /\ panel \in PanelRow /\ ~panel.searching
  BY DEF Submit, PanelInv
<1>2. sent \in SUBSET Search
  BY <1>1 DEF PanelRow
<1>3. ~panel.crossed => sent = {q}
  BY <1>1 DEF PanelInv
<1> HIDE DEF sent
<1>4. /\ row \in PanelRow /\ row.sent = sent /\ row.searching = TRUE /\ row.latest = q
      /\ row.shown = Nothing /\ row.crossed = panel.crossed
  BY <1>1, <1>2 DEF PanelRow
<1> HIDE DEF row
<1> QED
  BY <1>1, <1>3, <1>4 DEF PanelInv

LEMMA DeliverPanel ==
    ASSUME PanelInv, NEW q \in Search, Deliver(q)
    PROVE  PanelInv'
<1> DEFINE sent == panel.sent \ {q}
           shown == IF req[q].at = "answered" THEN q ELSE panel.shown
           row == [panel EXCEPT !.sent = sent, !.searching = FALSE, !.shown = shown]
<1>1. panel' = row /\ panel \in PanelRow /\ q \in panel.sent
  BY DEF Deliver, PanelInv
<1>2. sent \in SUBSET Search /\ shown \in Search \cup {Nothing}
  BY <1>1 DEF PanelRow
<1>3. ~panel.crossed => sent = {} /\ shown \in {Nothing, panel.latest}
  BY <1>1 DEF PanelInv
<1> HIDE DEF sent, shown
<1>4. /\ row \in PanelRow /\ row.sent = sent /\ row.latest = panel.latest
      /\ row.shown = shown /\ row.crossed = panel.crossed
  BY <1>1, <1>2 DEF PanelRow
<1> HIDE DEF row
<1> QED
  BY <1>1, <1>3, <1>4 DEF PanelInv

LEMMA OpenPanel ==
    ASSUME PanelInv, NEW q \in Search, Open(q)
    PROVE  PanelInv'
<1> DEFINE row == [panel EXCEPT !.opening = q]
<1>1. panel' = row /\ panel \in PanelRow
  BY DEF Open, PanelInv
<1>2. /\ row \in PanelRow /\ row.sent = panel.sent /\ row.latest = panel.latest
      /\ row.searching = panel.searching /\ row.shown = panel.shown
      /\ row.crossed = panel.crossed
  BY <1>1 DEF PanelRow
<1> HIDE DEF row
<1> QED
  BY <1>1, <1>2 DEF PanelInv

LEMMA HydratePanel ==
    ASSUME PanelInv, Hydrate
    PROVE  PanelInv'
<1> DEFINE crossed == panel.crossed \/ panel.sent # {}
           row == [panel EXCEPT !.opening = Nothing, !.shown = panel.opening,
                                !.latest = panel.opening, !.searching = FALSE,
                                !.crossed = crossed]
<1>1. panel' = row /\ panel \in PanelRow
  BY DEF Hydrate, PanelInv
<1>2. crossed \in BOOLEAN /\ (~crossed => panel.sent = {})
  BY <1>1 DEF PanelRow
<1> HIDE DEF crossed
<1>3. /\ row \in PanelRow /\ row.sent = panel.sent /\ row.latest = panel.opening
      /\ row.shown = panel.opening /\ row.crossed = crossed
  BY <1>1, <1>2 DEF PanelRow
<1> HIDE DEF row
<1> QED
  BY <1>1, <1>2, <1>3 DEF PanelInv

-----------------------------------------------------------------------------
(* The inductive invariant of the composition.                             *)
SearchInv ==
    /\ CollectionsInv /\ RequestInv /\ ThreadsInv /\ EarlyInv /\ PanelInv
    /\ history \subseteq Search

LEMMA SearchInvInit == SearchInit => SearchInv
<1> SUFFICES ASSUME SearchInit PROVE SearchInv
  OBVIOUS
<1>1. CollectionsInv /\ PanelInv /\ history \subseteq Search
  BY CollectionsInvInit, PanelInvInit DEF SearchInit
<1>2. RequestInv
  <2>1. /\ Idle \in RequestRow /\ Idle.books = {} /\ Idle.scope = NoScope
    BY NoScopeIsScope DEF Idle, RequestRow, ReqPlaces
  <2>2. req \in [Search -> RequestRow] /\ \A q \in Search : req[q] = Idle
    BY <2>1 DEF SearchInit
  <2> QED
    BY <2>1, <2>2 DEF RequestInv, WithinScope
<1>3. ThreadsInv /\ EarlyInv
  <2> DEFINE row == [at |-> "idle", holds |-> NoClient]
  <2>1. row \in ThreadRow /\ row.at = "idle"
    BY ThreadRows DEF ThreadPlaces
  <2>2. thread = [q \in Search |-> row] /\ client = NoClient /\ failed = {}
    BY DEF SearchInit, ClientInit
  <2> HIDE DEF row
  <2>3. thread \in [Search -> ThreadRow] /\ \A q \in Search : thread[q].at = "idle"
    BY <2>1, <2>2
  <2> QED
    BY <2>2, <2>3, NoClientAssumption DEF ThreadsInv, EarlyInv
<1> QED
  BY <1>1, <1>2, <1>3 DEF SearchInv

LEMMA CollectionsRest ==
    ASSUME CollectionsInv, UNCHANGED collectionVars
    PROVE  CollectionsInv' /\ Still
  BY DEF CollectionsInv, collectionVars, Still

LEMMA RequestsRest ==
    ASSUME RequestInv, Grown, UNCHANGED req
    PROVE  RequestInv'
<1>1. ASSUME NEW q \in Search
      PROVE  req[q].books \subseteq library' /\ WithinScope(req[q], members' \cup undone')
  BY ScopeGrows DEF RequestInv, Grown
<1> QED
  BY <1>1 DEF RequestInv

LEMMA EarlyRests ==
    ASSUME EarlyInv, UNCHANGED <<req, thread>>
    PROVE  EarlyInv'
  BY DEF EarlyInv

LEMMA SubmitInv ==
    ASSUME SearchInv, NEW q \in Search, NEW scope \in Scope,
           Submit(q, scope) \/ SubmitElsewhere(q, scope)
    PROVE  SearchInv' /\ DropsOnlyTheFailed
<1>1. Resolve(q, scope) /\ UNCHANGED <<collectionVars, clientVars, history>>
  BY DEF Submit, SubmitElsewhere
<1>2. CollectionsInv' /\ Still /\ ThreadsInv' /\ DropsOnlyTheFailed
  BY <1>1, CollectionsRest, ThreadsRest DEF SearchInv
<1>3. RequestInv'
  BY <1>1, <1>2, ResolveInv DEF SearchInv
<1>4. PanelInv'
  <2>1. CASE Submit(q, scope)
    BY <2>1, SubmitPanel DEF SearchInv
  <2>2. CASE SubmitElsewhere(q, scope)
    BY <2>2 DEF SubmitElsewhere, SearchInv, PanelInv
  <2> QED
    BY <2>1, <2>2
<1>5. EarlyInv'
  <2>1. thread' = thread /\ req[q].at = "idle"
    BY <1>1 DEF clientVars, Resolve
  <2>2. \E row : req' = [req EXCEPT ![q] = row]
    BY <1>1 DEF Resolve
  <2>3. \A x \in Search : x # q => req'[x] = req[x]
    BY <2>2 DEF SearchInv, RequestInv
  <2> QED
    BY <2>1, <2>3 DEF SearchInv, EarlyInv, Early
<1> QED
  BY <1>1, <1>2, <1>3, <1>4, <1>5 DEF SearchInv

LEMMA ServeKeeps ==
    ASSUME SearchInv, NEW q \in Search, Serve(q)
    PROVE  SearchInv' /\ DropsOnlyTheFailed
<1>1. UNCHANGED <<collectionVars, panel>> /\ history' \subseteq history \cup {q}
  BY DEF Serve, CheckFolders, ReadMembers, Embed, Timeout, Retrieve, Summarize, Flush,
         SaveFails, Commit, OnlyReq
<1>2. CollectionsInv' /\ Still
  BY <1>1, CollectionsRest DEF SearchInv
<1>3. RequestInv'
  BY <1>2, ServeInv DEF SearchInv
<1>4. ThreadsInv' /\ EarlyInv' /\ DropsOnlyTheFailed
  BY ServeThreads DEF SearchInv
<1>5. PanelInv'
  BY <1>1 DEF SearchInv, PanelInv
<1> QED
  BY <1>1, <1>2, <1>3, <1>4, <1>5 DEF SearchInv

(* A step of the tab, of an erasure, or none at all.                       *)
LEMMA QuietKeeps ==
    ASSUME SearchInv, UNCHANGED <<collectionVars, clientVars, req>>,
           history' \subseteq history, PanelInv'
    PROVE  SearchInv' /\ DropsOnlyTheFailed
<1>1. CollectionsInv' /\ Still /\ ThreadsInv' /\ DropsOnlyTheFailed
  BY CollectionsRest, ThreadsRest DEF SearchInv
<1>2. RequestInv'
  BY <1>1, StillGrown, RequestsRest DEF SearchInv
<1>3. EarlyInv'
  BY EarlyRests DEF SearchInv, clientVars
<1> QED
  BY <1>1, <1>2, <1>3 DEF SearchInv

LEMMA SearchStep == SearchInv /\ [SearchNext]_vars => SearchInv' /\ DropsOnlyTheFailed
<1> SUFFICES ASSUME SearchInv, [SearchNext]_vars PROVE SearchInv' /\ DropsOnlyTheFailed
  OBVIOUS
<1>1. CASE CollectionNext /\ UNCHANGED <<clientVars, searchVars>>
  <2>1. /\ UNCHANGED <<req, history, panel, client, thread, failed>>
        /\ UNCHANGED clientVars
    BY <1>1 DEF searchVars, clientVars
  <2>2. CollectionsInv' /\ Grown
    BY <1>1, CollectionsStep DEF SearchInv
  <2>3. RequestInv' /\ ThreadsInv' /\ EarlyInv' /\ DropsOnlyTheFailed
    BY <2>1, <2>2, RequestsRest, ThreadsRest, EarlyRests DEF SearchInv
  <2>4. PanelInv'
    BY <2>1 DEF SearchInv, PanelInv
  <2> QED
    BY <2>1, <2>2, <2>3, <2>4 DEF SearchInv
<1>2. CASE ClientNext /\ UNCHANGED <<collectionVars, searchVars>>
  <2>1. UNCHANGED <<req, history, panel>>
    BY <1>2 DEF searchVars
  <2>2. CollectionsInv' /\ Still
    BY <1>2, CollectionsRest DEF SearchInv
  <2>3. RequestInv'
    BY <2>1, <2>2, StillGrown, RequestsRest DEF SearchInv
  <2>4. ThreadsInv' /\ DropsOnlyTheFailed
    BY <1>2, ThreadsStep DEF SearchInv
  <2>5. EarlyInv'
    BY <1>2, <2>1, IdleRests DEF SearchInv, EarlyInv
  <2>6. PanelInv'
    BY <2>1 DEF SearchInv, PanelInv
  <2> QED
    BY <2>1, <2>2, <2>3, <2>4, <2>5, <2>6 DEF SearchInv
<1>3. ASSUME NEW q \in Search, NEW scope \in Scope,
             Submit(q, scope) \/ SubmitElsewhere(q, scope)
      PROVE  SearchInv' /\ DropsOnlyTheFailed
  BY <1>3, SubmitInv
<1>4. ASSUME NEW q \in Search, Serve(q) PROVE SearchInv' /\ DropsOnlyTheFailed
  BY <1>4, ServeKeeps
<1>5. ASSUME NEW q \in Search, Deliver(q) \/ Open(q) PROVE SearchInv' /\ DropsOnlyTheFailed
  <2>1. UNCHANGED <<collectionVars, clientVars, req>> /\ history' = history
    BY <1>5 DEF Deliver, Open, OnlyPanel
  <2>2. PanelInv'
    BY <1>5, DeliverPanel, OpenPanel DEF SearchInv
  <2> QED
    BY <2>1, <2>2, QuietKeeps
<1>6. CASE Hydrate
  <2>1. UNCHANGED <<collectionVars, clientVars, req>> /\ history' = history
    BY <1>6 DEF Hydrate, OnlyPanel
  <2>2. PanelInv'
    BY <1>6, HydratePanel DEF SearchInv
  <2> QED
    BY <2>1, <2>2, QuietKeeps
<1>7. ASSUME NEW rows \in SUBSET history, Erase(rows) PROVE SearchInv' /\ DropsOnlyTheFailed
  <2>1. UNCHANGED <<collectionVars, clientVars, req>> /\ history' \subseteq history
    BY <1>7 DEF Erase
  <2>2. PanelInv'
    BY <1>7 DEF Erase, SearchInv, PanelInv
  <2> QED
    BY <2>1, <2>2, QuietKeeps
<1>8. CASE UNCHANGED vars
  <2>1. UNCHANGED <<collectionVars, clientVars, req, history, panel>>
    BY <1>8 DEF vars, searchVars
  <2>2. PanelInv'
    BY <2>1 DEF SearchInv, PanelInv
  <2> QED
    BY <2>1, <2>2, QuietKeeps
<1> QED
  BY <1>1, <1>2, <1>3, <1>4, <1>5, <1>6, <1>7, <1>8 DEF SearchNext

(* The invariant holds of every behaviour.                                 *)
THEOREM SearchInvariance == Spec => []SearchInv
<1>1. SearchInv /\ [SearchNext]_vars => SearchInv'
  BY SearchStep
<1> QED
  BY SearchInvInit, <1>1, PTL DEF Spec

(* A membership names a collection there is and an owned book, also when   *)
(* an add races a delete; an answered add has stored what it clamped       *)
(* (api/collections_routes.py).                                            *)
THEOREM MembershipsTheorem == Spec => []MembershipsAreOwned
<1>1. SearchInv => MembershipsAreOwned
  BY DEF SearchInv, CollectionsInv, MembershipsAreOwned
<1> QED
  BY SearchInvariance, <1>1, PTL

(* Whatever runs against the tables between the statements that resolve    *)
(* it, a scope yields only books of the library, named or once collected   *)
(* (api/search.py and api/summary.py).                                     *)
THEOREM ScopeTheorem == Spec => []ScopeOnlyShrinks
<1>1. SearchInv => ScopeOnlyShrinks
  BY DEF SearchInv, RequestInv, WithinScope, ScopeOnlyShrinks
<1> QED
  BY SearchInvariance, <1>1, PTL

(* The tab shows the answer to the latest wish, or none, as long as no     *)
(* saved search was opened over one under way (SearchPanel.tsx).           *)
THEOREM PanelTheorem == Spec => []PanelShowsTheLatest
<1>1. SearchInv => PanelShowsTheLatest
  BY DEF SearchInv, PanelInv, PanelShowsTheLatest
<1> QED
  BY SearchInvariance, <1>1, PTL

(* However late a thread notices a failure, its reset drops only a client  *)
(* that has failed (_reset_client of api/search.py).                       *)
THEOREM ClientTheorem == Spec => OnlyTheFailedIsDropped
<1>1. SearchInv /\ [SearchNext]_vars =>
        [/\ (client # NoClient /\ client' = NoClient) => client \in failed
         /\ client' \in failed' =>
              \E q \in Search : thread'[q] = [at |-> "reset", holds |-> client']]_clientVars
  BY SearchStep DEF DropsOnlyTheFailed
<1> QED
  BY SearchInvariance, <1>1, PTL DEF Spec, OnlyTheFailedIsDropped

-----------------------------------------------------------------------------
(* The history.  Requests are numbered in the order they came, and of any  *)
(* of them a prune keeps at most Cap, the newest.                          *)
Begun == {started[i] : i \in DOMAIN started}

Numbered ==
    /\ started \in Seq(Search)
    /\ \A i \in 1 .. Len(started), j \in 1 .. Len(started) : started[i] = started[j] => i = j

LEMMA AgeOfBegun ==
    ASSUME Numbered, NEW q \in Begun
    PROVE  Age(q) \in 1 .. Len(started) /\ Age(q) \in Nat /\ started[Age(q)] = q
<1>1. DOMAIN started = 1 .. Len(started) /\ Len(started) \in Nat
  BY DEF Numbered
<1>2. \E i \in DOMAIN started : started[i] = q
  BY DEF Begun
<1>3. Age(q) \in DOMAIN started /\ started[Age(q)] = q
  BY <1>2 DEF Age
<1> QED
  BY <1>1, <1>3

LEMMA BegunIsFinite ==
    ASSUME Numbered
    PROVE  IsFiniteSet(Begun)
<1>1. Len(started) \in Nat /\ DOMAIN started = 1 .. Len(started)
  BY DEF Numbered
<1>2. IsFiniteSet(1 .. Len(started))
  BY <1>1, FS_Interval
<1>3. started \in Surjection(1 .. Len(started), Begun)
  BY <1>1 DEF Numbered, Begun, Surjection
<1> QED
  BY <1>2, <1>3, FS_Surjection

LEMMA NewerGrows ==
    ASSUME NEW q, NEW rows, NEW more, IsFiniteSet(more), rows \subseteq more
    PROVE  /\ Cardinality(Newer(q, rows)) \in Nat /\ Cardinality(Newer(q, more)) \in Nat
           /\ Cardinality(Newer(q, rows)) <= Cardinality(Newer(q, more))
<1>1. Newer(q, rows) \in SUBSET Newer(q, more) /\ Newer(q, more) \in SUBSET more
  BY DEF Newer
<1>2. IsFiniteSet(Newer(q, more))
  BY <1>1, FS_Subset
<1>3. IsFiniteSet(Newer(q, rows)) /\ Cardinality(Newer(q, rows)) <= Cardinality(Newer(q, more))
  BY <1>1, <1>2, FS_Subset
<1> QED
  BY <1>2, <1>3, FS_CardinalityType

LEMMA PruneKeepsCap ==
    ASSUME Numbered, NEW rows, rows \subseteq Begun
    PROVE  IsFiniteSet(rows) /\ Cardinality(rows \ Overflow(rows)) <= Cap
<1> DEFINE kept == rows \ Overflow(rows)
           rank == [q \in kept |-> Cardinality(Newer(q, rows))]
<1>1. IsFiniteSet(rows)
  <2>1. rows \in SUBSET Begun
    OBVIOUS
  <2> QED
    BY <2>1, BegunIsFinite, FS_Subset
<1>2. Cap \in Nat /\ Cap > 0
  BY CapAssumption
<1>3. ASSUME NEW q \in kept PROVE Cardinality(Newer(q, rows)) \in 0 .. Cap - 1
  <2>1. ~(Cardinality(Newer(q, rows)) >= Cap)
    BY DEF Overflow
  <2>2. Cardinality(Newer(q, rows)) \in Nat
    BY <1>1, NewerGrows
  <2> QED
    BY <1>2, <2>1, <2>2
<1>4. ASSUME NEW p \in kept, NEW q \in kept, Age(p) < Age(q)
      PROVE  Cardinality(Newer(p, rows)) # Cardinality(Newer(q, rows))
  <2>1. p \in Begun /\ q \in Begun
    OBVIOUS
  <2>2. Age(p) \in Nat /\ Age(q) \in Nat
    BY <2>1, AgeOfBegun
  <2>3. q \notin Newer(q, rows) /\ q \in Newer(p, rows)
    BY <1>4, <2>2 DEF Newer
  <2>4. Newer(q, rows) \subseteq Newer(p, rows)
    <3> SUFFICES ASSUME NEW r \in Newer(q, rows) PROVE r \in Newer(p, rows)
      OBVIOUS
    <3>1. r \in rows /\ Age(r) > Age(q)
      BY DEF Newer
    <3>2. Age(r) \in Nat
      BY <3>1, AgeOfBegun
    <3> QED
      BY <1>4, <2>2, <3>1, <3>2 DEF Newer
  <2>5. Newer(p, rows) \in SUBSET rows
    BY DEF Newer
  <2>6. IsFiniteSet(Newer(p, rows))
    BY <1>1, <2>5, FS_Subset
  <2>7. Newer(q, rows) \in SUBSET Newer(p, rows)
    BY <2>4
  <2> QED
    BY <2>3, <2>6, <2>7, FS_Subset
<1>5. ASSUME NEW p \in kept, NEW q \in kept,
             Cardinality(Newer(p, rows)) = Cardinality(Newer(q, rows))
      PROVE  p = q
  <2>1. p \in Begun /\ q \in Begun
    OBVIOUS
  <2>2. Age(p) \in Nat /\ Age(q) \in Nat /\ started[Age(p)] = p /\ started[Age(q)] = q
    BY <2>1, AgeOfBegun
  <2>3. ~(Age(p) < Age(q)) /\ ~(Age(q) < Age(p))
    BY <1>4, <1>5
  <2> QED
    BY <2>2, <2>3
<1>6. rank \in Injection(kept, 0 .. Cap - 1)
  BY <1>3, <1>5 DEF Injection, IsInjective
<1>7. IsFiniteSet(0 .. Cap - 1) /\ Cardinality(0 .. Cap - 1) = Cap
  BY <1>2, FS_Interval
<1>8. IsFiniteSet(kept) /\ Cardinality(kept) <= Cap
  <2> HIDE DEF kept, rank
  <2> QED
    BY <1>6, <1>7, FS_Injection
<1> QED
  BY <1>1, <1>8

(* What a prune that is under way will leave is at most Cap, unless two    *)
(* saves overlap; what it takes away Cap newer requests have displaced.    *)
Displaced(d) == d \in Begun /\ Cardinality(Newer(d, Begun)) >= Cap
Saving == {q \in Search : req[q].at = "commit"}

HistoryInv ==
    /\ Numbered
    /\ \A q \in Search : q \in Begun <=> req[q].at # "idle"
    /\ history \subseteq Begun
    /\ \A q \in Search : \A d \in req[q].doomed : Displaced(d)
    /\ ~overlap =>
         /\ Cardinality(history) <= Cap
         /\ \A q \in Saving : /\ \A r \in Saving : r = q
                              /\ Cardinality((history \cup {q}) \ req[q].doomed) <= Cap

LEMMA HistoryInvInit == SearchInit => HistoryInv
<1> SUFFICES ASSUME SearchInit PROVE HistoryInv
  OBVIOUS
<1>1. started = <<>> /\ history = {} /\ \A q \in Search : req[q] = Idle
  BY DEF SearchInit
<1>2. Numbered /\ Begun = {}
  BY <1>1 DEF Numbered, Begun
<1>3. Idle.at = "idle" /\ Idle.doomed = {}
  BY DEF Idle
<1>4. Saving = {}
  BY <1>1, <1>3 DEF Saving
<1>5. Cardinality({}) <= Cap
  BY FS_EmptySet, CapAssumption
<1> QED
  BY <1>1, <1>2, <1>3, <1>4, <1>5 DEF HistoryInv

LEMMA FewerAreSaved ==
    ASSUME Numbered, NEW rows, NEW fewer, fewer \subseteq rows, rows \subseteq Begun,
           Cardinality(rows) <= Cap
    PROVE  Cardinality(fewer) <= Cap
<1>1. IsFiniteSet(rows) /\ fewer \in SUBSET rows
  BY PruneKeepsCap
<1>2. IsFiniteSet(fewer) /\ Cardinality(fewer) <= Cardinality(rows)
  BY <1>1, FS_Subset
<1>3. Cardinality(fewer) \in Nat /\ Cardinality(rows) \in Nat /\ Cap \in Nat
  BY <1>1, <1>2, FS_CardinalityType, CapAssumption
<1> QED
  BY <1>2, <1>3

(* As long as no request comes, the numbers stand.                         *)
LEMMA NumbersStand ==
    ASSUME UNCHANGED started
    PROVE  /\ Begun' = Begun /\ (Numbered => Numbered')
           /\ \A d : Displaced(d)' <=> Displaced(d)
<1>1. Begun' = Begun /\ (Numbered => Numbered')
  BY DEF Begun, Numbered
<1>2. \A q : Age(q)' = Age(q)
  BY DEF Age
<1>3. \A d, rows : Newer(d, rows)' = Newer(d, rows)
  BY <1>2 DEF Newer
<1> QED
  BY <1>1, <1>3 DEF Displaced

(* A new request is newer than every other.                                *)
LEMMA NumbersGrow ==
    ASSUME Numbered, NEW q \in Search, q \notin Begun, started' = Append(started, q)
    PROVE  /\ Numbered' /\ Begun' = Begun \cup {q}
           /\ \A d : Displaced(d) => Displaced(d)'
<1> DEFINE n == Len(started)
<1>1. n \in Nat /\ DOMAIN started = 1 .. n
  BY DEF Numbered
<1>2. /\ started' \in Seq(Search) /\ Len(started') = n + 1 /\ started'[n + 1] = q
      /\ \A i \in 1 .. n : started'[i] = started[i]
  BY DEF Numbered
<1>3. DOMAIN started' = 1 .. n + 1
  BY <1>2
<1> HIDE DEF n
<1>4. \A i \in 1 .. n : started[i] # q
  BY <1>1 DEF Begun
<1>5. Numbered'
  BY <1>1, <1>2, <1>4 DEF Numbered, n
<1>6. Begun' = Begun \cup {q}
  <2>1. \A i \in 1 .. n + 1 : i \in 1 .. n \/ i = n + 1
    BY <1>1
  <2>2. n + 1 \in 1 .. n + 1 /\ \A i \in 1 .. n : i \in 1 .. n + 1
    BY <1>1
  <2> QED
    BY <1>1, <1>2, <1>3, <2>1, <2>2 DEF Begun
<1>7. ASSUME NEW d \in Begun PROVE Age(d)' = Age(d)
  <2>1. Age(d) \in 1 .. n /\ started[Age(d)] = d
    BY AgeOfBegun DEF n
  <2>2. \E i \in DOMAIN started' : started'[i] = d
    BY <1>1, <1>2, <1>3, <2>1
  <2>3. Age(d)' \in DOMAIN started' /\ started'[Age(d)'] = d
    BY <2>2 DEF Age
  <2>4. Age(d) \in 1 .. Len(started') /\ started'[Age(d)] = d /\ Age(d)' \in 1 .. Len(started')
    BY <1>1, <1>2, <1>3, <2>1, <2>3
  <2> QED
    BY <1>5, <2>3, <2>4 DEF Numbered
<1>8. ASSUME NEW d, Displaced(d) PROVE Displaced(d)'
  <2>1. d \in Begun /\ Cardinality(Newer(d, Begun)) >= Cap
    BY <1>8 DEF Displaced
  <2>2. Newer(d, Begun)' = Newer(d, Begun)' /\ Newer(d, Begun) \subseteq Newer(d, Begun)'
    <3> SUFFICES ASSUME NEW r \in Newer(d, Begun) PROVE r \in Newer(d, Begun)'
      OBVIOUS
    <3>1. r \in Begun /\ Age(r) > Age(d)
      BY DEF Newer
    <3>2. r \in Begun' /\ Age(r)' > Age(d)'
      BY <1>6, <1>7, <2>1, <3>1
    <3> QED
      BY <3>2 DEF Newer
  <2>3. IsFiniteSet(Begun)'
    <3>1. Numbered => IsFiniteSet(Begun)
      BY BegunIsFinite
    <3>2. IsFiniteSet(Begun)
      BY <3>1
    <3>3. IsFiniteSet(Begun \cup {q})
      BY <3>2, FS_AddElement
    <3> QED
      BY <1>6, <3>3
  <2>4. PICK more : more = Newer(d, Begun)'
    OBVIOUS
  <2>5. PICK rows : rows = Newer(d, Begun)
    OBVIOUS
  <2>6. IsFiniteSet(more)
    <3>1. more \in SUBSET Begun'
      BY <2>4 DEF Newer
    <3> QED
      BY <2>3, <3>1, FS_Subset
  <2>7. IsFiniteSet(rows) /\ Cardinality(rows) <= Cardinality(more)
    <3>1. rows \in SUBSET more
      BY <2>2, <2>4, <2>5
    <3> QED
      BY <2>6, <3>1, FS_Subset
  <2>8. Cardinality(rows) \in Nat /\ Cardinality(more) \in Nat /\ Cap \in Nat
    BY <2>6, <2>7, FS_CardinalityType, CapAssumption
  <2>9. Cardinality(more) >= Cap
    BY <2>1, <2>5, <2>7, <2>8
  <2>10. d \in Begun'
    BY <1>6, <2>1
  <2> QED
    BY <2>4, <2>9, <2>10 DEF Displaced
<1> QED
  BY <1>5, <1>6, <1>8

-----------------------------------------------------------------------------
(* Steps.                                                                  *)
LEMMA HistoryRests ==
    ASSUME HistoryInv, UNCHANGED <<req, started, overlap>>, history' \subseteq history
    PROVE  HistoryInv'
<1>1. Begun' = Begun /\ Numbered' /\ \A d : Displaced(d)' <=> Displaced(d)
  BY NumbersStand DEF HistoryInv
<1>2. Saving' = Saving
  BY DEF Saving
<1>3. ASSUME ~overlap
      PROVE  /\ Cardinality(history') <= Cap
             /\ \A q \in Saving : Cardinality((history' \cup {q}) \ req[q].doomed) <= Cap
  <2>1. Cardinality(history') <= Cap
    BY <1>3, FewerAreSaved DEF HistoryInv
  <2>2. ASSUME NEW q \in Saving
        PROVE  Cardinality((history' \cup {q}) \ req[q].doomed) <= Cap
    <3>1. q \in Begun
      BY DEF Saving, HistoryInv
    <3>2. /\ (history' \cup {q}) \ req[q].doomed \subseteq (history \cup {q}) \ req[q].doomed
          /\ (history \cup {q}) \ req[q].doomed \subseteq Begun
          /\ Cardinality((history \cup {q}) \ req[q].doomed) <= Cap
      BY <1>3, <3>1 DEF HistoryInv
    <3> QED
      BY <3>2, FewerAreSaved DEF HistoryInv
  <2> QED
    BY <2>1, <2>2
<1> QED
  BY <1>1, <1>2, <1>3 DEF HistoryInv

(* A request moves on and neither saves nor is pruned.                     *)
LEMMA RequestMoves ==
    ASSUME HistoryInv, req \in [Search -> RequestRow], NEW q \in Search,
           NEW row, req' = [req EXCEPT ![q] = row],
           row.at \notin {"idle", "commit"}, row.doomed \subseteq req[q].doomed,
           req[q].at # "idle",
           UNCHANGED <<started, overlap>>, history' = history
    PROVE  HistoryInv'
<1>1. Begun' = Begun /\ Numbered' /\ \A d : Displaced(d)' <=> Displaced(d)
  BY NumbersStand DEF HistoryInv
<1>2. req'[q] = row /\ \A x \in Search : x # q => req'[x] = req[x]
  OBVIOUS
<1>3. Saving' = Saving \ {q} /\ \A x \in Saving' : x \in Search /\ req'[x] = req[x]
  BY <1>2 DEF Saving
<1>4. \A x \in Search : /\ x \in Begun' <=> req'[x].at # "idle"
                        /\ req'[x].doomed \subseteq req[x].doomed
  BY <1>1, <1>2 DEF HistoryInv
<1>5. ASSUME ~overlap
      PROVE  /\ Cardinality(history') <= Cap
             /\ \A x \in Saving' :
                  /\ \A r \in Saving' : r = x
                  /\ Cardinality((history' \cup {x}) \ req'[x].doomed) <= Cap
  BY <1>3, <1>5 DEF HistoryInv
<1> QED
  BY <1>1, <1>4, <1>5 DEF HistoryInv

LEMMA ResolveHistory ==
    ASSUME HistoryInv, req \in [Search -> RequestRow], NEW q \in Search, NEW scope,
           Resolve(q, scope), UNCHANGED <<history, overlap>>
    PROVE  HistoryInv'
<1> DEFINE books == IF scope.folders = {} /\ scope # NoScope
                    THEN library \cap scope.books ELSE library
           at == IF scope.folders # {} /\ library # {} THEN "folders" ELSE "scoped"
           row == [Idle EXCEPT !.scope = scope, !.books = books, !.at = at]
<1>1. /\ req' = [req EXCEPT ![q] = row] /\ row.at \in {"folders", "scoped"}
      /\ row.doomed = {}
  <2>1. req' = [req EXCEPT ![q] = row]
    BY DEF Resolve
  <2>2. at \in {"folders", "scoped"}
    OBVIOUS
  <2> HIDE DEF at, books
  <2>3. row.at = at /\ row.doomed = {}
    BY DEF Idle
  <2> QED
    BY <2>1, <2>2, <2>3
<1> HIDE DEF row
<1>2. req[q].at = "idle" /\ started' = Append(started, q)
  BY DEF Resolve
<1>3. Numbered /\ q \notin Begun
  BY <1>2 DEF HistoryInv
<1>4. Numbered' /\ Begun' = Begun \cup {q} /\ \A d : Displaced(d) => Displaced(d)'
  BY <1>2, <1>3, NumbersGrow
<1>5. req'[q] = row /\ \A x \in Search : x # q => req'[x] = req[x]
  BY <1>1
<1>6. Saving' = Saving /\ \A x \in Saving : req'[x] = req[x]
  BY <1>1, <1>2, <1>5 DEF Saving
<1>7. \A x \in Search : /\ x \in Begun' <=> req'[x].at # "idle"
                        /\ req'[x].doomed \subseteq req[x].doomed
  BY <1>1, <1>4, <1>5 DEF HistoryInv
<1>8. history' \subseteq Begun'
  BY <1>4 DEF HistoryInv
<1>9. ASSUME ~overlap
      PROVE  /\ Cardinality(history') <= Cap
             /\ \A x \in Saving' :
                  /\ \A r \in Saving' : r = x
                  /\ Cardinality((history' \cup {x}) \ req'[x].doomed) <= Cap
  BY <1>6, <1>9 DEF HistoryInv
<1> QED
  BY <1>4, <1>7, <1>8, <1>9 DEF HistoryInv

LEMMA FlushHistory ==
    ASSUME HistoryInv, req \in [Search -> RequestRow], NEW q \in Search, Flush(q)
    PROVE  HistoryInv'
<1> DEFINE rows == history \cup {q}
           row == [req[q] EXCEPT !.at = "commit", !.doomed = Overflow(rows)]
<1>1. /\ req[q].at = "flush" /\ UNCHANGED <<started, history>>
      /\ overlap' = (overlap \/ Saving # {})
      /\ req' = [req EXCEPT ![q] = row]
  <2>1. (\E r \in Search : req[r].at = "commit") <=> Saving # {}
    BY DEF Saving
  <2> QED
    BY <2>1 DEF Flush, Prune
<1>2. row.at = "commit" /\ row.doomed = Overflow(rows)
  BY DEF RequestRow
<1> HIDE DEF row
<1>3. req'[q] = row /\ \A x \in Search : x # q => req'[x] = req[x]
  BY <1>1
<1>4. Begun' = Begun /\ Numbered /\ Numbered' /\ \A d : Displaced(d)' <=> Displaced(d)
  BY <1>1, NumbersStand DEF HistoryInv
<1>5. rows \subseteq Begun /\ Cardinality(rows \ Overflow(rows)) <= Cap
  <2>1. rows \subseteq Begun
    BY <1>1 DEF HistoryInv
  <2> QED
    BY <1>4, <2>1, PruneKeepsCap
<1>6. ASSUME NEW d \in Overflow(rows) PROVE Displaced(d)
  <2>1. d \in Begun /\ Cardinality(Newer(d, rows)) >= Cap
    BY <1>5 DEF Overflow
  <2>2. /\ Cardinality(Newer(d, rows)) \in Nat /\ Cardinality(Newer(d, Begun)) \in Nat
        /\ Cardinality(Newer(d, rows)) <= Cardinality(Newer(d, Begun))
    BY <1>4, <1>5, BegunIsFinite, NewerGrows
  <2> QED
    BY <2>1, <2>2, CapAssumption DEF Displaced
<1>7. \A x \in Search : /\ x \in Begun' <=> req'[x].at # "idle"
                        /\ \A d \in req'[x].doomed : Displaced(d)
  BY <1>1, <1>2, <1>3, <1>4, <1>6 DEF HistoryInv
<1>8. ASSUME ~overlap'
      PROVE  /\ Cardinality(history') <= Cap
             /\ \A x \in Saving' :
                  /\ \A r \in Saving' : r = x
                  /\ Cardinality((history' \cup {x}) \ req'[x].doomed) <= Cap
  <2>1. ~overlap /\ Saving = {}
    BY <1>1, <1>8
  <2>2. Saving' = {q}
    BY <1>2, <1>3, <2>1 DEF Saving
  <2>3. Cardinality(history) <= Cap
    BY <2>1 DEF HistoryInv
  <2> QED
    BY <1>1, <1>2, <1>3, <1>5, <2>2, <2>3
<1> QED
  BY <1>1, <1>4, <1>7, <1>8 DEF HistoryInv

LEMMA CommitHistory ==
    ASSUME HistoryInv, req \in [Search -> RequestRow], NEW q \in Search, Commit(q)
    PROVE  HistoryInv'
<1> DEFINE row == [Idle EXCEPT !.at = "answered"]
<1>1. /\ req[q].at = "commit" /\ UNCHANGED <<started, overlap>>
      /\ req' = [req EXCEPT ![q] = row]
      /\ history' = (history \cup {q}) \ req[q].doomed \/ history' = history
  BY DEF Commit, Finish
<1>2. row.at = "answered" /\ row.doomed = {}
  BY DEF Idle
<1> HIDE DEF row
<1>3. req'[q] = row /\ \A x \in Search : x # q => req'[x] = req[x]
  BY <1>1
<1>4. Begun' = Begun /\ Numbered' /\ \A d : Displaced(d)' <=> Displaced(d)
  BY <1>1, NumbersStand DEF HistoryInv
<1>5. q \in Saving /\ Saving' = Saving \ {q}
  BY <1>1, <1>2, <1>3 DEF Saving
<1>6. \A x \in Search : /\ x \in Begun' <=> req'[x].at # "idle"
                        /\ req'[x].doomed \subseteq req[x].doomed
  BY <1>1, <1>2, <1>3, <1>4 DEF HistoryInv
<1>7. history' \subseteq Begun'
  BY <1>1, <1>4 DEF HistoryInv
<1>8. ASSUME ~overlap PROVE Cardinality(history') <= Cap /\ Saving' = {}
  <2>1. /\ Cardinality(history) <= Cap /\ \A r \in Saving : r = q
        /\ Cardinality((history \cup {q}) \ req[q].doomed) <= Cap
    BY <1>5, <1>8 DEF HistoryInv
  <2> QED
    BY <1>1, <1>5, <2>1
<1> QED
  BY <1>1, <1>4, <1>6, <1>7, <1>8 DEF HistoryInv

LEMMA ServeHistory ==
    ASSUME HistoryInv, req \in [Search -> RequestRow], NEW q \in Search, Serve(q)
    PROVE  HistoryInv'
<1>1. CASE Flush(q)
  BY <1>1, FlushHistory
<1>2. CASE Commit(q)
  BY <1>2, CommitHistory
<1>3. CASE \/ CheckFolders(q) \/ ReadMembers(q) \/ Embed(q) \/ Timeout(q) \/ Retrieve(q)
           \/ Summarize(q) \/ SaveFails(q)
  <2>1. UNCHANGED <<started, overlap, history>> /\ req[q].at # "idle"
    BY <1>3 DEF CheckFolders, ReadMembers, Embed, Timeout, Retrieve, Summarize, SaveFails,
                OnlyReq, Step, Narrow, LoseDense
  <2>2. \E row : /\ req' = [req EXCEPT ![q] = row] /\ row.at \notin {"idle", "commit"}
                 /\ row.doomed \subseteq req[q].doomed
    <3>1. req[q] \in RequestRow
      OBVIOUS
    <3>2. \A to : [Idle EXCEPT !.at = to].at = to /\ [Idle EXCEPT !.at = to].doomed = {}
      BY DEF Idle
    <3>3. \A to : [req[q] EXCEPT !.at = to].at = to
                  /\ [req[q] EXCEPT !.at = to].doomed = req[q].doomed
      BY <3>1 DEF RequestRow
    <3>4. ASSUME NEW to \in {"refused", "answered", "error"}, Finish(q, to)
          PROVE  \E row : /\ req' = [req EXCEPT ![q] = row] /\ row.at \notin {"idle", "commit"}
                          /\ row.doomed \subseteq req[q].doomed
      BY <3>2, <3>4 DEF Finish
    <3>5. ASSUME NEW to \in {"members", "arms", "flush"},
                 req' = [req EXCEPT ![q].at = to]
          PROVE  \E row : /\ req' = [req EXCEPT ![q] = row] /\ row.at \notin {"idle", "commit"}
                          /\ row.doomed \subseteq req[q].doomed
      <4>1. req' = [req EXCEPT ![q] = [req[q] EXCEPT !.at = to]]
        BY <3>5
      <4> QED
        BY <3>3, <4>1
    <3>6. ASSUME NEW to \in {"scoped", "arms", "llm", "flush"}, NEW books, NEW flags,
                 \/ req' = [req EXCEPT ![q].at = to, ![q].books = books]
                 \/ req' = [req EXCEPT ![q].at = to, ![q].flags = flags]
                 \/ req' = [req EXCEPT ![q].at = to, ![q].books = books, ![q].flags = flags]
          PROVE  \E row : /\ req' = [req EXCEPT ![q] = row] /\ row.at \notin {"idle", "commit"}
                          /\ row.doomed \subseteq req[q].doomed
      <4>1. req' = [req EXCEPT ![q] = req'[q]]
        BY <3>6
      <4>2. req'[q].at = to /\ req'[q].doomed = req[q].doomed
        BY <3>1, <3>6 DEF RequestRow
      <4> QED
        BY <4>1, <4>2
    <3>7. CASE CheckFolders(q) \/ Summarize(q) \/ SaveFails(q)
      BY <3>4, <3>5, <3>7 DEF CheckFolders, Summarize, SaveFails, Step
    <3>8. CASE ReadMembers(q) \/ Timeout(q) \/ Embed(q)
      BY <3>5, <3>6, <3>8 DEF ReadMembers, Timeout, Embed, Narrow, LoseDense, Step
    <3>9. CASE Retrieve(q)
      <4>1. PICK sparse \in BOOLEAN, found \in BOOLEAN :
              IF ArmFlags(q, sparse) = {"dense", "sparse"} THEN Finish(q, "refused")
              ELSE req' = [req EXCEPT ![q].at = IF found THEN "llm" ELSE "flush",
                                      ![q].books = IF found THEN @ ELSE {},
                                      ![q].flags = ArmFlags(q, sparse)]
        BY <3>9 DEF Retrieve
      <4>2. CASE ArmFlags(q, sparse) = {"dense", "sparse"}
        BY <3>4, <4>1, <4>2
      <4>3. CASE ArmFlags(q, sparse) # {"dense", "sparse"} /\ found
        <5>1. req' = [req EXCEPT ![q].at = "llm", ![q].books = req[q].books,
                                 ![q].flags = ArmFlags(q, sparse)]
          BY <4>1, <4>3
        <5> QED
          BY <3>6, <5>1
      <4>4. CASE ArmFlags(q, sparse) # {"dense", "sparse"} /\ ~found
        <5>1. req' = [req EXCEPT ![q].at = "flush", ![q].books = {},
                                 ![q].flags = ArmFlags(q, sparse)]
          BY <4>1, <4>4
        <5> QED
          BY <3>6, <5>1
      <4> QED
        BY <4>2, <4>3, <4>4
    <3> QED
      BY <1>3, <3>7, <3>8, <3>9
  <2> QED
    BY <2>1, <2>2, RequestMoves
<1> QED
  BY <1>1, <1>2, <1>3 DEF Serve

LEMMA HistoryStep ==
    HistoryInv /\ req \in [Search -> RequestRow] /\ [SearchNext]_vars => HistoryInv'
<1> SUFFICES ASSUME HistoryInv, req \in [Search -> RequestRow], [SearchNext]_vars
             PROVE  HistoryInv'
  OBVIOUS
<1>1. ASSUME UNCHANGED searchVars PROVE HistoryInv'
  BY <1>1, HistoryRests DEF searchVars
<1>2. ASSUME NEW q \in Search, NEW scope, Submit(q, scope) \/ SubmitElsewhere(q, scope)
      PROVE  HistoryInv'
  BY <1>2, ResolveHistory DEF Submit, SubmitElsewhere
<1>3. ASSUME NEW q \in Search, Serve(q) PROVE HistoryInv'
  BY <1>3, ServeHistory
<1>4. ASSUME NEW q \in Search, Deliver(q) \/ Open(q) PROVE HistoryInv'
  BY <1>4, HistoryRests DEF Deliver, Open, OnlyPanel
<1>5. CASE Hydrate
  BY <1>5, HistoryRests DEF Hydrate, OnlyPanel
<1>6. ASSUME NEW rows, Erase(rows) PROVE HistoryInv'
  BY <1>6, HistoryRests DEF Erase
<1>7. CASE UNCHANGED vars
  BY <1>1, <1>7 DEF vars
<1> QED
  BY <1>1, <1>2, <1>3, <1>4, <1>5, <1>6, <1>7 DEF SearchNext

(* However saves and erasures follow each other, a save takes away only    *)
(* what Cap newer requests have displaced, and without an overlap of two   *)
(* saves never more than Cap are kept (save_history and prune of           *)
(* api/search_history.py).                                                 *)
THEOREM HistoryTheorem == Spec => []HistoryKeepsTheNewest
<1>1. SearchInv => req \in [Search -> RequestRow]
  BY DEF SearchInv, RequestInv
<1>2. Spec => []HistoryInv
  BY SearchInvariance, HistoryInvInit, HistoryStep, <1>1, PTL DEF Spec
<1>3. HistoryInv => HistoryKeepsTheNewest
  <2>1. Begun = {started[i] : i \in DOMAIN started}
    BY DEF Begun
  <2> QED
    BY <2>1 DEF HistoryInv, Displaced, HistoryKeepsTheNewest
<1> QED
  BY <1>2, <1>3, PTL

-----------------------------------------------------------------------------
(* The flags.  A request has none until its scope is known; from then on   *)
(* it names the dense arm or has its hits, and never both arms.            *)
Summarizing == {"llm", "flush", "commit"}

Tells(r, t) ==
    /\ r.at \in Early => r.flags = {}
    /\ r.at \in Summarizing => /\ "dense" \in r.flags \/ t.at \in {"idle", "found"}
                               /\ ~ {"dense", "sparse"} \subseteq r.flags

FlagInv == \A q \in Search : Tells(req[q], thread[q])

LEMMA FlagInvInit == SearchInit => FlagInv
BY DEF SearchInit, FlagInv, Tells, Idle, Summarizing

LEMMA OneTells ==
    ASSUME SearchInv, FlagInv, NEW q \in Search, NEW row, UNCHANGED thread,
           req' = [req EXCEPT ![q] = row], Tells(row, thread[q])
    PROVE  FlagInv'
  BY DEF SearchInv, RequestInv, FlagInv

LEMMA FinishTells ==
    ASSUME SearchInv, FlagInv, NEW q \in Search, UNCHANGED thread,
           NEW to \in {"answered", "refused", "error"}, Finish(q, to)
    PROVE  FlagInv'
<1> DEFINE row == [Idle EXCEPT !.at = to]
<1>1. row.at = to /\ req' = [req EXCEPT ![q] = row]
  BY DEF Idle, Finish
<1> HIDE DEF row
<1>2. Tells(row, thread[q])
  BY <1>1 DEF Tells, Early, Summarizing
<1> QED
  BY <1>1, <1>2, OneTells

(* A step that keeps the flags, from a place that bound them as much.      *)
LEMMA StepTells ==
    ASSUME SearchInv, FlagInv, NEW q \in Search, UNCHANGED thread, NEW from, NEW to,
           Step(q, from, to), to \in Early \cup Summarizing \cup {"arms"},
           to \in Early => from \in Early,
           to \in Summarizing => from \in Summarizing \/ from \in Early
    PROVE  FlagInv'
<1> DEFINE row == [req[q] EXCEPT !.at = to]
<1>1. req[q] \in RequestRow /\ req \in [Search -> RequestRow]
  BY DEF SearchInv, RequestInv
<1>2. row.at = to /\ row.flags = req[q].flags /\ req' = [req EXCEPT ![q] = row] /\ req[q].at = from
  BY <1>1 DEF RequestRow, Step
<1> HIDE DEF row
<1>3. Tells(req[q], thread[q])
  BY DEF FlagInv
<1>4. from \in Early => thread[q].at = "idle"
  BY <1>2 DEF SearchInv, EarlyInv
<1>5. Tells(row, thread[q])
  BY <1>2, <1>3, <1>4 DEF Tells
<1> QED
  BY <1>2, <1>5, OneTells

LEMMA LoseDenseTells ==
    ASSUME SearchInv, FlagInv, NEW q \in Search, UNCHANGED thread, LoseDense(q)
    PROVE  FlagInv'
<1> DEFINE row == [req[q] EXCEPT !.at = "arms", !.flags = {"dense"}]
<1>1. row.at = "arms" /\ req' = [req EXCEPT ![q] = row]
  BY DEF SearchInv, RequestInv, RequestRow, LoseDense
<1> HIDE DEF row
<1>2. Tells(row, thread[q])
  BY <1>1 DEF Tells, Early, Summarizing
<1> QED
  BY <1>1, <1>2, OneTells

LEMMA RetrieveTells ==
    ASSUME SearchInv, FlagInv, NEW q \in Search, Retrieve(q)
    PROVE  FlagInv'
<1>1. UNCHANGED thread /\ req[q].at = "arms" /\ (~Running(q) \/ "dense" \in req[q].flags)
  BY DEF Retrieve, OnlyReq, clientVars
<1> PICK sparse \in BOOLEAN, found \in BOOLEAN :
      IF ArmFlags(q, sparse) = {"dense", "sparse"}
      THEN ~found /\ Finish(q, "refused")
      ELSE req' = [req EXCEPT ![q].at = IF found THEN "llm" ELSE "flush",
                              ![q].books = IF found THEN @ ELSE {},
                              ![q].flags = ArmFlags(q, sparse)]
  BY DEF Retrieve
<1>2. CASE ArmFlags(q, sparse) = {"dense", "sparse"}
  BY <1>1, <1>2, FinishTells
<1>3. CASE ArmFlags(q, sparse) # {"dense", "sparse"}
  <2> DEFINE flags == ArmFlags(q, sparse)
             to == IF found THEN "llm" ELSE "flush"
             row == [req[q] EXCEPT !.at = to, !.books = IF found THEN @ ELSE {},
                                   !.flags = flags]
  <2>1. req[q] \in RequestRow /\ req \in [Search -> RequestRow]
    BY DEF SearchInv, RequestInv
  <2>2. row.at = to /\ row.flags = flags /\ req' = [req EXCEPT ![q] = row]
    BY <1>3, <2>1 DEF RequestRow
  <2>3. flags \subseteq {"dense", "sparse"} /\ ~ {"dense", "sparse"} \subseteq flags
    BY <1>3 DEF ArmFlags
  <2>4. thread[q].at \in ThreadPlaces
    BY DEF SearchInv, ThreadsInv, ThreadRow
  <2>5. "dense" \in flags \/ thread[q].at \in {"idle", "found"}
    BY <1>1, <2>4 DEF ArmFlags, Running, ThreadPlaces
  <2>6. to \notin Early
    BY DEF Early
  <2> HIDE DEF flags, to, row
  <2>7. Tells(row, thread[q])
    BY <2>2, <2>3, <2>5, <2>6 DEF Tells
  <2> QED
    BY <1>1, <2>2, <2>7, OneTells
<1> QED
  BY <1>2, <1>3

LEMMA ServeTells ==
    ASSUME SearchInv, FlagInv, NEW q \in Search, Serve(q)
    PROVE  FlagInv'
<1> USE DEF OnlyReq, clientVars
<1>1. CASE CheckFolders(q)
  BY <1>1, FinishTells, StepTells DEF CheckFolders, Early, Summarizing
<1>2. CASE ReadMembers(q)
  <2> DEFINE chosen == req[q].scope.books \cup BooksOf(req[q].scope.folders)
             row == [req[q] EXCEPT !.at = "scoped", !.books = req[q].books \cap chosen]
  <2>1. req[q] \in RequestRow /\ req \in [Search -> RequestRow]
    BY DEF SearchInv, RequestInv
  <2>2. /\ row.at = "scoped" /\ row.flags = req[q].flags
        /\ req' = [req EXCEPT ![q] = row] /\ UNCHANGED thread
    BY <1>2, <2>1 DEF RequestRow, ReadMembers, Narrow
  <2> HIDE DEF row
  <2>3. req[q].flags = {}
    BY <1>2 DEF FlagInv, Tells, ReadMembers, Early
  <2>4. Tells(row, thread[q])
    BY <2>2, <2>3 DEF Tells, Early, Summarizing
  <2> QED
    BY <2>2, <2>4, OneTells
<1>3. CASE Embed(q)
  <2>1. CASE Step(q, "scoped", "flush") /\ UNCHANGED thread
    BY <2>1, StepTells DEF Early, Summarizing
  <2>2. CASE Step(q, "scoped", "arms") /\ Put(q, "start", NoClient)
    <3>1. req[q] \in RequestRow /\ req \in [Search -> RequestRow]
      BY DEF SearchInv, RequestInv
    <3>2. req'[q].at = "arms" /\ \A x \in Search : x # q => req'[x] = req[x]
      BY <2>2, <3>1 DEF Step, RequestRow
    <3>3. \A x \in Search : x # q => thread'[x] = thread[x]
      BY <2>2 DEF Put, SearchInv, ThreadsInv
    <3>4. Tells(req'[q], thread'[q])
      BY <3>2 DEF Tells, Early, Summarizing
    <3> QED
      BY <3>2, <3>3, <3>4 DEF FlagInv
  <2>3. CASE LoseDense(q) /\ UNCHANGED thread
    BY <2>3, LoseDenseTells
  <2> QED
    BY <1>3, <2>1, <2>2, <2>3 DEF Embed
<1>4. CASE Timeout(q)
  BY <1>4, LoseDenseTells DEF Timeout
<1>5. CASE Retrieve(q)
  BY <1>5, RetrieveTells
<1>6. CASE Summarize(q)
  BY <1>6, FinishTells, StepTells DEF Summarize, Early, Summarizing
<1>7. CASE Flush(q)
  <2> DEFINE row == [req[q] EXCEPT !.at = "commit", !.doomed = Overflow(history \cup {q})]
  <2>1. req[q] \in RequestRow /\ req \in [Search -> RequestRow]
    BY DEF SearchInv, RequestInv
  <2>2. /\ row.at = "commit" /\ row.flags = req[q].flags /\ req[q].at = "flush"
        /\ req' = [req EXCEPT ![q] = row] /\ UNCHANGED thread
    BY <1>7, <2>1 DEF RequestRow, Flush, Prune
  <2> HIDE DEF row
  <2>3. Tells(row, thread[q])
    BY <2>2 DEF FlagInv, Tells, Early, Summarizing
  <2> QED
    BY <2>2, <2>3, OneTells
<1>8. CASE SaveFails(q) \/ Commit(q)
  BY <1>8, FinishTells DEF SaveFails, Commit
<1> QED
  BY <1>1, <1>2, <1>3, <1>4, <1>5, <1>6, <1>7, <1>8 DEF Serve

(* A thread that has found its hits, or was never started, stays so.       *)
LEMMA ClientTells ==
    ASSUME SearchInv, FlagInv, ClientNext, UNCHANGED req
    PROVE  FlagInv'
<1> PICK q \in Search : Checkout(q) \/ Build(q) \/ CallMilvus(q) \/ ResetClient(q)
  BY DEF ClientNext
<1>1. \E row : thread' = [thread EXCEPT ![q] = row]
  BY DEF Checkout, Build, CallMilvus, ResetClient, Put
<1>2. thread[q].at \notin {"idle", "found"}
  BY DEF Checkout, Build, CallMilvus, ResetClient
<1>3. ASSUME NEW x \in Search PROVE Tells(req'[x], thread'[x])
  <2>1. thread[x].at \in {"idle", "found"} => thread'[x] = thread[x]
    BY <1>1, <1>2 DEF SearchInv, ThreadsInv
  <2> QED
    BY <2>1 DEF FlagInv, Tells
<1> QED
  BY <1>3 DEF FlagInv

LEMMA FlagStep == SearchInv /\ FlagInv /\ [SearchNext]_vars => FlagInv'
<1> SUFFICES ASSUME SearchInv, FlagInv, [SearchNext]_vars PROVE FlagInv'
  OBVIOUS
<1>1. CASE UNCHANGED <<req, thread>>
  BY <1>1 DEF FlagInv
<1>2. CASE ClientNext /\ UNCHANGED <<collectionVars, searchVars>>
  BY <1>2, ClientTells DEF searchVars
<1>3. ASSUME NEW q \in Search, NEW scope, Resolve(q, scope), UNCHANGED thread PROVE FlagInv'
  <2> DEFINE row == [Idle EXCEPT
                !.scope = scope,
                !.books = IF scope.folders = {} /\ scope # NoScope
                          THEN library \cap scope.books ELSE library,
                !.at = IF scope.folders # {} /\ library # {} THEN "folders" ELSE "scoped"]
  <2>1. req' = [req EXCEPT ![q] = row]
    BY <1>3 DEF Resolve
  <2>2. row.at \in {"folders", "scoped"} /\ row.flags = {}
    BY DEF Idle
  <2> HIDE DEF row
  <2>3. Tells(row, thread[q])
    BY <2>2 DEF Tells, Early, Summarizing
  <2> QED
    BY <1>3, <2>1, <2>3, OneTells
<1>4. ASSUME NEW q \in Search, Serve(q) PROVE FlagInv'
  BY <1>4, ServeTells
<1> QED
  BY <1>1, <1>2, <1>3, <1>4
     DEF SearchNext, Submit, SubmitElsewhere, Deliver, Open, Hydrate, Erase, OnlyPanel,
         vars, searchVars, clientVars

(* An answer that does not name the dense arm has its hits, also when a    *)
(* thread outlives its request, and none is given with both arms lost      *)
(* (_surviving_arm_hits of api/search.py).                                 *)
THEOREM FlagsTheorem == Spec => []FlagsTellWhatFailed
<1>1. SearchInv /\ FlagInv => FlagsTellWhatFailed
  BY DEF FlagInv, Tells, Summarizing, FlagsTellWhatFailed
<1>2. Spec => [](SearchInv /\ FlagInv)
  BY SearchInvInit, FlagInvInit, SearchStep, FlagStep, PTL DEF Spec
<1> QED
  BY <1>1, <1>2, PTL
=============================================================================
