------------------------------ MODULE Collections ------------------------------
(***************************************************************************)
(* One user's collections (api/collections_routes.py): folders of books of *)
(* the user's library.  A command of a device is a request of the api; its *)
(* statements are steps, between which the other requests' commits fall.   *)
(* Names and descriptions are left out.                                    *)
(***************************************************************************)
EXTENDS Naturals, FiniteSets

CONSTANTS
    Book,
    Folder,         \* identifiers of collections
    Command         \* bound: requests on collections

VARIABLES
    library,        \* user_library: ingestion only adds to it
    folders,        \* collections: the rows there are
    members,        \* collection_books: pairs of a folder and a book
    used,           \* identifiers given out
    cmd,            \* each command: what it read and where it stands
    undone          \* history: memberships taken away since they were written

collectionVars == <<library, folders, members, used, cmd, undone>>

Writes == {"rename", "add", "remove"}
Fresh == [kind |-> "none", place |-> "unsent", folders |-> {}, books |-> {},
          answer |-> {}]

Owned(fs) == fs \cap folders
Memberships(fs) == {m \in members : m[1] \in fs}
BooksOf(fs) == {m[2] : m \in Memberships(fs)}

(* A membership is of a collection there is; each pair is there once.      *)
CollectionInit ==
    /\ library \in SUBSET Book
    /\ folders \in SUBSET Folder
    /\ members \in SUBSET (folders \X library)
    /\ used = folders
    /\ cmd = [c \in Command |-> Fresh]
    /\ undone = {}

-----------------------------------------------------------------------------
Receive(c, kind, fs, books, place) ==
    cmd' = [cmd EXCEPT ![c] = [Fresh EXCEPT !.kind = kind, !.place = place,
                                            !.folders = fs, !.books = books]]
End(c, place) == cmd' = [cmd EXCEPT ![c] = [Fresh EXCEPT !.kind = cmd[c].kind, !.place = place]]

Create(c, f) ==
    /\ cmd[c].place = "unsent" /\ f \notin used
    /\ folders' = folders \cup {f} /\ used' = used \cup {f}
    /\ Receive(c, "create", {f}, {}, "done")
    /\ UNCHANGED <<library, members, undone>>

(* The ownership gate, with the library clamp of add_books next.           *)
Gate(c, kind, f, books) ==
    /\ cmd[c].place = "unsent" /\ kind \in Writes \cup {"get"}
    /\ (kind \in {"add", "remove"}) = (books # {})
    /\ Receive(c, kind, {f}, books,
               IF Owned({f}) = {} THEN "missing"
               ELSE IF kind = "get" THEN "reread"
               ELSE IF kind = "add" THEN "clamp" ELSE "write")
    /\ UNCHANGED <<library, folders, members, used, undone>>

(* list_collections: the rows first, all memberships next.                 *)
List(c) ==
    /\ cmd[c].place = "unsent"
    /\ Receive(c, "list", folders, {}, "reread")
    /\ UNCHANGED <<library, folders, members, used, undone>>

(* Mutant: the requested books are taken as they are.                      *)
NoClamp(c) ==
    /\ cmd[c].place = "clamp"
    /\ cmd' = [cmd EXCEPT ![c].place = "write"]
    /\ UNCHANGED <<library, folders, members, used, undone>>

Clamp(c) ==
    /\ cmd[c].place = "clamp"
    /\ cmd' = [cmd EXCEPT ![c].place = "write", ![c].books = @ \cap library]
    /\ UNCHANGED <<library, folders, members, used, undone>>

Named(c) == cmd[c].folders \X cmd[c].books
Gone(c) == Owned(cmd[c].folders) # cmd[c].folders
Store(added, taken) ==
    /\ members' = (members \cup added) \ taken
    /\ undone' = (undone \ added) \cup taken

(* UPDATE ... RETURNING, whose one row is asked for: 500 if it is gone.    *)
Rename(c) ==
    /\ cmd[c].place = "write" /\ cmd[c].kind = "rename"
    /\ IF Gone(c) THEN End(c, "error") ELSE cmd' = [cmd EXCEPT ![c].place = "reread"]
    /\ UNCHANGED <<library, folders, members, used, undone>>

(* INSERT ... ON CONFLICT DO NOTHING under the foreign key, or nothing at  *)
(* all if no book is left; then the commit.                                *)
AddBooks(c) ==
    /\ cmd[c].place = "write" /\ cmd[c].kind = "add"
    /\ IF Gone(c) /\ Named(c) # {} THEN End(c, "error") /\ Store({}, {})
       ELSE cmd' = [cmd EXCEPT ![c].place = "reread"] /\ Store(Named(c), {})
    /\ UNCHANGED <<library, folders, used>>

RemoveBooks(c) ==
    /\ cmd[c].place = "write" /\ cmd[c].kind = "remove"
    /\ cmd' = [cmd EXCEPT ![c].place = "reread"]
    /\ Store({}, Named(c))
    /\ UNCHANGED <<library, folders, used>>

(* The memberships of the answer, read after the commit.                   *)
Reread(c) ==
    /\ cmd[c].place = "reread"
    /\ cmd' = [cmd EXCEPT ![c].place = "done",
                 ![c].answer = Memberships(cmd[c].folders)]
    /\ UNCHANGED <<library, folders, members, used, undone>>

(* One DELETE, which cascades to the memberships.                          *)
Delete(c, f) ==
    /\ cmd[c].place = "unsent"
    /\ Receive(c, "delete", {f}, {}, IF Owned({f}) # {} THEN "done" ELSE "missing")
    /\ folders' = folders \ {f}
    /\ Store({}, Memberships({f}))
    /\ UNCHANGED <<library, used>>

(* An ingestion adds a book to the library.                                *)
Acquire(b) ==
    /\ b \notin library
    /\ library' = library \cup {b}
    /\ UNCHANGED <<folders, members, used, cmd, undone>>

CollectionNext ==
    \/ \E c \in Command, f \in Folder :
         \/ Create(c, f) \/ Delete(c, f)
         \/ \E kind \in Writes \cup {"get"}, books \in SUBSET Book : Gate(c, kind, f, books)
    \/ \E c \in Command :
         \/ List(c) \/ Clamp(c) \/ Reread(c)
         \/ Rename(c) \/ AddBooks(c) \/ RemoveBooks(c)
    \/ \E b \in Book : Acquire(b)

-----------------------------------------------------------------------------
(* A membership names a collection there is and a book the user owns, and  *)
(* an answered add stored what the user owned, unless it was undone since. *)
MembershipsAreOwned ==
    /\ members \subseteq folders \X library
    /\ \A c \in Command :
         (cmd[c].kind = "add" /\ cmd[c].place \in {"reread", "done"}) =>
           cmd[c].folders \X cmd[c].books \subseteq members \cup undone
=============================================================================
