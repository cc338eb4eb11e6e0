------------------------------ MODULE Catalog ------------------------------
(***************************************************************************)
(* What the ingestion pipeline promises the rest of the system, without    *)
(* attempts, messages, claims or processes: a shelf of books every reader  *)
(* shares, the library of each user, and the uploads reported successful.  *)
(*                                                                         *)
(* The search and reader routes rely on nothing else: a book is published  *)
(* in one step with the text of an upload, a user comes to own only books  *)
(* on the shelf, success is reported only to an owner, and a book that     *)
(* somebody owns never leaves.                                             *)
(***************************************************************************)
EXTENDS Naturals

CONSTANTS
    Task, User, Content, Book,
    UserOf,             \* [Task -> User]
    ContentOf,          \* [Task -> Content]
    SameText,           \* pairs of contents that may share one book
    InitialShelf,       \* books published before the pipeline started
    NoText

VARIABLES
    shelf,              \* [Book -> Content \cup {NoText}]
    library,            \* <<user, book>> pairs
    succeeded           \* uploads reported as SUCCESS

vars == <<shelf, library, succeeded>>

OnShelf == {b \in Book : shelf[b] # NoText}

Init == shelf = InitialShelf /\ library = {} /\ succeeded = {}

(* A book enters the shelf whole, with the text of the upload that made it.*)
Publish(t, b) ==
    /\ shelf[b] = NoText
    /\ shelf' = [shelf EXCEPT ![b] = ContentOf[t]]
    /\ UNCHANGED <<library, succeeded>>

(* The uploader comes to own a book with that text, new or shared.         *)
Adopt(t, b) ==
    /\ b \in OnShelf
    /\ shelf[b] = ContentOf[t] \/ <<ContentOf[t], shelf[b]>> \in SameText
    /\ library' = library \cup {<<UserOf[t], b>>}
    /\ UNCHANGED <<shelf, succeeded>>

Confirm(t, b) ==
    /\ b \in OnShelf
    /\ shelf[b] = ContentOf[t] \/ <<ContentOf[t], shelf[b]>> \in SameText
    /\ <<UserOf[t], b>> \in library
    /\ succeeded' = succeeded \cup {t}
    /\ UNCHANGED <<shelf, library>>

(* A status is kept for a while only.                                      *)
Forget(t) ==
    /\ succeeded' = succeeded \ {t}
    /\ UNCHANGED <<shelf, library>>

(* Maintenance may take a book nobody owns off the shelf.                  *)
Withdraw(b) ==
    /\ \A u \in User : <<u, b>> \notin library
    /\ shelf' = [shelf EXCEPT ![b] = NoText]
    /\ UNCHANGED <<library, succeeded>>

Next ==
    \/ \E t \in Task, b \in Book : Publish(t, b) \/ Adopt(t, b) \/ Confirm(t, b)
    \/ \E t \in Task : Forget(t)
    \/ \E b \in Book : Withdraw(b)

Spec == Init /\ [][Next]_vars
=============================================================================
