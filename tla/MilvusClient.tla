----------------------------- MODULE MilvusClient -----------------------------
(***************************************************************************)
(* The process-wide Milvus client of api/search.py, which the worker       *)
(* threads of the dense arm share without a lock, and the arm's time       *)
(* budget: a request that has waited long enough goes on without its       *)
(* thread, and the thread runs on.                                         *)
(*                                                                         *)
(* The interpreter switches threads at calls and loops, not between the    *)
(* test of the global and its use, so that a checkout which finds a        *)
(* client, a publication and a guarded reset are one step each.            *)
(***************************************************************************)
EXTENDS Naturals

CONSTANTS
    Search,         \* requests; each has one thread of its own
    NoClient

ASSUME NoClientAssumption == NoClient \notin Search

VARIABLES
    client,         \* the published client, named by the thread that built it
    thread,         \* where each thread stands, and the client it holds
    failed          \* history: clients that failed a call

clientVars == <<client, thread, failed>>

ClientInit ==
    /\ client = NoClient /\ failed = {}
    /\ thread = [q \in Search |-> [at |-> "idle", holds |-> NoClient]]

Put(q, at, holds) == thread' = [thread EXCEPT ![q] = [at |-> at, holds |-> holds]]

(* _client: the published client, or a new one.                            *)
Checkout(q) ==
    /\ thread[q].at = "start"
    /\ IF client = NoClient THEN Put(q, "build", NoClient) ELSE Put(q, "call", client)
    /\ UNCHANGED <<client, failed>>

(* make_client proves what it builds by a call, which fails if Milvus is   *)
(* down; then the publication, over whatever another thread published.     *)
Build(q) ==
    /\ thread[q].at = "build"
    /\ \/ client' = q /\ Put(q, "call", q)
       \/ UNCHANGED client /\ Put(q, "failed", NoClient)
    /\ UNCHANGED failed

(* dense_search: its hits, an error of Milvus, after which the client may  *)
(* have lost its channel for good, or another error, which resets nothing. *)
CallMilvus(q) ==
    /\ thread[q].at = "call"
    /\ \/ Put(q, "found", NoClient) /\ UNCHANGED failed
       \/ Put(q, "failed", NoClient) /\ UNCHANGED failed
       \/ Put(q, "reset", thread[q].holds) /\ failed' = failed \cup {thread[q].holds}
    /\ UNCHANGED client

(* Mutant: the reset does not look at which client failed.                 *)
ResetAny(q) ==
    /\ thread[q].at = "reset"
    /\ client' = NoClient
    /\ Put(q, "failed", NoClient)
    /\ UNCHANGED failed

(* _reset_client, then the exception.                                      *)
ResetClient(q) ==
    /\ thread[q].at = "reset"
    /\ client' = IF client = thread[q].holds THEN NoClient ELSE client
    /\ Put(q, "failed", NoClient)
    /\ UNCHANGED failed

ClientNext ==
    \E q \in Search : Checkout(q) \/ Build(q) \/ CallMilvus(q) \/ ResetClient(q)

-----------------------------------------------------------------------------
(* No failure, however late it is noticed, drops a client that has not     *)
(* failed, and one that has does not stay published: its reset is due.     *)
OnlyTheFailedIsDropped ==
    [][/\ (client # NoClient /\ client' = NoClient) => client \in failed
       /\ client' \in failed' =>
            \E q \in Search : thread'[q] = [at |-> "reset", holds |-> client']]_clientVars
=============================================================================
