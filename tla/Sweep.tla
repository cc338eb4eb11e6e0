-------------------------------- MODULE Sweep --------------------------------
(***************************************************************************)
(* The operator's orphan sweep (worker/scripts/sweep_orphans.py --execute) *)
(* running beside the pipeline of Ingest.                                  *)
(*                                                                         *)
(* It inventories Milvus, then Postgres, one statement at a time; it       *)
(* classifies what it saw and deletes, each candidate re-checked just      *)
(* before.  Workers keep running between any two of its statements, and    *)
(* it may be interrupted at each of them.  A dry run changes nothing and   *)
(* is left out; so are book ids that are not UUIDs.                        *)
(***************************************************************************)
EXTENDS Ingest

CONSTANT MaxSweeps      \* bound: runs of the script in a behaviour

VARIABLES
    sweep,              \* where the script stands; "clean" once it exited 0
    facts,              \* the books each select of the inventory returned
    orphans, empties,   \* the plan: vectors without a row, rows without a chunk
    skipped,            \* candidates left alone because a claim names them
    todo,               \* candidates the pre-flight has still to re-check
    target,             \* the candidate at hand
    quiet,              \* history: the pipeline has not moved since the scan
    sweeps

plan == <<orphans, empties, skipped>>
sweepVars == <<sweep, facts, plan, todo, target, quiet, sweeps>>
allVars == <<vars, sweepVars>>

Facts == [vectors : SUBSET Book, books : SUBSET Book,
          chunks : SUBSET Book, refs : SUBSET Book]
NoFacts == [vectors |-> {}, books |-> {}, chunks |-> {}, refs |-> {}]
Phases == {"off", "clean", "books", "chunks", "refs", "claims", "recheck",
           "orphans", "orphan_delete", "empties", "empty_chunks",
           "empty_vectors", "empty_row"}

Chunked == {b \in Committed : globalBooks[b].content \notin Blank}
Referenced == {b \in Book : \E u \in User : <<u, b>> \in library}
(* Mutant: the claims table is taken for absent.                           *)
NoClaims == {}

Claimed == {uploadTasks[t] : t \in Task} \cap Book
Vectored == {b \in Book : vectors[b] > 0}

SweepInit ==
    /\ Init
    /\ sweep = "off" /\ facts = NoFacts
    /\ orphans = {} /\ empties = {} /\ skipped = {} /\ todo = {}
    /\ target = NoBook /\ quiet = FALSE /\ sweeps = 0

-----------------------------------------------------------------------------
(* The inventory                                                           *)

ScanVectors ==
    /\ sweep \in {"off", "clean"} /\ sweeps < MaxSweeps
    /\ sweeps' = sweeps + 1
    /\ facts' = [NoFacts EXCEPT !.vectors = Vectored]
    /\ skipped' = {}
    /\ quiet' = TRUE
    /\ sweep' = "books"
    /\ UNCHANGED <<vars, orphans, empties, todo, target>>

Inventory(at, next, seen) ==
    /\ sweep = at /\ sweep' = next
    /\ facts' = seen
    /\ UNCHANGED <<vars, plan, todo, target, quiet, sweeps>>

ReadBooks == Inventory("books", "chunks", [facts EXCEPT !.books = Committed])
ReadChunks == Inventory("chunks", "refs", [facts EXCEPT !.chunks = Chunked])
ReadRefs == Inventory("refs", "claims", [facts EXCEPT !.refs = Referenced])

(* Mutant: "or" for "and", so one empty class stops the other.             *)
StopsOnEitherEmpty(a, b) == a = {} \/ b = {}

NothingToSweep(a, b) == a = {} /\ b = {}

(* The last select of the inventory, then classify().  A candidate that a  *)
(* library refers to aborts the run; a claimed one is skipped.             *)
ReadClaimsAndClassify ==
    LET milvusOnly == facts.vectors \ facts.books
        pgEmpty    == facts.books \ (facts.chunks \cup facts.vectors)
        shaped     == milvusOnly \cup pgEmpty
        free       == shaped \ (facts.refs \cup Claimed)
    IN /\ sweep = "claims"
       /\ facts' = NoFacts
       /\ skipped' = (shaped \ facts.refs) \cap Claimed
       /\ \/ /\ shaped \cap facts.refs # {}
             /\ sweep' = "off"
             /\ UNCHANGED <<orphans, empties, todo>>
          \/ /\ shaped \cap facts.refs = {}
             /\ NothingToSweep(milvusOnly \cap free, pgEmpty \cap free)
             /\ sweep' = "clean"
             /\ UNCHANGED <<orphans, empties, todo>>
          \/ /\ shaped \cap facts.refs = {}
             /\ ~NothingToSweep(milvusOnly \cap free, pgEmpty \cap free)
             /\ orphans' = milvusOnly \cap free
             /\ empties' = pgEmpty \cap free
             /\ todo' = free
             /\ sweep' = "recheck"
       /\ UNCHANGED <<vars, target, quiet, sweeps>>

-----------------------------------------------------------------------------
(* _execute_sweep                                                          *)

(* The run ends, because it is done, it refuses, or something raised.      *)
Stop(code) ==
    /\ sweep' = code
    /\ orphans' = {} /\ empties' = {} /\ todo' = {} /\ target' = NoBook
    /\ UNCHANGED <<facts, skipped, quiet, sweeps>>

(* Pre-flight: fresh references of every candidate, before any delete.     *)
Recheck ==
    /\ sweep = "recheck"
    /\ IF todo = {}
       THEN /\ sweep' = "orphans"
            /\ UNCHANGED <<facts, plan, todo, target, quiet, sweeps>>
       ELSE \E b \in todo :
              IF b \in Referenced THEN Stop("off")
              ELSE /\ todo' = todo \ {b}
                   /\ UNCHANGED <<sweep, facts, plan, target, quiet, sweeps>>
    /\ UNCHANGED vars

(* Class (a): the row may have landed since the scan.                      *)
CheckLanded ==
    /\ sweep = "orphans"
    /\ IF orphans = {}
       THEN sweep' = "empties" /\ UNCHANGED <<orphans, target>>
       ELSE \E b \in orphans :
              /\ orphans' = orphans \ {b}
              /\ IF b \in Committed THEN UNCHANGED <<sweep, target>>
                 ELSE sweep' = "orphan_delete" /\ target' = b
    /\ UNCHANGED <<vars, facts, empties, skipped, todo, quiet, sweeps>>

DeleteVectors(at, next) ==
    /\ sweep = at /\ sweep' = next
    /\ vectors' = [vectors EXCEPT ![target] = 0]
    /\ UNCHANGED <<uploadTasks, globalBooks, library, originals, broker, attempt,
                   dedupIndex, mintedBy, bounds, facts, plan, todo, target, quiet,
                   sweeps>>

DeleteOrphan == DeleteVectors("orphan_delete", "orphans")

(* Class (b), one transaction per book: references, ...                    *)
CheckEmptyRefs ==
    /\ sweep = "empties"
    /\ IF empties = {} THEN Stop("clean")
       ELSE \E b \in empties :
              IF b \in Referenced THEN Stop("off")
              ELSE /\ target' = b /\ empties' = empties \ {b}
                   /\ sweep' = "empty_chunks"
                   /\ UNCHANGED <<facts, orphans, skipped, todo, quiet, sweeps>>
    /\ UNCHANGED vars

(* ... chunks, ...                                                         *)
CheckEmptyChunks ==
    /\ sweep = "empty_chunks"
    /\ sweep' = IF target \in Chunked THEN "empties" ELSE "empty_vectors"
    /\ UNCHANGED <<vars, facts, plan, todo, target, quiet, sweeps>>

(* ... the Milvus delete, which no rollback undoes, ...                    *)
DeleteEmptyVectors == DeleteVectors("empty_vectors", "empty_row")

(* Mutant: the key does not restrict.                                      *)
DeleteRowUnchecked ==
    /\ sweep = "empty_row"
    /\ globalBooks' = [globalBooks EXCEPT ![target] = NoRow]
    /\ sweep' = "empties"
    /\ UNCHANGED <<uploadTasks, library, vectors, originals, broker, attempt,
                   dedupIndex, mintedBy, bounds, facts, plan, todo, target, quiet,
                   sweeps>>

(* ... and the row itself, which user_library's RESTRICT key may refuse.   *)
DeleteRow ==
    /\ sweep = "empty_row"
    /\ IF target \in Referenced
       THEN Stop("off") /\ UNCHANGED globalBooks
       ELSE /\ globalBooks' = [globalBooks EXCEPT ![target] = NoRow]
            /\ sweep' = "empties"
            /\ UNCHANGED <<facts, plan, todo, target, quiet, sweeps>>
    /\ UNCHANGED <<uploadTasks, library, vectors, originals, broker, attempt,
                   dedupIndex, mintedBy, bounds>>

(* The script is interrupted, or a store does not answer it.               *)
Interrupt == sweep \notin {"off", "clean"} /\ Stop("off") /\ UNCHANGED vars

-----------------------------------------------------------------------------
SweepStep ==
    \/ ScanVectors \/ ReadBooks \/ ReadChunks \/ ReadRefs \/ ReadClaimsAndClassify
    \/ Recheck \/ CheckLanded \/ DeleteOrphan
    \/ CheckEmptyRefs \/ CheckEmptyChunks \/ DeleteEmptyVectors \/ DeleteRow
    \/ Interrupt

PipelineStep ==
    /\ Next
    /\ quiet' = FALSE
    /\ UNCHANGED <<sweep, facts, plan, todo, target, sweeps>>

SweepSpec == SweepInit /\ [][PipelineStep \/ SweepStep]_allVars

-----------------------------------------------------------------------------
(* Properties                                                              *)

SweepTypeOK ==
    /\ TypeOK
    /\ sweep \in Phases
    /\ facts \in Facts
    /\ {orphans, empties, skipped, todo} \subseteq SUBSET Book
    /\ target \in Book \cup {NoBook}
    /\ quiet \in BOOLEAN /\ sweeps \in Nat

(* "tenant-reachable data is never swept": no step takes vectors from a    *)
(* committed book that is in somebody's library, nor its row.              *)
OwnedIsNeverSwept ==
    [][\A b \in Referenced \cap Committed :
         vectors'[b] >= vectors[b] /\ b \in Committed']_<<vectors, globalBooks>>

(* A run that exits 0 beside an idle pipeline leaves no debris but what it *)
(* skipped: "a second run finds zero candidates".                          *)
QuietSweepIsThorough ==
    (sweep = "clean" /\ quiet) =>
        \A b \in Book \ skipped :
            IF b \in Committed THEN b \in Chunked \cup Referenced \cup Vectored
            ELSE b \notin Vectored
=============================================================================
