----------------------------- MODULE Sweep_proofs -----------------------------
(* Theorems about Sweep beside the pipeline of Ingest, for every set of    *)
(* tasks, workers, books, users and contents, and every bound.             *)
EXTENDS Sweep, Ingest_proofs

(* A step of the composition.                                              *)
LEMMA SweepCases ==
    ASSUME [PipelineStep \/ SweepStep]_allVars
    PROVE  \/ PipelineStep
           \/ ScanVectors \/ ReadBooks \/ ReadChunks \/ ReadRefs \/ ReadClaimsAndClassify
           \/ Recheck \/ CheckLanded \/ CheckEmptyRefs \/ CheckEmptyChunks
           \/ DeleteOrphan \/ DeleteEmptyVectors \/ DeleteRow \/ Interrupt
           \/ UNCHANGED allVars
BY DEF SweepStep

(* What a statement of the sweep changes in the stores, if anything.       *)
Spares == /\ UNCHANGED <<uploadTasks, library, originals, broker, attempt, dedupIndex,
                         mintedBy, bounds>>
          /\ \/ UNCHANGED <<globalBooks, vectors>>
             \/ /\ vectors' = [vectors EXCEPT ![target] = 0] /\ UNCHANGED globalBooks
                /\ sweep \in {"orphan_delete", "empty_vectors"}
             \/ /\ globalBooks' = [globalBooks EXCEPT ![target] = NoRow] /\ UNCHANGED vectors
                /\ sweep = "empty_row" /\ target \notin Referenced

LEMMA SweepSpares ==
    ASSUME [PipelineStep \/ SweepStep]_allVars, ~PipelineStep
    PROVE  Spares
<1> USE DEF Spares
<1>1. CASE UNCHANGED vars
  BY <1>1 DEF vars, stores, broker, attempt, dedupIndex, bounds
<1>2. CASE DeleteOrphan \/ DeleteEmptyVectors
  BY <1>2 DEF DeleteOrphan, DeleteEmptyVectors, DeleteVectors
<1>3. CASE DeleteRow
  BY <1>3 DEF DeleteRow
<1>4. CASE \/ ScanVectors \/ ReadBooks \/ ReadChunks \/ ReadRefs \/ ReadClaimsAndClassify
           \/ Recheck \/ CheckLanded \/ CheckEmptyRefs \/ CheckEmptyChunks \/ Interrupt
           \/ UNCHANGED allVars
  <2>1. UNCHANGED vars
    BY <1>4 DEF ScanVectors, ReadBooks, ReadChunks, ReadRefs, Inventory, ReadClaimsAndClassify,
                Recheck, CheckLanded, CheckEmptyRefs, CheckEmptyChunks, Interrupt, allVars
  <2> QED
    BY <1>1, <2>1
<1> QED
  BY SweepCases, <1>2, <1>3, <1>4

-----------------------------------------------------------------------------
(* The invariant of the pipeline survives the sweep: no row it takes away  *)
(* is in a library.                                                        *)
LEMMA RowGone ==
    ASSUME SafetyInv, target \in Book,
           globalBooks' = [globalBooks EXCEPT ![target] = NoRow]
    PROVE  /\ Committed' = Committed \ {target}
           /\ \A b \in Book \ {target} : globalBooks'[b] = globalBooks[b]
BY DEF SafetyInv, TypeOK, Committed

LEMMA SweepSafetyStep ==
    ASSUME SafetyInv, Spares,
           sweep \in {"orphan_delete", "empty_vectors", "empty_row"} => target \in Book
    PROVE  SafetyInv'
<1> USE DEF Spares, broker, attempt, dedupIndex, bounds
<1>1. /\ OnlyFreshIsMinted' /\ IndexIsTrue' /\ ClaimIsOwn' /\ NewPathIsOwn' /\ AttemptIsPlaced'
      /\ ObjectFirst'
  BY DEF SafetyInv, OnlyFreshIsMinted, IndexIsTrue, ClaimIsOwn, NewPathIsOwn, AttemptIsPlaced,
         ObjectFirst, Fits, TextIs
<1>2. CASE UNCHANGED globalBooks
  <2>1. TypeOK'
    BY <1>2 DEF SafetyInv, TypeOK
  <2>2. TextIsKept' /\ LibraryIsCommitted' /\ NoDanglingPointer' /\ SuccessMeansOwned'
    BY <1>2 DEF SafetyInv, TextIsKept, TextIs, Rows, Committed, LibraryIsCommitted,
                NoDanglingPointer, SuccessMeansOwned, Serves
  <2> QED
    BY <1>1, <2>1, <2>2 DEF SafetyInv
<1>3. CASE /\ globalBooks' = [globalBooks EXCEPT ![target] = NoRow] /\ UNCHANGED vectors
           /\ target \in Book /\ target \notin Referenced
  <2>1. /\ Committed' = Committed \ {target}
        /\ \A b \in Book \ {target} : globalBooks'[b] = globalBooks[b]
    BY <1>3, RowGone
  <2>2. \A b \in Committed' : b \in Committed /\ globalBooks'[b] = globalBooks[b]
    BY <2>1 DEF Committed
  <2>3. TypeOK'
    BY <1>3 DEF SafetyInv, TypeOK
  <2>4. \A owned \in library : owned[2] \in Committed'
    <3>1. ASSUME NEW owned \in library PROVE owned[2] \in Committed'
      <4>1. owned = <<owned[1], owned[2]>> /\ owned[1] \in User /\ owned[2] \in Committed
        BY <3>1 DEF SafetyInv, TypeOK, LibraryIsCommitted
      <4>2. owned[2] # target
        BY <1>3, <3>1, <4>1 DEF Referenced
      <4> QED
        BY <2>1, <4>1, <4>2
    <3> QED
      BY <3>1
  <2>5. LibraryIsCommitted'
    BY <2>4 DEF LibraryIsCommitted
  <2>6. TextIsKept' /\ NoDanglingPointer'
    <3>1. Rows' \subseteq Rows
      BY <2>2 DEF Rows
    <3> QED
      BY <2>2, <3>1 DEF SafetyInv, TextIsKept, TextIs, NoDanglingPointer
  <2>7. SuccessMeansOwned'
    <3>1. ASSUME NEW t \in Task, result[t] = "SUCCESS"
          PROVE  \E b \in Book : <<UserOf[t], b>> \in library /\ Serves(b, t)'
      <4>1. PICK b \in Book : <<UserOf[t], b>> \in library /\ Serves(b, t)
        BY <3>1 DEF SafetyInv, SuccessMeansOwned
      <4>2. b \in Committed' /\ globalBooks'[b] = globalBooks[b]
        BY <2>2, <2>4, <4>1
      <4>3. Serves(b, t)'
        BY <4>1, <4>2 DEF Serves
      <4> QED
        BY <4>1, <4>3
    <3> QED
      BY <3>1 DEF SuccessMeansOwned
  <2> QED
    BY <1>1, <2>3, <2>5, <2>6, <2>7 DEF SafetyInv
<1> QED
  BY <1>2, <1>3

-----------------------------------------------------------------------------
(* The plan: what the script holds in each phase, whatever runs beside it. *)
Scanning == {"books", "chunks", "refs", "claims"}
Aimed == {"orphan_delete", "empty_chunks", "empty_vectors", "empty_row"}
Deleting == {"recheck", "orphans", "empties"} \cup Aimed
Pending == orphans \cup empties \cup (IF sweep \in Aimed THEN {target} ELSE {})

PlanInv ==
    /\ SweepTypeOK
    /\ sweep \in Aimed => target \in Book
    /\ sweep \notin Deleting => orphans = {} /\ empties = {}

LEMMA PlanInit == SweepInit => PlanInv
<1> SUFFICES ASSUME SweepInit PROVE PlanInv
  OBVIOUS
<1>1. TypeOK /\ facts \in Facts
  BY TypeInit DEF SweepInit, Facts, NoFacts
<1>2. /\ sweep = "off" /\ orphans = {} /\ empties = {} /\ skipped = {} /\ todo = {}
      /\ target = NoBook /\ quiet = FALSE /\ sweeps = 0
  BY DEF SweepInit
<1> QED
  BY <1>1, <1>2 DEF PlanInv, SweepTypeOK, Phases, Aimed, Deleting

LEMMA PlanStep ==
    ASSUME PlanInv, TypeOK', [PipelineStep \/ SweepStep]_allVars
    PROVE  PlanInv'
<1> USE DEF PlanInv, SweepTypeOK, Phases, Aimed, Deleting, plan, sweepVars
<1>1. CASE PipelineStep
  BY <1>1 DEF PipelineStep
<1>2. CASE ScanVectors
  <2>1. facts' \in Facts
    BY <1>2 DEF ScanVectors, Facts, NoFacts, Vectored
  <2> QED
    BY <1>2, <2>1 DEF ScanVectors
<1>3. CASE ReadBooks \/ ReadChunks \/ ReadRefs
  <2>1. facts' \in Facts
    BY <1>3 DEF ReadBooks, ReadChunks, ReadRefs, Inventory, Facts, Committed, Chunked, Referenced
  <2> QED
    BY <1>3, <2>1 DEF ReadBooks, ReadChunks, ReadRefs, Inventory
<1>4. CASE ReadClaimsAndClassify
  <2>1. facts' \in Facts
    BY <1>4 DEF ReadClaimsAndClassify, Facts, NoFacts
  <2>2. facts.books \subseteq Book /\ facts.vectors \subseteq Book
    BY DEF Facts
  <2> QED
    BY <1>4, <2>1, <2>2 DEF ReadClaimsAndClassify
<1>5. ASSUME NEW code \in {"off", "clean"}, Stop(code) PROVE PlanInv'
  BY <1>5 DEF Stop
<1>6. CASE Recheck
  BY <1>5, <1>6 DEF Recheck
<1>7. CASE CheckLanded
  BY <1>7 DEF CheckLanded
<1>8. CASE CheckEmptyRefs
  BY <1>5, <1>8 DEF CheckEmptyRefs
<1>9. CASE CheckEmptyChunks
  BY <1>9 DEF CheckEmptyChunks
<1>10. CASE DeleteOrphan \/ DeleteEmptyVectors
  BY <1>10 DEF DeleteOrphan, DeleteEmptyVectors, DeleteVectors
<1>11. CASE DeleteRow
  BY <1>5, <1>11 DEF DeleteRow
<1>12. CASE Interrupt
  BY <1>5, <1>12 DEF Interrupt
<1>13. CASE UNCHANGED allVars
  BY <1>13 DEF allVars
<1> QED
  BY SweepCases, <1>1, <1>2, <1>3, <1>4, <1>6, <1>7, <1>8, <1>9, <1>10, <1>11, <1>12, <1>13

LEMMA BesideSafety ==
    ASSUME SafetyInv, PlanInv, [PipelineStep \/ SweepStep]_allVars
    PROVE  SafetyInv' /\ PlanInv'
<1>1. SafetyInv'
  <2>1. CASE PipelineStep
    BY <2>1, SafetyStep DEF PipelineStep
  <2>2. CASE ~ PipelineStep
    BY <2>2, SweepSpares, SweepSafetyStep DEF PlanInv, Aimed
  <2> QED
    BY <2>1, <2>2
<1>2. TypeOK'
  BY <1>1 DEF SafetyInv
<1> QED
  BY <1>1, <1>2, PlanStep

(* All that the pipeline keeps it keeps beside any number of sweeps, each  *)
(* of them interrupted anywhere: ownership, pointers, claims.              *)
THEOREM SweepKeepsSafety == SweepSpec => [](SafetyInv /\ PlanInv)
<1>1. SweepInit => SafetyInv /\ PlanInv
  BY SafetyInit, PlanInit DEF SweepInit
<1> QED
  BY <1>1, BesideSafety, PTL DEF SweepSpec

(* Every variable of the script and of the pipeline keeps its type.        *)
THEOREM SweepTypeCorrect == SweepSpec => []SweepTypeOK
<1>1. PlanInv => SweepTypeOK
  BY DEF PlanInv
<1> QED
  BY <1>1, SweepKeepsSafety, PTL

(* Beside the sweep the pipeline still implements the shelf: a row that    *)
(* leaves it is in no library (the RESTRICT key of user_library).          *)
THEOREM SweepImplementsCatalog == SweepSpec => ImplementsCatalog
<1>1. SafetyInv /\ PlanInv /\ [PipelineStep \/ SweepStep]_allVars => [Shelf!Next]_(Shelf!vars)
  <2> SUFFICES ASSUME SafetyInv, PlanInv, [PipelineStep \/ SweepStep]_allVars
               PROVE  [Shelf!Next]_(Shelf!vars)
    OBVIOUS
  <2>1. CASE PipelineStep
    BY <2>1, CatalogStep DEF PipelineStep
  <2>2. CASE ~ PipelineStep
    <3>1. Spares
      BY <2>2, SweepSpares
    <3>2. UNCHANGED <<library, result>>
      BY <3>1 DEF Spares, broker
    <3>3. CASE UNCHANGED globalBooks
      BY <3>2, <3>3 DEF Shelf!vars
    <3>4. CASE globalBooks' # globalBooks
      <4>1. /\ globalBooks' = [globalBooks EXCEPT ![target] = NoRow]
            /\ target \in Book /\ target \notin Referenced
        BY <3>1, <3>4 DEF Spares, PlanInv, Aimed
      <4>2. \A u \in User : <<u, target>> \notin library
        BY <4>1 DEF Referenced
      <4>3. [b \in Book |-> Text(globalBooks'[b])]
              = [[b \in Book |-> Text(globalBooks[b])] EXCEPT ![target] = NoRow]
        <5>1. \A b \in Book : globalBooks'[b] = IF b = target THEN NoRow ELSE globalBooks[b]
          BY <4>1 DEF SafetyInv, TypeOK
        <5>2. \A b \in Book : Text(globalBooks'[b]) =
                                 IF b = target THEN NoRow ELSE Text(globalBooks[b])
          BY <5>1 DEF Text
        <5> QED
          BY <4>1, <5>2
      <4>4. Shelf!Withdraw(target)
        BY <3>2, <4>2, <4>3 DEF Shelf!Withdraw, Text
      <4> QED
        BY <4>1, <4>4 DEF Shelf!Next
    <3> QED
      BY <3>3, <3>4
  <2> QED
    BY <2>1, <2>2
<1>2. SweepInit => Shelf!Init
  BY CatalogInit DEF SweepInit
<1> QED
  BY <1>1, <1>2, SweepKeepsSafety, PTL DEF SweepSpec, ImplementsCatalog, Shelf!Spec

-----------------------------------------------------------------------------
(* A quiet run.  As long as the pipeline rests, the inventory is what the  *)
(* stores hold, and debris that is not skipped is still in the plan.       *)
Remnant(b) == IF b \in Committed THEN b \notin Chunked \cup Referenced \cup Vectored
              ELSE b \in Vectored

InventoryInv ==
    /\ sweep \in Scanning => facts.vectors = Vectored
    /\ sweep \in Scanning \ {"books"} => facts.books = Committed
    /\ sweep \in {"refs", "claims"} => facts.chunks = Chunked
    /\ sweep = "claims" => facts.refs = Referenced

ProgressInv ==
    /\ orphans \cap Committed = {}
    /\ sweep \in {"empties", "empty_chunks", "empty_vectors", "empty_row"} => orphans = {}
    /\ sweep = "orphan_delete" => target \notin Committed
    /\ sweep = "empty_row" => vectors[target] = 0
    /\ sweep \in Deleting \cup {"clean"} =>
         \A b \in Book \ skipped : Remnant(b) => b \in Pending

QuietInv == quiet => InventoryInv /\ ProgressInv

LEMMA ScanStep ==
    ASSUME PlanInv, QuietInv,
           ScanVectors \/ ReadBooks \/ ReadChunks \/ ReadRefs
    PROVE  QuietInv'
<1>1. CASE ScanVectors
  BY <1>1 DEF ScanVectors, NoFacts, QuietInv, PlanInv, InventoryInv, ProgressInv, Scanning,
              Deleting, Aimed, Vectored, vars, stores
<1>2. CASE ReadBooks \/ ReadChunks \/ ReadRefs
  <2> SUFFICES ASSUME quiet' PROVE InventoryInv' /\ ProgressInv'
    BY DEF QuietInv
  <2>1. quiet /\ UNCHANGED <<vars, plan>>
    BY <1>2 DEF ReadBooks, ReadChunks, ReadRefs, Inventory
  <2>2. /\ Vectored' = Vectored /\ Committed' = Committed /\ Chunked' = Chunked
        /\ Referenced' = Referenced
    BY <2>1 DEF vars, stores, Vectored, Committed, Chunked, Referenced
  <2>3. facts \in Facts /\ orphans = {}
    BY <1>2 DEF ReadBooks, ReadChunks, ReadRefs, Inventory, PlanInv, SweepTypeOK, Deleting, Aimed
  <2>4. InventoryInv
    BY <2>1 DEF QuietInv
  <2>5. ProgressInv'
    BY <1>2, <2>1, <2>3
       DEF ReadBooks, ReadChunks, ReadRefs, Inventory, plan, ProgressInv, Deleting, Aimed
  <2>6. InventoryInv'
    <3>1. \A set : /\ [facts EXCEPT !.books = set].books = set
                  /\ [facts EXCEPT !.books = set].vectors = facts.vectors
                  /\ [facts EXCEPT !.chunks = set].chunks = set
                  /\ [facts EXCEPT !.chunks = set].vectors = facts.vectors
                  /\ [facts EXCEPT !.chunks = set].books = facts.books
                  /\ [facts EXCEPT !.refs = set].refs = set
                  /\ [facts EXCEPT !.refs = set].vectors = facts.vectors
                  /\ [facts EXCEPT !.refs = set].books = facts.books
                  /\ [facts EXCEPT !.refs = set].chunks = facts.chunks
      BY <2>3 DEF Facts
    <3>2. CASE ReadBooks
      BY <2>2, <2>4, <3>1, <3>2 DEF ReadBooks, Inventory, InventoryInv, Scanning
    <3>3. CASE ReadChunks
      BY <2>2, <2>4, <3>1, <3>3 DEF ReadChunks, Inventory, InventoryInv, Scanning
    <3>4. CASE ReadRefs
      BY <2>2, <2>4, <3>1, <3>4 DEF ReadRefs, Inventory, InventoryInv, Scanning
    <3> QED
      BY <1>2, <3>2, <3>3, <3>4
  <2> QED
    BY <2>5, <2>6
<1> QED
  BY <1>1, <1>2

(* classify() puts every remnant in the plan, skips it or aborts.          *)
LEMMA ClassifyStep ==
    ASSUME PlanInv, QuietInv, ReadClaimsAndClassify
    PROVE  QuietInv'
<1> DEFINE milvusOnly == facts.vectors \ facts.books
           pgEmpty == facts.books \ (facts.chunks \cup facts.vectors)
           shaped == milvusOnly \cup pgEmpty
           free == shaped \ (facts.refs \cup Claimed)
<1> SUFFICES ASSUME quiet' PROVE InventoryInv' /\ ProgressInv'
  BY DEF QuietInv
<1>1. /\ sweep = "claims" /\ quiet /\ UNCHANGED <<vars, target, quiet>>
      /\ skipped' = (shaped \ facts.refs) \cap Claimed
  BY DEF ReadClaimsAndClassify
<1>2. /\ facts.vectors = Vectored /\ facts.books = Committed /\ facts.chunks = Chunked
      /\ facts.refs = Referenced
  BY <1>1 DEF QuietInv, InventoryInv, Scanning
<1>3. orphans = {} /\ empties = {}
  BY <1>1 DEF PlanInv, Deleting, Aimed
<1>4. ASSUME NEW b \in Book \ skipped', Remnant(b), shaped \cap facts.refs = {}
      PROVE  b \in (milvusOnly \cap free) \cup (pgEmpty \cap free)
  <2>1. b \in shaped
    BY <1>2, <1>4 DEF Remnant
  <2> QED
    BY <1>1, <1>4, <2>1
<1>5. /\ Committed' = Committed
      /\ \A b : Remnant(b)' <=> Remnant(b)
  BY <1>1 DEF vars, stores, Committed, Remnant, Chunked, Referenced, Vectored
<1>6. CASE sweep' = "off" /\ UNCHANGED <<orphans, empties>>
  BY <1>3, <1>6 DEF InventoryInv, ProgressInv, Scanning, Deleting, Aimed
<1>7. CASE /\ sweep' = "clean" /\ UNCHANGED <<orphans, empties>>
           /\ shaped \cap facts.refs = {}
           /\ NothingToSweep(milvusOnly \cap free, pgEmpty \cap free)
  BY <1>3, <1>4, <1>5, <1>7
     DEF InventoryInv, ProgressInv, Scanning, Deleting, Aimed, NothingToSweep
<1>8. CASE /\ sweep' = "recheck" /\ shaped \cap facts.refs = {}
           /\ orphans' = milvusOnly \cap free /\ empties' = pgEmpty \cap free
  <2>1. orphans' \cap Committed' = {}
    BY <1>2, <1>5, <1>8
  <2>2. \A b \in Book \ skipped' : Remnant(b)' => b \in orphans' \cup empties'
    BY <1>4, <1>5, <1>8
  <2> QED
    BY <1>8, <2>1, <2>2 DEF InventoryInv, ProgressInv, Scanning, Deleting, Aimed, Pending
<1> QED
  BY <1>6, <1>7, <1>8 DEF ReadClaimsAndClassify

LEMMA StopStep ==
    ASSUME PlanInv, QuietInv, NEW code \in {"off", "clean"}, Stop(code),
           UNCHANGED <<library, vectors>>, Committed' = Committed,
           \A b \in Committed : globalBooks'[b] = globalBooks[b],
           code = "clean" => sweep = "empties" /\ empties = {}
    PROVE  QuietInv'
<1> SUFFICES ASSUME quiet' PROVE InventoryInv' /\ ProgressInv'
  BY DEF QuietInv
<1>1. /\ quiet /\ UNCHANGED skipped /\ sweep' = code /\ orphans' = {} /\ empties' = {}
  BY DEF Stop
<1>2. \A b : Remnant(b)' <=> Remnant(b)
  BY DEF Remnant, Chunked, Referenced, Vectored
<1>3. code = "clean" => \A b \in Book \ skipped : ~Remnant(b)
  BY <1>1 DEF QuietInv, ProgressInv, Deleting, Aimed, Pending
<1> QED
  BY <1>1, <1>2, <1>3 DEF InventoryInv, ProgressInv, Scanning, Deleting, Aimed

LEMMA CheckStep ==
    ASSUME PlanInv, QuietInv,
           Recheck \/ CheckLanded \/ CheckEmptyRefs \/ CheckEmptyChunks \/ Interrupt
    PROVE  QuietInv'
<1>1. /\ UNCHANGED <<globalBooks, library, vectors>> /\ Committed' = Committed
      /\ \A b : Remnant(b)' <=> Remnant(b)
  <2>1. UNCHANGED <<globalBooks, library, vectors>>
    BY DEF Recheck, CheckLanded, CheckEmptyRefs, CheckEmptyChunks, Interrupt, vars, stores
  <2> QED
    BY <2>1 DEF Committed, Remnant, Chunked, Referenced, Vectored
<1>2. ASSUME Stop("off") PROVE QuietInv'
  BY <1>1, <1>2, StopStep
<1>3. CASE CheckEmptyRefs /\ empties = {}
  BY <1>1, <1>3, StopStep DEF CheckEmptyRefs
<1>4. CASE ~Stop("off") /\ ~(CheckEmptyRefs /\ empties = {})
  <2> SUFFICES ASSUME quiet' PROVE InventoryInv' /\ ProgressInv'
    BY DEF QuietInv
  <2>1. quiet /\ UNCHANGED skipped
    BY <1>4 DEF Recheck, CheckLanded, CheckEmptyRefs, CheckEmptyChunks, Interrupt, plan
  <2>2. InventoryInv /\ ProgressInv
    BY <2>1 DEF QuietInv
  <2> USE DEF InventoryInv, ProgressInv, Scanning, Deleting, Aimed, Pending
  <2>3. CASE Recheck
    BY <1>1, <1>4, <2>1, <2>2, <2>3 DEF Recheck, plan
  <2>4. CASE CheckLanded /\ orphans = {}
    BY <1>1, <2>1, <2>2, <2>4 DEF CheckLanded
  <2>5. CASE CheckLanded /\ orphans # {}
    <3>1. PICK b \in orphans : /\ orphans' = orphans \ {b} /\ b \notin Committed
                               /\ sweep' = "orphan_delete" /\ target' = b
      BY <2>2, <2>5 DEF CheckLanded
    <3>2. sweep = "orphans" /\ UNCHANGED empties
      BY <2>5 DEF CheckLanded
    <3> QED
      BY <1>1, <2>1, <2>2, <3>1, <3>2
  <2>6. CASE CheckEmptyRefs
    <3>1. PICK b \in empties : /\ target' = b /\ empties' = empties \ {b}
                               /\ sweep' = "empty_chunks" /\ UNCHANGED orphans
      BY <1>4, <2>6 DEF CheckEmptyRefs
    <3>2. sweep = "empties"
      BY <2>6 DEF CheckEmptyRefs
    <3> QED
      BY <1>1, <2>1, <2>2, <3>1, <3>2
  <2>7. CASE CheckEmptyChunks
    <3>1. target \in Chunked => ~Remnant(target)
      BY DEF Remnant, Chunked
    <3>2. sweep = "empty_chunks" /\ UNCHANGED <<orphans, empties, target>>
      BY <2>7 DEF CheckEmptyChunks, plan
    <3> QED
      BY <1>1, <2>1, <2>2, <2>7, <3>1, <3>2 DEF CheckEmptyChunks
  <2>8. CASE Interrupt
    BY <1>4, <2>8 DEF Interrupt
  <2> QED
    BY <2>3, <2>4, <2>5, <2>6, <2>7, <2>8
<1> QED
  BY <1>2, <1>3, <1>4

LEMMA DeleteStep ==
    ASSUME SafetyInv, PlanInv, QuietInv, DeleteOrphan \/ DeleteEmptyVectors \/ DeleteRow
    PROVE  QuietInv'
<1>1. target \in Book /\ sweep \in {"orphan_delete", "empty_vectors", "empty_row"}
  BY DEF DeleteOrphan, DeleteEmptyVectors, DeleteVectors, DeleteRow, PlanInv, Aimed
<1>2. CASE DeleteRow /\ Stop("off")
  BY <1>2 DEF Stop, QuietInv, InventoryInv, ProgressInv, Scanning, Deleting, Aimed
<1>3. CASE ~(DeleteRow /\ Stop("off"))
  <2> SUFFICES ASSUME quiet' PROVE InventoryInv' /\ ProgressInv'
    BY DEF QuietInv
  <2>1. quiet /\ UNCHANGED <<library, orphans, empties, skipped, target>>
    BY <1>3 DEF DeleteOrphan, DeleteEmptyVectors, DeleteVectors, DeleteRow, plan
  <2>2. ProgressInv
    BY <2>1 DEF QuietInv
  <2>3. CASE DeleteOrphan \/ DeleteEmptyVectors
    <3>1. /\ vectors' = [vectors EXCEPT ![target] = 0] /\ globalBooks' = globalBooks
          /\ \/ sweep = "orphan_delete" /\ sweep' = "orphans"
             \/ sweep = "empty_vectors" /\ sweep' = "empty_row"
      BY <2>3 DEF DeleteOrphan, DeleteEmptyVectors, DeleteVectors
    <3>2. vectors'[target] = 0 /\ \A b \in Book \ {target} : vectors'[b] = vectors[b]
      BY <1>1, <3>1 DEF SafetyInv, TypeOK
    <3>3. Committed' = Committed
      BY <3>1 DEF Committed
    <3>4. \A b \in Book \ {target} : Remnant(b)' => Remnant(b)
      BY <2>1, <3>1, <3>2, <3>3 DEF Remnant, Chunked, Referenced, Vectored
    <3>5. target \notin Committed => ~Remnant(target)'
      BY <2>1, <3>2, <3>3 DEF Remnant, Vectored
    <3> QED
      BY <2>1, <2>2, <3>1, <3>2, <3>3, <3>4, <3>5
         DEF InventoryInv, ProgressInv, Scanning, Deleting, Aimed, Pending
  <2>4. CASE DeleteRow
    <3>1. /\ globalBooks' = [globalBooks EXCEPT ![target] = NoRow] /\ vectors' = vectors
          /\ sweep = "empty_row" /\ sweep' = "empties"
      BY <1>3, <2>4 DEF DeleteRow
    <3>2. /\ Committed' = Committed \ {target}
          /\ \A b \in Book \ {target} : globalBooks'[b] = globalBooks[b]
      BY <1>1, <3>1, RowGone
    <3>3. ASSUME NEW b \in Book \ {target} PROVE Remnant(b)' => Remnant(b)
      <4>1. b \in Committed' <=> b \in Committed
        BY <3>2
      <4>2. b \in Chunked' <=> b \in Chunked
        BY <3>2, <4>1 DEF Chunked
      <4>3. Referenced' = Referenced /\ Vectored' = Vectored
        BY <2>1, <3>1 DEF Referenced, Vectored
      <4> QED
        BY <4>1, <4>2, <4>3 DEF Remnant
    <3>4. ~Remnant(target)'
      BY <2>1, <2>2, <3>1, <3>2 DEF ProgressInv, Remnant, Vectored
    <3> QED
      BY <2>1, <2>2, <3>1, <3>2, <3>3, <3>4
         DEF InventoryInv, ProgressInv, Scanning, Deleting, Aimed, Pending
  <2> QED
    BY <2>3, <2>4
<1> QED
  BY <1>2, <1>3

LEMMA QuietStep ==
    ASSUME SafetyInv, PlanInv, QuietInv, [PipelineStep \/ SweepStep]_allVars
    PROVE  QuietInv'
<1>1. CASE PipelineStep
  BY <1>1 DEF PipelineStep, QuietInv
<1>2. CASE UNCHANGED allVars
  BY <1>2 DEF allVars, sweepVars, plan, vars, stores, QuietInv, InventoryInv, ProgressInv,
              Pending, Remnant, Committed, Chunked, Referenced, Vectored
<1> QED
  BY SweepCases, <1>1, <1>2, ScanStep, ClassifyStep, CheckStep, DeleteStep

(* An exit 0 of the script beside an idle pipeline leaves no debris but    *)
(* what it skipped, and a second run finds nothing: however many books,    *)
(* and whatever earlier runs were interrupted.                             *)
THEOREM QuietSweepTheorem == SweepSpec => []QuietSweepIsThorough
<1>1. SweepInit => QuietInv
  BY DEF SweepInit, QuietInv
<1>2. SweepSpec => []QuietInv
  BY SweepKeepsSafety, <1>1, QuietStep, PTL DEF SweepSpec
<1>3. PlanInv /\ QuietInv => QuietSweepIsThorough
  BY DEF PlanInv, QuietInv, ProgressInv, Deleting, Aimed, Pending, Remnant, QuietSweepIsThorough
<1> QED
  BY <1>2, <1>3, SweepKeepsSafety, PTL

-----------------------------------------------------------------------------
(* What the sweep may take.  A claim shields the book of its task, and the *)
(* books no claim names have no vectors to lose: the debris of early runs  *)
(* never has a row, and a text without chunks never has vectors.           *)
ManualIsBlank == \A t \in Task : KindOf[t] = "manual" => ContentOf[t] \in Blank

Solid == {b \in Legacy : LegacyContent[b] \notin Blank}
Sweepable == Debris \cup (Legacy \ Solid)
               \cup {b \in Book : mintedBy[b] \in Task /\ KindOf[mintedBy[b]] = "manual"}

ShieldInv ==
    /\ Solid \subseteq Committed
    /\ sweep \in Scanning \ {"books"} => Solid \subseteq facts.books
    /\ sweep \in {"refs", "claims"} => Solid \subseteq facts.chunks
    /\ \A b \in (facts.vectors \cup facts.books) \cap Fresh : mintedBy[b] \in Task
    /\ Pending \subseteq Sweepable
    /\ \A b \in Sweepable \ Debris : vectors[b] = 0

LEMMA ShieldInit == SweepInit => ShieldInv
<1> SUFFICES ASSUME SweepInit PROVE ShieldInv
  OBVIOUS
<1>1. Pending = {} /\ sweep = "off" /\ facts.vectors = {} /\ facts.books = {}
  BY DEF SweepInit, Pending, Aimed, NoFacts
<1>2. Solid \subseteq Committed
  <2>1. ASSUME NEW b \in Legacy PROVE b \in Committed
    <3>1. b \in Book /\ globalBooks[b] = [content |-> LegacyContent[b], pointer |-> NoFile]
      BY <2>1, LegacyAssumption DEF SweepInit, Init
    <3>2. LegacyContent[b] \in Content
      BY <2>1, LegacyAssumption
    <3> QED
      BY <3>1, <3>2, NullsAssumption DEF Committed
  <2> QED
    BY <2>1 DEF Solid
<1>3. \A b \in Sweepable \ Debris : vectors[b] = 0
  BY NullsAssumption, LegacyAssumption DEF SweepInit, Init, Sweepable, Solid
<1> QED
  BY <1>1, <1>2, <1>3 DEF ShieldInv, Scanning

LEMMA SweepableOrSolid ==
    ASSUME SafetyInv
    PROVE  /\ Sweepable \cap Solid = {}
           /\ Debris \cap Committed = {}
<1>1. Sweepable \cap Solid = {}
  BY LegacyAssumption, NullsAssumption DEF Sweepable, Solid, SafetyInv, OnlyFreshIsMinted, Fresh
<1>2. ASSUME NEW b \in Debris, b \in Committed PROVE FALSE
  <2>1. b \in Book /\ b \notin Legacy /\ b \notin Fresh
    BY <1>2, LegacyAssumption DEF Fresh
  <2>2. mintedBy[b] = NoTask
    BY <2>1 DEF SafetyInv, OnlyFreshIsMinted
  <2> QED
    BY <1>2, <2>1, <2>2, CommittedText, NullsAssumption DEF TextIs
<1> QED
  BY <1>1, <1>2

LEMMA ShieldBesidePipeline ==
    ASSUME ManualIsBlank, SingleInv, ShieldInv, PipelineStep
    PROVE  ShieldInv'
<1>1. /\ Next /\ SafetyInv /\ TypeOK /\ AttemptIsPlaced
      /\ UNCHANGED <<sweep, facts, orphans, empties, target>>
  BY DEF PipelineStep, SingleInv, SafetyInv, plan
<1>2. /\ Committed \subseteq Committed'
      /\ \A b \in Book : mintedBy[b] \in Task => mintedBy'[b] = mintedBy[b]
  BY <1>1, Monotone
<1>3. Solid \subseteq Committed'
  BY <1>2 DEF ShieldInv
<1>4. \A b \in (facts.vectors \cup facts.books) \cap Fresh : mintedBy'[b] \in Task
  BY <1>2 DEF ShieldInv, Fresh
<1>5. Sweepable \subseteq Sweepable'
  BY <1>2 DEF Sweepable
<1>6. Pending' \subseteq Sweepable'
  BY <1>1, <1>5 DEF ShieldInv, Pending
<1>7. ASSUME NEW b \in Sweepable \ Debris PROVE vectors'[b] = 0
  <2>1. vectors[b] = 0 /\ b \in Book
    BY <1>7, LegacyAssumption DEF ShieldInv, Sweepable
  <2>2. ASSUME NEW w \in Worker, ScrubVectors(w) PROVE vectors'[b] = 0
    BY <1>1, <2>1, <2>2 DEF ScrubVectors, TypeOK
  <2>3. ASSUME NEW w \in Worker, InsertVectors(w) PROVE vectors'[b] = 0
    <3>1. CASE book[w] = b
      <4>1. b \in Fresh /\ task[w] \in Task /\ mintedBy[b] = task[w]
        BY <1>1, <2>3, <3>1, OwnBookText DEF InsertVectors, NewPath
      <4>2. ContentOf[task[w]] \in Blank
        BY <1>7, <4>1 DEF Sweepable, Fresh, ManualIsBlank
      <4> QED
        BY <2>1, <2>3, <4>2 DEF InsertVectors
    <3>2. CASE book[w] # b
      BY <1>1, <2>1, <2>3, <3>2 DEF InsertVectors, TypeOK
    <3> QED
      BY <3>1, <3>2
  <2> QED
    BY <1>1, <2>1, <2>2, <2>3, Writers
<1>8. ASSUME NEW b \in Sweepable', b \notin Sweepable PROVE vectors'[b] = 0
  <2>1. b \in Book /\ mintedBy'[b] \in Task /\ mintedBy[b] \notin Task
    BY <1>2, <1>8 DEF Sweepable
  <2>2. PICK w \in Worker : MintBook(w)
    BY <1>1, <2>1, Writers
  <2>3. b \in Fresh /\ mintedBy[b] = NoTask /\ vectors' = vectors
    BY <1>1, <2>1, <2>2 DEF MintBook, TypeOK
  <2> QED
    BY <2>3 DEF SingleInv, SingleRunInv, VectorsInStep
<1>9. \A b \in Sweepable' \ Debris : vectors'[b] = 0
  BY <1>7, <1>8
<1> QED
  BY <1>1, <1>3, <1>4, <1>6, <1>9 DEF ShieldInv

(* What the script deletes was never shielded, and changes no count.       *)
LEMMA SparesCounts ==
    ASSUME SafetyInv, PlanInv, ShieldInv, Spares
    PROVE  /\ Committed' \subseteq Committed
           /\ \A b \in Committed' : globalBooks'[b] = globalBooks[b]
           /\ \A b \in Book : vectors'[b] \in {0, vectors[b]}
           /\ \A b \in Book \ Sweepable : /\ b \in Committed' <=> b \in Committed
                                          /\ vectors'[b] = vectors[b]
           /\ \A b \in Committed : vectors'[b] = vectors[b]
           /\ \A b \in Committed \cap Referenced : b \in Committed'
<1> USE DEF Spares
<1>1. CASE UNCHANGED <<globalBooks, vectors>>
  BY <1>1 DEF Committed
<1>2. CASE /\ vectors' = [vectors EXCEPT ![target] = 0] /\ UNCHANGED globalBooks
           /\ sweep \in {"orphan_delete", "empty_vectors"}
  <2>1. target \in Book /\ target \in Sweepable
    BY <1>2 DEF PlanInv, ShieldInv, Pending, Aimed
  <2>2. Committed' = Committed
    BY <1>2 DEF Committed
  <2>3. \A b \in Book : vectors'[b] = IF b = target THEN 0 ELSE vectors[b]
    BY <1>2 DEF SafetyInv, TypeOK
  <2>4. target \in Committed => vectors[target] = 0
    BY <2>1, SweepableOrSolid DEF ShieldInv
  <2>5. \A b \in Committed : b \in Book
    BY DEF Committed
  <2> QED
    BY <1>2, <2>1, <2>2, <2>3, <2>4, <2>5
<1>3. CASE /\ globalBooks' = [globalBooks EXCEPT ![target] = NoRow] /\ UNCHANGED vectors
           /\ sweep = "empty_row" /\ target \notin Referenced
  <2>1. target \in Book /\ target \in Sweepable
    BY <1>3 DEF PlanInv, ShieldInv, Pending, Aimed
  <2>2. /\ Committed' = Committed \ {target}
        /\ \A b \in Book \ {target} : globalBooks'[b] = globalBooks[b]
    BY <1>3, <2>1, RowGone
  <2>3. \A b \in Committed : b \in Book
    BY DEF Committed
  <2> QED
    BY <1>3, <2>1, <2>2, <2>3
<1> QED
  BY <1>1, <1>2, <1>3

LEMMA SingleBesideSweep ==
    ASSUME ManualIsBlank, SingleInv, PlanInv, ShieldInv, Spares
    PROVE  SingleRunInv'
<1>1. SafetyInv /\ SingleRunInv
  BY DEF SingleInv
<1>2. UNCHANGED <<uploadTasks, queue, sent, pc, task, book, held, mintedBy, expiries>>
  BY DEF Spares, broker, attempt, bounds
<1>3. expiries' = 0 /\ SingleCopy' /\ MintIsClaimed'
  BY <1>1, <1>2 DEF SingleRunInv, SingleCopy, MintIsClaimed
<1>4. /\ Committed' \subseteq Committed
      /\ \A b \in Committed' : globalBooks'[b] = globalBooks[b]
      /\ \A b \in Book : vectors'[b] \in {0, vectors[b]}
      /\ \A b \in Book \ Sweepable : vectors'[b] = vectors[b]
      /\ \A b \in Committed : vectors'[b] = vectors[b]
  BY <1>1, SparesCounts
<1>5. ExactlyOneVectorSet'
  BY <1>1, <1>4 DEF SingleRunInv, ExactlyOneVectorSet
<1>6. ASSUME NEW w \in Worker
      PROVE  /\ pc[w] \in Unpublished => book[w] \notin Committed'
             /\ pc[w] \in {"put_original", "insert_vectors"} => vectors'[book[w]] = 0
             /\ pc[w] = "commit_book" => vectors'[book[w]] = Expected(ContentOf[task[w]])
  <2>1. /\ pc[w] \in Unpublished => book[w] \notin Committed
        /\ pc[w] \in {"put_original", "insert_vectors"} => vectors[book[w]] = 0
        /\ pc[w] = "commit_book" => vectors[book[w]] = Expected(ContentOf[task[w]])
    BY <1>1 DEF SingleRunInv, VectorsInStep
  <2>2. pc[w] \in Unpublished =>
          book[w] \in Fresh /\ task[w] \in Task /\ mintedBy[book[w]] = task[w]
    BY <1>1, OwnBookText DEF Unpublished, NewPath
  <2>3. pc[w] \in Unpublished /\ book[w] \in Sweepable => ContentOf[task[w]] \in Blank
    BY <2>2 DEF Sweepable, Fresh, ManualIsBlank
  <2> QED
    BY <1>4, <2>1, <2>2, <2>3 DEF Unpublished, Expected, Fresh
<1>7. VectorsInStep'
  <2>1. \A b \in Fresh : mintedBy[b] = NoTask => vectors'[b] = 0
    BY <1>1, <1>4 DEF SingleRunInv, VectorsInStep, Fresh
  <2> QED
    BY <1>2, <1>6, <2>1 DEF VectorsInStep
<1> QED
  BY <1>3, <1>5, <1>7 DEF SingleRunInv

(* Each statement of the script keeps the shield: its candidates were seen *)
(* before the claims were read.                                            *)
LEMMA ShieldBesideSweep ==
    ASSUME SingleInv, PlanInv, ShieldInv,
           [PipelineStep \/ SweepStep]_allVars, ~PipelineStep
    PROVE  ShieldInv'
<1>1. SafetyInv /\ SingleRunInv /\ Spares
  BY SweepSpares DEF SingleInv
<1>2. Sweepable' = Sweepable /\ mintedBy' = mintedBy /\ uploadTasks' = uploadTasks
  BY <1>1 DEF Spares, Sweepable
<1>3. \A b \in Sweepable \ Debris : vectors'[b] = 0
  <2>1. Sweepable \subseteq Book
    BY LegacyAssumption DEF Sweepable
  <2> QED
    BY <1>1, <2>1, SparesCounts DEF ShieldInv
<1>4. Solid \subseteq Committed'
  <2>1. Solid \subseteq Book \ Sweepable
    BY <1>1, SweepableOrSolid, LegacyAssumption DEF Solid
  <2> QED
    BY <1>1, <2>1, SparesCounts DEF ShieldInv
<1>5. /\ \A b \in (Committed \cup Vectored) \cap Fresh : mintedBy[b] \in Task
      /\ Solid \subseteq Chunked
  <2>1. ASSUME NEW b \in Committed PROVE /\ b \in Fresh => mintedBy[b] \in Task
                                         /\ b \in Solid => b \in Chunked
    BY <1>1, CommittedText DEF TextIs, Fresh, Solid, Chunked
  <2>2. ASSUME NEW b \in Vectored, b \in Fresh PROVE mintedBy[b] \in Task
    BY <1>1, <2>2 DEF SingleRunInv, VectorsInStep, SafetyInv, TypeOK, Fresh, Vectored
  <2> QED
    BY <2>1, <2>2 DEF ShieldInv
<1>6. CASE ScanVectors
  <2>1. sweep' = "books" /\ facts'.vectors = Vectored /\ facts'.books = {}
        /\ UNCHANGED <<orphans, empties>>
    BY <1>6 DEF ScanVectors, NoFacts
  <2>2. Pending' \subseteq Sweepable
    BY <2>1 DEF ShieldInv, Pending, Aimed
  <2> QED
    BY <1>2, <1>3, <1>4, <1>5, <2>1, <2>2 DEF ShieldInv, Scanning
<1>7. CASE ReadBooks \/ ReadChunks \/ ReadRefs
  <2>1. facts \in Facts /\ UNCHANGED <<orphans, empties, target>> /\ sweep' \notin Aimed
    BY <1>7 DEF ReadBooks, ReadChunks, ReadRefs, Inventory, plan, PlanInv, SweepTypeOK, Aimed
  <2>2. Pending' \subseteq Sweepable
    BY <2>1 DEF ShieldInv, Pending
  <2>3. CASE ReadBooks
    <3>1. facts'.vectors = facts.vectors /\ facts'.books = Committed /\ sweep' = "chunks"
      BY <2>1, <2>3 DEF ReadBooks, Inventory, Facts
    <3> QED
      BY <1>2, <1>3, <1>4, <1>5, <2>2, <3>1 DEF ShieldInv
  <2>4. CASE ReadChunks
    <3>1. /\ facts'.vectors = facts.vectors /\ facts'.books = facts.books
          /\ facts'.chunks = Chunked /\ sweep = "chunks" /\ sweep' = "refs"
      BY <2>1, <2>4 DEF ReadChunks, Inventory, Facts
    <3> QED
      BY <1>2, <1>3, <1>4, <1>5, <2>2, <3>1 DEF ShieldInv, Scanning
  <2>5. CASE ReadRefs
    <3>1. /\ facts'.vectors = facts.vectors /\ facts'.books = facts.books
          /\ facts'.chunks = facts.chunks /\ sweep = "refs" /\ sweep' = "claims"
      BY <2>1, <2>5 DEF ReadRefs, Inventory, Facts
    <3> QED
      BY <1>2, <1>3, <1>4, <2>2, <3>1 DEF ShieldInv, Scanning
  <2> QED
    BY <1>7, <2>3, <2>4, <2>5
<1>8. CASE ReadClaimsAndClassify
  <2> DEFINE milvusOnly == facts.vectors \ facts.books
             pgEmpty == facts.books \ (facts.chunks \cup facts.vectors)
             free == (milvusOnly \cup pgEmpty) \ (facts.refs \cup Claimed)
  <2>1. /\ sweep = "claims" /\ facts' = NoFacts /\ sweep' \in {"off", "clean", "recheck"}
        /\ \/ UNCHANGED <<orphans, empties>>
           \/ orphans' = milvusOnly \cap free /\ empties' = pgEmpty \cap free
    BY <1>8 DEF ReadClaimsAndClassify
  <2>2. free \subseteq Sweepable
    <3> SUFFICES ASSUME NEW b \in free PROVE b \in Sweepable
      OBVIOUS
    <3>1. b \in Book
      BY DEF PlanInv, SweepTypeOK, Facts
    <3>2. b \notin Solid
      BY <2>1 DEF ShieldInv, Scanning
    <3>3. CASE b \in Fresh
      <4>1. mintedBy[b] \in Task
        BY <3>3 DEF ShieldInv
      <4>2. KindOf[mintedBy[b]] = "manual"
        BY <1>1, <3>1, <4>1 DEF SingleRunInv, MintIsClaimed, Claimed
      <4> QED
        BY <3>1, <4>1, <4>2 DEF Sweepable
    <3>4. CASE b \notin Fresh
      BY <3>1, <3>2, <3>4 DEF Fresh, Sweepable
    <3> QED
      BY <3>3, <3>4
  <2>3. Pending' \subseteq Sweepable
    BY <2>1, <2>2 DEF ShieldInv, Pending, Aimed
  <2> QED
    BY <1>2, <1>3, <1>4, <2>1, <2>3 DEF ShieldInv, Scanning, NoFacts
<1>9. ASSUME NEW code \in {"off", "clean"}, Stop(code) PROVE ShieldInv'
  BY <1>2, <1>3, <1>4, <1>9 DEF Stop, ShieldInv, Pending, Aimed, Scanning
<1>10. CASE UNCHANGED facts /\ sweep' \notin Scanning /\ Pending' \subseteq Pending
  BY <1>2, <1>3, <1>4, <1>10 DEF ShieldInv, Scanning
<1>11. CASE Recheck \/ CheckLanded \/ CheckEmptyRefs \/ CheckEmptyChunks
  <2>1. CASE Stop("off") \/ Stop("clean")
    BY <1>9, <2>1
  <2>2. CASE ~Stop("off") /\ ~Stop("clean")
    BY <1>10, <1>11, <2>2
       DEF Recheck, CheckLanded, CheckEmptyRefs, CheckEmptyChunks, Pending, Aimed, Scanning, plan
  <2> QED
    BY <2>1, <2>2
<1>12. CASE DeleteOrphan \/ DeleteEmptyVectors \/ DeleteRow
  <2>1. CASE Stop("off")
    BY <1>9, <2>1
  <2>2. CASE ~Stop("off")
    BY <1>10, <1>12, <2>2
       DEF DeleteOrphan, DeleteEmptyVectors, DeleteVectors, DeleteRow, Pending, Aimed,
           Scanning, plan
  <2> QED
    BY <2>1, <2>2
<1>13. CASE Interrupt
  BY <1>9, <1>13 DEF Interrupt
<1>14. CASE UNCHANGED allVars
  BY <1>2, <1>3, <1>4, <1>14 DEF allVars, sweepVars, plan, ShieldInv, Pending
<1> QED
  BY SweepCases, <1>6, <1>7, <1>8, <1>11, <1>12, <1>13, <1>14

GuardInv == SingleInv /\ PlanInv /\ ShieldInv

LEMMA GuardStep ==
    ASSUME ManualIsBlank, MaxExpiries = 0, GuardInv, [PipelineStep \/ SweepStep]_allVars
    PROVE  GuardInv'
<1>1. SafetyInv' /\ PlanInv'
  BY BesideSafety DEF GuardInv, SingleInv
<1>2. CASE PipelineStep
  <2>1. SingleInv'
    BY <1>2, SingleStep DEF GuardInv, PipelineStep
  <2> QED
    BY <1>1, <1>2, <2>1, ShieldBesidePipeline DEF GuardInv
<1>3. CASE ~PipelineStep
  <2>1. Spares
    BY <1>3, SweepSpares
  <2>2. SingleRunInv'
    BY <2>1, SingleBesideSweep DEF GuardInv
  <2>3. ShieldInv'
    BY <1>3, ShieldBesideSweep DEF GuardInv
  <2> QED
    BY <1>1, <2>2, <2>3 DEF GuardInv, SingleInv
<1> QED
  BY <1>2, <1>3

LEMMA GuardInvariance ==
    ASSUME ManualIsBlank, MaxExpiries = 0
    PROVE  SweepSpec => []GuardInv
<1>1. SweepInit => GuardInv
  BY SafetyInit, SingleInit, PlanInit, ShieldInit DEF SweepInit, GuardInv, SingleInv
<1>2. GuardInv /\ [PipelineStep \/ SweepStep]_allVars => GuardInv'
  BY GuardStep
<1> QED
  BY <1>1, <1>2, PTL DEF SweepSpec

(* "tenant-reachable data is never swept" (worker/scripts/sweep_orphans):  *)
(* while no visibility timeout fires and every text that a manual enqueue, *)
(* which has no claim, brings in is without chunks.                        *)
THEOREM OwnedStaysWhole ==
    ASSUME MaxExpiries = 0, \A t \in Task : KindOf[t] = "manual" => ContentOf[t] \in Blank
    PROVE  SweepSpec => OwnedIsNeverSwept
<1> DEFINE Whole == \A b \in Referenced \cap Committed :
                      vectors'[b] >= vectors[b] /\ b \in Committed'
<1>1. GuardInv /\ [PipelineStep \/ SweepStep]_allVars => [Whole]_<<vectors, globalBooks>>
  <2> SUFFICES ASSUME GuardInv, [PipelineStep \/ SweepStep]_allVars PROVE Whole
    OBVIOUS
  <2>1. SafetyInv /\ SingleRunInv /\ TypeOK /\ AttemptIsPlaced
    BY DEF GuardInv, SingleInv, SafetyInv
  <2> SUFFICES ASSUME NEW b \in Referenced \cap Committed
               PROVE  vectors'[b] >= vectors[b] /\ b \in Committed'
    OBVIOUS
  <2>2. b \in Book /\ vectors[b] \in Nat
    BY <2>1 DEF Committed, TypeOK
  <2>3. CASE ~PipelineStep
    BY <2>1, <2>2, <2>3, SweepSpares, SparesCounts DEF GuardInv
  <2>4. CASE PipelineStep
    <3>1. Next /\ b \in Committed'
      BY <2>1, <2>4, Monotone DEF PipelineStep
    <3>2. ASSUME NEW w \in Worker, ScrubVectors(w) \/ InsertVectors(w)
          PROVE  vectors'[b] = vectors[b]
      <4>1. book[w] # b
        BY <2>1, <3>2
           DEF ScrubVectors, InsertVectors, SingleRunInv, VectorsInStep, Unpublished
      <4> QED
        BY <2>1, <2>2, <3>2, <4>1 DEF ScrubVectors, InsertVectors, TypeOK
    <3> QED
      BY <2>2, <3>1, <3>2, Writers
  <2> QED
    BY <2>3, <2>4
<1> QED
  BY <1>1, GuardInvariance, PTL DEF SweepSpec, OwnedIsNeverSwept, ManualIsBlank

(* ... and under the same hypotheses every committed book keeps its        *)
(* vectors, once, beside the sweep.                                        *)
THEOREM SweptVectorsOnce ==
    ASSUME MaxExpiries = 0, \A t \in Task : KindOf[t] = "manual" => ContentOf[t] \in Blank
    PROVE  SweepSpec => []ExactlyOneVectorSet
<1>1. GuardInv => ExactlyOneVectorSet
  BY DEF GuardInv, SingleInv, SingleRunInv
<1> QED
  BY <1>1, GuardInvariance, PTL DEF ManualIsBlank
=============================================================================
