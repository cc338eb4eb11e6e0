--------------------------- MODULE Ingest_proofs ---------------------------
(* Theorems about Ingest, for every set of tasks, workers, books, users    *)
(* and contents, every similarity relation and every bound.                *)
EXTENDS Ingest, TLAPS

(* A step of the pipeline is a step of the enqueuing side, or of one       *)
(* worker; the latter is one of the actions below.                         *)
LEMMA StepCases ==
    ASSUME Next
    PROVE  \/ \E t \in Task : CommitUploadRow(t) \/ SendTask(t) \/ Reseed(t) \/ ForgetResult(t)
           \/ \E w \in Worker :
                \/ Deliver(w) \/ ReportSuccess(w) \/ Ack(w)
                \/ Fail(w) \/ Crash(w) \/ Expire(w) \/ IngestStep(w)
BY DEF Next, Enqueue, WorkerStep

LEMMA TypeInit == Init => TypeOK
BY KindsAssumption, PayloadAssumption, LegacyAssumption, BoundsAssumption, NullsAssumption
   DEF Init, TypeOK, BookRow, Steps

LEMMA TypeStep == ASSUME TypeOK, AttemptIsPlaced, [Next]_vars PROVE TypeOK'
<1> USE NullsAssumption, PayloadAssumption, LegacyAssumption
<1> USE DEF TypeOK, BookRow, Steps, stores, broker, bounds, attempt, dedupIndex
<1>a. /\ \A w \in Worker : w \in held => pc[w] # "idle"
      /\ \A w \in Worker : pc[w] # "idle" => task[w] \in Task
      /\ \A w \in Worker : pc[w] \in NewPath \cup Owning \cup Owned => book[w] \in Book
  BY DEF AttemptIsPlaced
<1>1. CASE UNCHANGED vars
  BY <1>1 DEF vars
<1>2. ASSUME NEW t \in Task, CommitUploadRow(t) PROVE TypeOK'
  BY <1>2 DEF CommitUploadRow
<1>3. ASSUME NEW t \in Task, SendTask(t) PROVE TypeOK'
  BY <1>3 DEF SendTask
<1>4. ASSUME NEW t \in Task, Reseed(t) PROVE TypeOK'
  BY <1>4 DEF Reseed
<1>b. ASSUME NEW t \in Task, ForgetResult(t) PROVE TypeOK'
  BY <1>b DEF ForgetResult
<1>5. ASSUME NEW w \in Worker, Deliver(w) PROVE TypeOK'
  BY <1>5 DEF Deliver, Report
<1>6. ASSUME NEW w \in Worker, Raise(w), task[w] \in Task PROVE TypeOK'
  BY <1>6 DEF Raise, Report
<1>7. ASSUME NEW w \in Worker, ReportSuccess(w) PROVE TypeOK'
  BY <1>7 DEF ReportSuccess, Report
<1>8. ASSUME NEW w \in Worker, Ack(w) PROVE TypeOK'
  BY <1>8 DEF Ack, Release
<1>9. ASSUME NEW w \in Worker, Crash(w) PROVE TypeOK'
  <2>1. queue' \in [Task -> Nat]
    BY <1>9, <1>a DEF Crash
  <2>2. QED
    BY <1>9, <2>1 DEF Crash, Release
<1>10. ASSUME NEW w \in Worker, Expire(w) PROVE TypeOK'
  BY <1>10, <1>a DEF Expire
<1>11. ASSUME NEW w \in Worker, Fail(w) PROVE TypeOK'
  BY <1>11, <1>6, <1>a DEF Fail
<1>12. ASSUME NEW w \in Worker, IngestStep(w) PROVE TypeOK'
  <2>0. task[w] \in Task
    BY <1>12, <1>a DEF IngestStep, LookupDuplicate, OwnDuplicate, ReadPointer,
         BackfillPut, BackfillSet, ReadClaim, CheckCommit, OwnClaimed, ScrubVectors,
         MintBook, PutOriginal, InsertVectors, CommitBook, OwnNew, AddToIndex
  <2>1. CASE LookupDuplicate(w)
    <3>1. EnsureLoaded(w) \subseteq Book \X Content
      BY DEF EnsureLoaded, Rows, Committed
    <3>2. FindDuplicate(w) \subseteq Book
      BY DEF FindDuplicate
    <3> QED
      BY <2>1, <3>1, <3>2 DEF LookupDuplicate, Goto
  <2>2. ASSUME NEW next \in Steps, UpsertLibrary(w, next) PROVE TypeOK'
    BY <2>0, <2>2, <1>6 DEF UpsertLibrary, Goto, Committed
  <2>3. CASE ReadPointer(w)
    BY <2>3 DEF ReadPointer, Goto, ReadOnly
  <2>4. ASSUME NEW next \in Steps, PutObject(w, next), book[w] \in Book PROVE TypeOK'
    BY <2>0, <2>4 DEF PutObject, Goto
  <2>5. CASE BackfillSet(w)
    BY <2>0, <2>5 DEF BackfillSet, Goto, Committed
  <2>6. CASE ReadClaim(w)
    BY <2>6 DEF ReadClaim, Goto, ReadOnly
  <2>7. CASE CheckCommit(w)
    BY <2>7 DEF CheckCommit, Goto, ReadOnly
  <2>8. CASE ScrubVectors(w)
    BY <2>8 DEF ScrubVectors, Goto
  <2>9. CASE MintBook(w)
    <3>1. PICK b \in Book :
             /\ mintedBy' = [mintedBy EXCEPT ![b] = task[w]]
             /\ book' = [book EXCEPT ![w] = b]
             /\ uploadTasks' = IF uploadTasks[task[w]] = NoBook
                               THEN [uploadTasks EXCEPT ![task[w]] = b] ELSE uploadTasks
      BY <2>9 DEF MintBook, Fresh
    <3>2. uploadTasks' \in [Task -> {NoRow, NoBook} \cup Book]
      BY <2>0, <3>1
    <3> QED
      BY <2>0, <2>9, <3>1, <3>2 DEF MintBook, Goto
  <2>10. CASE InsertVectors(w)
    <3>1. vectors' \in [Book -> Nat]
      BY <2>10, <1>a DEF InsertVectors, NewPath
    <3> QED
      BY <2>10, <3>1 DEF InsertVectors, Goto
  <2>11. CASE CommitBook(w)
    BY <2>0, <2>11, <1>6 DEF CommitBook, Goto, Committed
  <2>12. CASE AddToIndex(w)
    <3>1. book[w] \in Book /\ ContentOf[task[w]] \in Content
      BY <2>0, <2>12, <1>a DEF AddToIndex, NewPath
    <3>2. CASE Raise(w)
      BY <2>0, <3>2, <1>6
    <3>3. CASE ~ Raise(w)
      <4>1. index' = [index EXCEPT ![w] = @ \cup {<<book[w], ContentOf[task[w]]>>}]
        BY <2>12, <3>3 DEF AddToIndex
      <4>2. index' \in [Worker -> SUBSET (Book \X Content)]
        BY <3>1, <4>1
      <4> QED
        BY <2>12, <3>3, <4>2 DEF AddToIndex, Goto
    <3> QED
      BY <3>2, <3>3
  <2> QED
    BY <1>12, <2>1, <2>2, <2>3, <2>4, <2>5, <2>6, <2>7, <2>8, <2>9, <2>10, <2>11,
       <2>12, <1>a
       DEF IngestStep, OwnDuplicate, OwnClaimed, OwnNew, BackfillPut, PutOriginal,
           NewPath, Owned
<1> QED
  BY <1>1, <1>2, <1>3, <1>4, <1>b, <1>5, <1>7, <1>8, <1>9, <1>10, <1>11, <1>12, StepCases

-----------------------------------------------------------------------------
(* Which actions write what: each store has one or two writers.            *)

LEMMA Writers ==
    ASSUME Next
    PROVE  /\ globalBooks' # globalBooks =>
                  \E w \in Worker : BackfillSet(w) \/ CommitBook(w)
           /\ library' # library =>
                  \E w \in Worker : OwnDuplicate(w) \/ OwnClaimed(w) \/ OwnNew(w)
           /\ originals' # originals =>
                  \E w \in Worker : BackfillPut(w) \/ PutOriginal(w)
           /\ vectors' # vectors =>
                  \E w \in Worker : ScrubVectors(w) \/ InsertVectors(w)
           /\ mintedBy' # mintedBy => \E w \in Worker : MintBook(w)
           /\ uploadTasks' # uploadTasks =>
                  \/ \E t \in Task : CommitUploadRow(t)
                  \/ \E w \in Worker : MintBook(w)
           /\ index' # index =>
                  \E w \in Worker : LookupDuplicate(w) \/ AddToIndex(w) \/ Crash(w)
<1> USE DEF stores, broker, bounds, attempt, dedupIndex
<1>1. ASSUME NEW t \in Task, CommitUploadRow(t) \/ SendTask(t) \/ Reseed(t) \/ ForgetResult(t)
      PROVE  /\ UNCHANGED <<globalBooks, library, originals, vectors, mintedBy, index>>
             /\ UNCHANGED uploadTasks \/ CommitUploadRow(t)
  BY <1>1 DEF CommitUploadRow, SendTask, Reseed, ForgetResult
<1>2. ASSUME NEW w \in Worker, Deliver(w) \/ Raise(w) \/ ReportSuccess(w) \/ Ack(w) \/ Expire(w)
      PROVE  UNCHANGED <<globalBooks, library, originals, vectors, mintedBy, index,
                         uploadTasks>>
  BY <1>2 DEF Deliver, Raise, ReportSuccess, Ack, Expire
<1>3. ASSUME NEW w \in Worker, Crash(w)
      PROVE  UNCHANGED <<globalBooks, library, originals, vectors, mintedBy, uploadTasks>>
  BY <1>3 DEF Crash
<1>4. ASSUME NEW w \in Worker, ReadPointer(w) \/ ReadClaim(w) \/ CheckCommit(w)
      PROVE  UNCHANGED <<globalBooks, library, originals, vectors, mintedBy, index,
                         uploadTasks>>
  BY <1>4 DEF ReadPointer, ReadClaim, CheckCommit, ReadOnly
<1>5. ASSUME NEW w \in Worker, LookupDuplicate(w) \/ AddToIndex(w)
      PROVE  UNCHANGED <<globalBooks, library, originals, vectors, mintedBy, uploadTasks>>
  BY <1>2, <1>5 DEF LookupDuplicate, AddToIndex
<1>6. ASSUME NEW w \in Worker, OwnDuplicate(w) \/ OwnClaimed(w) \/ OwnNew(w)
      PROVE  UNCHANGED <<globalBooks, originals, vectors, mintedBy, index, uploadTasks>>
  BY <1>2, <1>6 DEF OwnDuplicate, OwnClaimed, OwnNew, UpsertLibrary
<1>7. ASSUME NEW w \in Worker, BackfillPut(w) \/ PutOriginal(w)
      PROVE  UNCHANGED <<globalBooks, library, vectors, mintedBy, index, uploadTasks>>
  BY <1>7 DEF BackfillPut, PutOriginal, PutObject
<1>8. ASSUME NEW w \in Worker, ScrubVectors(w) \/ InsertVectors(w)
      PROVE  UNCHANGED <<globalBooks, library, originals, mintedBy, index, uploadTasks>>
  BY <1>8 DEF ScrubVectors, InsertVectors
<1>9. ASSUME NEW w \in Worker, BackfillSet(w) \/ CommitBook(w)
      PROVE  UNCHANGED <<library, originals, vectors, mintedBy, index, uploadTasks>>
  BY <1>2, <1>9 DEF BackfillSet, CommitBook
<1>10. ASSUME NEW w \in Worker, MintBook(w)
       PROVE  UNCHANGED <<globalBooks, library, originals, vectors, index>>
  BY <1>10 DEF MintBook, Fresh
<1> QED
  BY StepCases, <1>1, <1>2, <1>3, <1>4, <1>5, <1>6, <1>7, <1>8, <1>9, <1>10
     DEF IngestStep, Fail

Moves(w) == \/ Deliver(w) \/ ReportSuccess(w) \/ Ack(w) \/ Fail(w) \/ Crash(w)
            \/ IngestStep(w)

(* A worker's place changes only by its own steps.                         *)
LEMMA Frame ==
    ASSUME TypeOK, Next, NEW w \in Worker, ~ Moves(w)
    PROVE  /\ pc'[w] = pc[w] /\ task'[w] = task[w] /\ book'[w] = book[w]
           /\ w \in held' => w \in held
<1> USE DEF stores, broker, bounds, attempt, dedupIndex, TypeOK
<1> DEFINE Still == /\ pc'[w] = pc[w] /\ task'[w] = task[w] /\ book'[w] = book[w]
                    /\ w \in held' => w \in held
<1>1. ASSUME NEW t \in Task,
             CommitUploadRow(t) \/ SendTask(t) \/ Reseed(t) \/ ForgetResult(t)
      PROVE  Still
  BY <1>1 DEF CommitUploadRow, SendTask, Reseed, ForgetResult
<1>2. ASSUME NEW v \in Worker, v # w, Deliver(v) \/ Raise(v) \/ ReportSuccess(v) \/ Ack(v)
                                      \/ Crash(v)
      PROVE Still
  BY <1>2 DEF Deliver, Raise, ReportSuccess, Ack, Crash, Release
<1>3. ASSUME NEW v \in Worker, Expire(v) PROVE Still
  BY <1>3 DEF Expire
<1>4. ASSUME NEW v \in Worker, v # w, IngestStep(v) PROVE Still
  <2>1. CASE LookupDuplicate(v) \/ ReadPointer(v) \/ ReadClaim(v) \/ CheckCommit(v)
    BY <1>4, <2>1 DEF LookupDuplicate, ReadPointer, ReadClaim, CheckCommit, ReadOnly, Goto
  <2>2. CASE OwnDuplicate(v) \/ OwnClaimed(v) \/ OwnNew(v)
    BY <1>2, <1>4, <2>2 DEF OwnDuplicate, OwnClaimed, OwnNew, UpsertLibrary, Goto
  <2>3. CASE BackfillPut(v) \/ PutOriginal(v)
    BY <1>4, <2>3 DEF BackfillPut, PutOriginal, PutObject, Goto
  <2>4. CASE ScrubVectors(v) \/ InsertVectors(v)
    BY <1>4, <2>4 DEF ScrubVectors, InsertVectors, Goto
  <2>5. CASE BackfillSet(v) \/ MintBook(v)
    BY <1>4, <2>5 DEF BackfillSet, MintBook, Goto
  <2>6. CASE CommitBook(v) \/ AddToIndex(v)
    BY <1>2, <1>4, <2>6 DEF CommitBook, AddToIndex, Goto
  <2> QED
    BY <1>4, <2>1, <2>2, <2>3, <2>4, <2>5, <2>6 DEF IngestStep
<1> QED
  BY StepCases, <1>1, <1>2, <1>3, <1>4 DEF Moves, Fail

(* Nothing published is taken back.                                        *)
LEMMA Monotone ==
    ASSUME TypeOK, AttemptIsPlaced, Next
    PROVE  /\ \A b \in Committed : /\ b \in Committed'
                                   /\ globalBooks'[b].content = globalBooks[b].content
                                   /\ globalBooks[b].pointer # NoFile =>
                                        globalBooks'[b].pointer = globalBooks[b].pointer
           /\ library \subseteq library' /\ originals \subseteq originals'
           /\ \A b \in Book : mintedBy[b] \in Task => mintedBy'[b] = mintedBy[b]
<1>1. ASSUME NEW w \in Worker, BackfillSet(w) \/ CommitBook(w), NEW b \in Committed
      PROVE /\ b \in Committed' /\ globalBooks'[b].content = globalBooks[b].content
            /\ globalBooks[b].pointer # NoFile =>
                 globalBooks'[b].pointer = globalBooks[b].pointer
  <2> USE NullsAssumption, PayloadAssumption DEF TypeOK, BookRow, Committed
  <2>0. book[w] \in Book /\ task[w] \in Task
    BY <1>1 DEF AttemptIsPlaced, NewPath, Owned, BackfillSet, CommitBook
  <2>1. CASE BackfillSet(w)
    <3>1. CASE UNCHANGED globalBooks
      BY <3>1
    <3>2. CASE /\ book[w] \in Committed /\ globalBooks[book[w]].pointer = NoFile
               /\ globalBooks' = [globalBooks EXCEPT ![book[w]].pointer = FileOf[task[w]]]
      <4>1. globalBooks'[b] = IF b = book[w]
                              THEN [globalBooks[b] EXCEPT !.pointer = FileOf[task[w]]]
                              ELSE globalBooks[b]
        BY <2>0, <3>2
      <4>2. globalBooks[b] \in BookRow
        OBVIOUS
      <4>3. CASE b = book[w]
        <5>1. globalBooks'[b] = [content |-> globalBooks[b].content,
                                 pointer |-> FileOf[task[w]]]
          BY <4>1, <4>2, <4>3
        <5> QED
          BY <2>0, <3>2, <4>2, <4>3, <5>1
      <4> QED
        BY <4>1, <4>3
    <3> QED
      BY <2>1, <3>1, <3>2 DEF BackfillSet
  <2>2. CASE CommitBook(w)
    BY <2>0, <2>2 DEF CommitBook, Raise, stores
  <2> QED
    BY <1>1, <2>1, <2>2
<1>2. ASSUME NEW w \in Worker, OwnDuplicate(w) \/ OwnClaimed(w) \/ OwnNew(w)
      PROVE  library \subseteq library'
  BY <1>2 DEF OwnDuplicate, OwnClaimed, OwnNew, UpsertLibrary, Raise, stores
<1>3. ASSUME NEW w \in Worker, BackfillPut(w) \/ PutOriginal(w)
      PROVE  originals \subseteq originals'
  BY <1>3 DEF BackfillPut, PutOriginal, PutObject
<1>4. ASSUME NEW w \in Worker, MintBook(w), NEW b \in Book, mintedBy[b] \in Task
      PROVE  mintedBy'[b] = mintedBy[b]
  BY <1>4, NullsAssumption DEF MintBook, Fresh, TypeOK
<1> QED
  BY Writers, <1>1, <1>2, <1>3, <1>4 DEF Committed

-----------------------------------------------------------------------------
(* SafetyInv is inductive.                                                 *)

LEMMA SafetyInit == Init => SafetyInv
<1> SUFFICES ASSUME Init PROVE SafetyInv
  OBVIOUS
<1>1. TypeOK
  BY TypeInit
<1>2. OnlyFreshIsMinted /\ ClaimIsOwn /\ NewPathIsOwn /\ AttemptIsPlaced
  BY NullsAssumption, LegacyAssumption
     DEF Init, OnlyFreshIsMinted, ClaimIsOwn, NewPathIsOwn, AttemptIsPlaced,
         NewPath, Owning, Owned
<1>3. TextIsKept /\ IndexIsTrue /\ LibraryIsCommitted /\ ObjectFirst
  BY DEF Init, TextIsKept, TextIs, Rows, IndexIsTrue, LibraryIsCommitted, ObjectFirst, Committed
<1>4. NoDanglingPointer /\ SuccessMeansOwned
  BY DEF Init, NoDanglingPointer, SuccessMeansOwned, Committed
<1> QED
  BY <1>1, <1>2, <1>3, <1>4 DEF SafetyInv

(* A book never changes its text, and a row has the text of its book.      *)
LEMMA TextStep ==
    ASSUME SafetyInv, Next, NEW b \in Book, NEW c, TextIs(b, c)
    PROVE  TextIs(b, c)'
BY Monotone DEF SafetyInv, TextIs

LEMMA FitsStep ==
    ASSUME SafetyInv, Next, NEW b \in Book, NEW t \in Task, Fits(b, t)
    PROVE  Fits(b, t)'
BY TextStep DEF Fits, SignaturesMatch

LEMMA CommittedText ==
    ASSUME SafetyInv, NEW b \in Committed
    PROVE  /\ b \in Book /\ TextIs(b, globalBooks[b].content)
           /\ globalBooks[b].content \in Content
<1>1. b \in Book /\ <<b, globalBooks[b].content>> \in Rows
  BY DEF Rows, Committed
<1>2. globalBooks[b] \in BookRow
  BY DEF SafetyInv, TypeOK, Committed
<1>3. TextIs(b, globalBooks[b].content)
  BY <1>1 DEF SafetyInv, TextIsKept
<1> QED
  BY <1>1, <1>2, <1>3 DEF BookRow

LEMMA FitServes ==
    ASSUME SafetyInv, NEW b \in Committed, NEW t \in Task, Fits(b, t)
    PROVE  Serves(b, t)
<1>1. PICK c \in Content : TextIs(b, c) /\ (c = ContentOf[t] \/ SignaturesMatch(ContentOf[t], c))
  BY DEF Fits
<1>2. c = globalBooks[b].content
  BY <1>1, CommittedText DEF TextIs
<1> QED
  BY <1>1, <1>2 DEF Serves

LEMMA OwnedServes ==
    ASSUME SafetyInv, NEW w \in Worker, pc[w] \in Owned
    PROVE  /\ task[w] \in Task /\ book[w] \in Book
           /\ <<UserOf[task[w]], book[w]>> \in library /\ Serves(book[w], task[w])
<1>1. /\ task[w] \in Task /\ book[w] \in Book
      /\ <<UserOf[task[w]], book[w]>> \in library /\ Fits(book[w], task[w])
  BY DEF SafetyInv, AttemptIsPlaced, Owned
<1>2. book[w] \in Committed
  BY <1>1 DEF SafetyInv, LibraryIsCommitted
<1> QED
  BY <1>1, <1>2, FitServes

LEMMA OwnBookText ==
    ASSUME SafetyInv, NEW w \in Worker, pc[w] \in NewPath
    PROVE  /\ book[w] \in Fresh /\ task[w] \in Task /\ mintedBy[book[w]] = task[w]
           /\ TextIs(book[w], ContentOf[task[w]]) /\ Fits(book[w], task[w])
<1>1. book[w] \in Book /\ task[w] \in Task /\ mintedBy[book[w]] = task[w]
  BY DEF SafetyInv, AttemptIsPlaced, NewPathIsOwn, NewPath
<1>2. book[w] \in Fresh
  BY <1>1, NullsAssumption DEF SafetyInv, OnlyFreshIsMinted
<1>3. TextIs(book[w], ContentOf[task[w]])
  BY <1>1, <1>2 DEF Fresh, TextIs
<1> QED
  BY <1>1, <1>2, <1>3, PayloadAssumption DEF Fits

LEMMA IndexStep == ASSUME SafetyInv, Next PROVE IndexIsTrue'
<1> USE DEF SafetyInv
<1> SUFFICES ASSUME NEW v \in Worker, NEW row \in index'[v]
             PROVE  TextIs(row[1], row[2])'
  BY DEF IndexIsTrue
<1>1. CASE row \in index[v]
  <2>1. row[1] \in Book /\ TextIs(row[1], row[2])
    BY <1>1 DEF IndexIsTrue, TypeOK
  <2> QED
    BY <2>1, TextStep
<1>2. ASSUME NEW w \in Worker, LookupDuplicate(w), row \notin index[v]
      PROVE  TextIs(row[1], row[2])'
  <2>1. row \in Rows
    BY <1>2 DEF LookupDuplicate, EnsureLoaded, TypeOK
  <2>2. row[1] \in Book /\ TextIs(row[1], row[2])
    BY <2>1 DEF TextIsKept, Rows, Committed
  <2> QED
    BY <2>2, TextStep
<1>3. ASSUME NEW w \in Worker, AddToIndex(w), row \notin index[v]
      PROVE  TextIs(row[1], row[2])'
  <2>1. row = <<book[w], ContentOf[task[w]]>> /\ pc[w] \in NewPath
    BY <1>3 DEF AddToIndex, Raise, dedupIndex, NewPath, TypeOK
  <2>2. row[1] \in Book /\ TextIs(row[1], row[2])
    BY <2>1, OwnBookText DEF Fresh
  <2> QED
    BY <2>2, TextStep
<1>4. ASSUME NEW w \in Worker, Crash(w) PROVE row \in index[v]
  BY <1>4 DEF Crash, TypeOK
<1> QED
  BY <1>1, <1>2, <1>3, <1>4, Writers

LEMMA ClaimStep == ASSUME SafetyInv, Next PROVE ClaimIsOwn'
<1> USE NullsAssumption DEF SafetyInv, ClaimIsOwn, TypeOK
<1>1. ASSUME NEW t \in Task, CommitUploadRow(t) PROVE ClaimIsOwn'
  BY <1>1 DEF CommitUploadRow
<1>2. ASSUME NEW w \in Worker, MintBook(w) PROVE ClaimIsOwn'
  <2>1. task[w] \in Task
    BY <1>2 DEF MintBook, AttemptIsPlaced
  <2>2. PICK b \in Fresh :
           /\ mintedBy[b] = NoTask
           /\ mintedBy' = [mintedBy EXCEPT ![b] = task[w]]
           /\ uploadTasks' = IF uploadTasks[task[w]] = NoBook
                             THEN [uploadTasks EXCEPT ![task[w]] = b] ELSE uploadTasks
    BY <1>2 DEF MintBook
  <2> QED
    BY <2>1, <2>2 DEF Fresh
<1>3. CASE uploadTasks' = uploadTasks
  BY <1>3, Monotone
<1> QED
  BY <1>1, <1>2, <1>3, Writers

LEMMA NewPathStep == ASSUME SafetyInv, Next PROVE NewPathIsOwn'
<1> USE NullsAssumption DEF SafetyInv, TypeOK
<1> SUFFICES ASSUME NEW w \in Worker, (pc[w] \in NewPath)'
             PROVE  (mintedBy[book[w]] = task[w])'
  BY DEF NewPathIsOwn, NewPath
<1>1. ASSUME pc[w] \in NewPath, book'[w] = book[w], task'[w] = task[w]
      PROVE  (mintedBy[book[w]] = task[w])'
  <2>1. book[w] \in Book /\ task[w] \in Task /\ mintedBy[book[w]] = task[w]
    BY <1>1 DEF NewPathIsOwn, AttemptIsPlaced, NewPath
  <2>2. mintedBy'[book[w]] = task[w]
    BY <2>1, Monotone
  <2> QED
    BY <1>1, <2>2
<1>2. CASE ~ Moves(w)
  BY <1>2, <1>1, Frame
<1>3. CASE ReadClaim(w)
  <2>1. task[w] \in Task /\ uploadTasks[task[w]] \in Book
        /\ book'[w] = uploadTasks[task[w]]
    BY <1>3 DEF ReadClaim, Goto, AttemptIsPlaced, NewPath
  <2>2. mintedBy[book'[w]] = task[w] /\ mintedBy' = mintedBy /\ task' = task
    BY <1>3, <2>1 DEF ClaimIsOwn, ReadClaim, ReadOnly
  <2> QED
    BY <2>2
<1>4. CASE MintBook(w)
  <2>1. PICK b \in Book : /\ mintedBy' = [mintedBy EXCEPT ![b] = task[w]]
                          /\ book' = [book EXCEPT ![w] = b]
    BY <1>4 DEF MintBook, Fresh
  <2> QED
    BY <1>4, <2>1 DEF MintBook, Fresh
<1>5. CASE Deliver(w) \/ ReportSuccess(w) \/ Ack(w) \/ Fail(w) \/ Crash(w) \/ LookupDuplicate(w)
  BY <1>5 DEF Deliver, ReportSuccess, Ack, Fail, Raise, Crash, Release, LookupDuplicate,
              Goto, NewPath
<1>6. CASE ReadPointer(w) \/ BackfillSet(w)
  BY <1>6 DEF ReadPointer, BackfillSet, Goto, NewPath
<1>7. CASE OwnDuplicate(w) \/ BackfillPut(w)
  BY <1>7 DEF OwnDuplicate, BackfillPut, UpsertLibrary, PutObject, Raise, Goto, NewPath
<1>8. CASE OwnClaimed(w) \/ OwnNew(w)
  BY <1>1, <1>8 DEF OwnClaimed, OwnNew, UpsertLibrary, Raise, Goto, NewPath
<1>9. CASE CheckCommit(w) \/ ScrubVectors(w) \/ PutOriginal(w) \/ InsertVectors(w)
  BY <1>1, <1>9 DEF CheckCommit, ScrubVectors, PutOriginal, PutObject, InsertVectors, Goto,
                    ReadOnly, NewPath
<1>10. CASE CommitBook(w) \/ AddToIndex(w)
  BY <1>1, <1>10 DEF CommitBook, AddToIndex, Raise, Goto, NewPath
<1> QED
  BY <1>2, <1>3, <1>4, <1>5, <1>6, <1>7, <1>8, <1>9, <1>10 DEF Moves, IngestStep

LEMMA FreshStep == ASSUME SafetyInv, Next PROVE OnlyFreshIsMinted'
<1>1. ASSUME NEW w \in Worker, MintBook(w) PROVE OnlyFreshIsMinted'
  <2>1. PICK b \in Fresh : mintedBy' = [mintedBy EXCEPT ![b] = task[w]]
    BY <1>1 DEF MintBook
  <2> QED
    BY <2>1 DEF SafetyInv, TypeOK, OnlyFreshIsMinted
<1> QED
  BY <1>1, Writers DEF SafetyInv, OnlyFreshIsMinted

LEMMA KeptStep == ASSUME SafetyInv, Next PROVE TextIsKept'
<1> USE DEF SafetyInv, TypeOK
<1>1. ASSUME NEW w \in Worker, CommitBook(w), globalBooks' # globalBooks,
             NEW b \in Committed' \ Committed
      PROVE  TextIs(b, globalBooks'[b].content)
  <2>1. globalBooks' = [globalBooks EXCEPT ![book[w]] =
                           [content |-> ContentOf[task[w]], pointer |-> FileOf[task[w]]]]
    BY <1>1 DEF CommitBook, Raise, stores
  <2>2. b = book[w] /\ b \in Book
    BY <1>1, <2>1 DEF Committed
  <2>3. globalBooks'[b].content = ContentOf[task[w]]
    BY <2>1, <2>2
  <2> QED
    BY <1>1, <2>2, <2>3, OwnBookText DEF CommitBook, NewPath
<1>2. ASSUME NEW w \in Worker, BackfillSet(w) PROVE Committed' = Committed
  <2>1. book[w] \in Book
    BY <1>2 DEF BackfillSet, AttemptIsPlaced, Owned
  <2>2. \A row \in BookRow : [row EXCEPT !.pointer = FileOf[task[w]]] # NoRow
    <3>1. FileOf[task[w]] \in File
      BY <1>2, PayloadAssumption DEF BackfillSet, AttemptIsPlaced
    <3> QED
      BY <3>1, NullsAssumption DEF BookRow
  <2>3. CASE book[w] \in Committed
               /\ globalBooks' = [globalBooks EXCEPT ![book[w]].pointer = FileOf[task[w]]]
    BY <2>1, <2>2, <2>3 DEF Committed
  <2> QED
    BY <1>2, <2>3 DEF BackfillSet, Committed
<1>3. ASSUME NEW b \in Committed PROVE TextIs(b, globalBooks'[b].content)
  BY CommittedText, Monotone
<1>4. ASSUME NEW b \in Committed' PROVE TextIs(b, globalBooks'[b].content) /\ b \in Book
  BY <1>1, <1>2, <1>3, Writers DEF Committed
<1>5. ASSUME NEW row \in Rows' PROVE TextIs(row[1], row[2])'
  <2>1. row[1] \in Committed' /\ row[2] = globalBooks'[row[1]].content
    BY DEF Rows
  <2>2. TextIs(row[1], row[2]) /\ row[1] \in Book
    BY <1>4, <2>1
  <2> QED
    BY <2>2, TextStep
<1> QED
  BY <1>5 DEF TextIsKept

LEMMA LibraryStep == ASSUME SafetyInv, Next PROVE LibraryIsCommitted'
<1>1. ASSUME NEW owned \in library' PROVE owned[2] \in Committed
  <2>1. CASE owned \in library
    BY <2>1 DEF SafetyInv, LibraryIsCommitted
  <2>2. CASE owned \notin library
    <3>1. PICK w \in Worker : OwnDuplicate(w) \/ OwnClaimed(w) \/ OwnNew(w)
      BY <1>1, <2>2, Writers
    <3> QED
      BY <1>1, <2>2, <3>1 DEF OwnDuplicate, OwnClaimed, OwnNew, UpsertLibrary, Raise, stores
  <2> QED
    BY <2>1, <2>2
<1> QED
  BY <1>1, Monotone DEF SafetyInv, LibraryIsCommitted

LEMMA ServesStep ==
    ASSUME SafetyInv, Next, NEW b \in Book, NEW t \in Task, Serves(b, t)
    PROVE  Serves(b, t)'
BY Monotone DEF SafetyInv, Serves

(* Every answer of the dedup index fits the task that asked.               *)
LEMMA DuplicateFits ==
    ASSUME SafetyInv, NEW w \in Worker, NEW b \in FindDuplicate(w)
    PROVE  b \in Book /\ Fits(b, task[w])
<1>1. PICK c \in Content : <<b, c>> \in EnsureLoaded(w) /\ SignaturesMatch(ContentOf[task[w]], c)
  BY DEF FindDuplicate
<1>2. TextIs(b, c)
  BY <1>1 DEF EnsureLoaded, SafetyInv, IndexIsTrue, TextIsKept
<1> QED
  BY <1>1, <1>2 DEF Fits, FindDuplicate

LEMMA PlacedStep == ASSUME SafetyInv, Next PROVE AttemptIsPlaced'
<1> USE DEF SafetyInv, TypeOK
<1> DEFINE Placed(w) ==
      /\ w \in held => pc[w] # "idle"
      /\ pc[w] # "idle" => task[w] \in Task
      /\ pc[w] \in NewPath \cup Owning \cup Owned => book[w] \in Book
      /\ pc[w] \in Owning \cup Owned => Fits(book[w], task[w])
      /\ pc[w] \in Owned => <<UserOf[task[w]], book[w]>> \in library
<1> SUFFICES ASSUME NEW w \in Worker PROVE Placed(w)'
  BY DEF AttemptIsPlaced
<1>0. Placed(w)
  BY DEF AttemptIsPlaced
<1>1. CASE ~ Moves(w)
  BY <1>0, <1>1, Frame, FitsStep, Monotone DEF NewPath, Owning, Owned
<1>2. CASE Deliver(w)
  BY <1>2 DEF Deliver, NewPath, Owning, Owned
<1>3. CASE Ack(w) \/ Crash(w)
  BY <1>3 DEF Ack, Crash, Release, NewPath, Owning, Owned
<1>4. CASE Raise(w) /\ pc[w] # "idle"
  BY <1>0, <1>4 DEF Raise, NewPath, Owning, Owned
<1>5. CASE ReportSuccess(w)
  BY <1>0, <1>5 DEF ReportSuccess, NewPath, Owning, Owned
<1>6. CASE LookupDuplicate(w)
  <2>1. task' = task /\ held' = held /\ pc[w] = "dedup"
    BY <1>6 DEF LookupDuplicate
  <2>2. CASE pc'[w] = "read_claim"
    BY <1>0, <2>1, <2>2 DEF NewPath, Owning, Owned
  <2>3. CASE \E b \in FindDuplicate(w) : book'[w] = b /\ pc'[w] = "own_dup"
    BY <1>0, <2>1, <2>3, DuplicateFits, FitsStep DEF NewPath, Owning, Owned
  <2> QED
    BY <1>6, <2>2, <2>3 DEF LookupDuplicate, Goto
<1>7. ASSUME NEW next \in Owned, pc[w] \in Owning, UpsertLibrary(w, next) PROVE Placed(w)'
  <2>1. book[w] \in Book /\ task[w] \in Task /\ Fits(book[w], task[w]) /\ pc[w] # "idle"
    BY <1>0, <1>7 DEF Owning
  <2>2. CASE Raise(w)
    BY <1>4, <2>1, <2>2
  <2>3. CASE ~ Raise(w)
    <3>1. /\ library' = library \cup {<<UserOf[task[w]], book[w]>>}
          /\ pc'[w] = next /\ task' = task /\ book' = book
      BY <1>7, <2>3 DEF UpsertLibrary, Goto, Owned
    <3> QED
      BY <2>1, <3>1, FitsStep DEF Owned
  <2> QED
    BY <2>2, <2>3
<1>8. CASE ReadPointer(w) \/ BackfillPut(w) \/ BackfillSet(w)
  <2>1. /\ pc[w] \in Owned /\ pc'[w] \in Owned \cap {"backfill_put", "backfill_set", "done"}
        /\ UNCHANGED <<task, book, held>>
    BY <1>8 DEF ReadPointer, BackfillPut, BackfillSet, PutObject, Goto, ReadOnly, Owned
  <2>2. book[w] \in Book /\ task[w] \in Task
    BY <1>0, <2>1 DEF Owned
  <2> QED
    BY <1>0, <2>1, <2>2, FitsStep, Monotone DEF Owned
<1>9. CASE ReadClaim(w)
  BY <1>0, <1>9 DEF ReadClaim, Goto, ReadOnly, NewPath, Owning, Owned
<1>10. CASE CheckCommit(w)
  <2>1. book[w] \in Book /\ task[w] \in Task /\ pc[w] \in NewPath
    BY <1>0, <1>10 DEF CheckCommit, NewPath
  <2>2. Fits(book[w], task[w])
    BY <2>1, OwnBookText
  <2> QED
    BY <1>0, <1>10, <2>1, <2>2, FitsStep
       DEF CheckCommit, Goto, ReadOnly, NewPath, Owning, Owned
<1>11. CASE ScrubVectors(w) \/ PutOriginal(w) \/ InsertVectors(w)
  BY <1>0, <1>11 DEF ScrubVectors, PutOriginal, PutObject, InsertVectors, Goto, NewPath,
                    Owning, Owned
<1>12. CASE MintBook(w)
  BY <1>0, <1>12 DEF MintBook, Fresh, Goto, NewPath, Owning, Owned
<1>13. CASE CommitBook(w)
  <2>1. book[w] \in Book /\ task[w] \in Task /\ pc[w] # "idle"
    BY <1>0, <1>13 DEF CommitBook, NewPath
  <2>2. CASE Raise(w)
    BY <1>4, <2>1, <2>2
  <2>3. CASE ~ Raise(w)
    <3>1. /\ globalBooks' = [globalBooks EXCEPT ![book[w]] =
                                [content |-> ContentOf[task[w]], pointer |-> FileOf[task[w]]]]
          /\ pc'[w] = "own_new" /\ UNCHANGED <<task, book, held>>
      BY <1>13, <2>3 DEF CommitBook, Goto
    <3>2. Fits(book[w], task[w])
      BY <1>13, OwnBookText DEF CommitBook, NewPath
    <3> QED
      BY <2>1, <3>1, <3>2, FitsStep DEF NewPath, Owning, Owned
  <2> QED
    BY <2>2, <2>3
<1>14. CASE AddToIndex(w)
  <2>1. /\ book[w] \in Book /\ task[w] \in Task /\ pc[w] # "idle"
        /\ Fits(book[w], task[w]) /\ <<UserOf[task[w]], book[w]>> \in library
    BY <1>0, <1>14 DEF AddToIndex, Owned
  <2>2. CASE Raise(w)
    BY <1>4, <2>1, <2>2
  <2>3. CASE ~ Raise(w)
    <3>1. pc'[w] = "done" /\ UNCHANGED <<task, book, held>>
      BY <1>14, <2>3 DEF AddToIndex, Goto
    <3> QED
      BY <2>1, <3>1, FitsStep, Monotone DEF NewPath, Owning, Owned
  <2> QED
    BY <2>2, <2>3
<1>15. CASE OwnDuplicate(w) \/ OwnClaimed(w) \/ OwnNew(w)
  BY <1>7, <1>15 DEF OwnDuplicate, OwnClaimed, OwnNew, Owning, Owned
<1> QED
  BY <1>1, <1>2, <1>3, <1>4, <1>5, <1>6, <1>8, <1>9, <1>10, <1>11, <1>12, <1>13, <1>14,
     <1>15 DEF Moves, IngestStep, Fail

LEMMA ObjectStep == ASSUME SafetyInv, Next PROVE ObjectFirst'
<1> USE DEF SafetyInv, TypeOK
<1> DEFINE HasObject(w) == <<book[w], FileOf[task[w]]>> \in originals
           After == {"backfill_set", "insert_vectors", "commit_book"}
<1> SUFFICES ASSUME NEW w \in Worker, pc'[w] \in After PROVE HasObject(w)'
  BY DEF ObjectFirst
<1>1. CASE ~ Moves(w)
  BY <1>1, Frame, Monotone DEF ObjectFirst
<1>2. CASE BackfillPut(w) \/ PutOriginal(w)
  BY <1>2 DEF BackfillPut, PutOriginal, PutObject
<1>3. CASE InsertVectors(w)
  BY <1>3, Monotone DEF InsertVectors, ObjectFirst
<1>4. CASE Deliver(w) \/ ReportSuccess(w) \/ Ack(w) \/ Fail(w) \/ Raise(w) \/ Crash(w)
  BY <1>4 DEF Deliver, ReportSuccess, Ack, Fail, Raise, Crash, Release
<1>5. CASE LookupDuplicate(w) \/ ReadPointer(w) \/ BackfillSet(w) \/ ReadClaim(w) \/ CheckCommit(w)
  BY <1>5 DEF LookupDuplicate, ReadPointer, BackfillSet, ReadClaim, CheckCommit, Goto
<1>6. CASE OwnDuplicate(w) \/ OwnClaimed(w) \/ OwnNew(w)
  BY <1>4, <1>6 DEF OwnDuplicate, OwnClaimed, OwnNew, UpsertLibrary, Goto
<1>7. CASE ScrubVectors(w) \/ MintBook(w)
  BY <1>7 DEF ScrubVectors, MintBook, Goto
<1>8. CASE CommitBook(w) \/ AddToIndex(w)
  BY <1>4, <1>8 DEF CommitBook, AddToIndex, Goto
<1> QED
  BY <1>1, <1>2, <1>3, <1>4, <1>5, <1>6, <1>7, <1>8 DEF Moves, IngestStep

LEMMA PointerStep == ASSUME SafetyInv, Next PROVE NoDanglingPointer'
<1> USE DEF SafetyInv, TypeOK
<1>1. ASSUME NEW w \in Worker, NEW b \in Committed', CommitBook(w) \/ BackfillSet(w),
             (globalBooks[b].pointer # NoFile)'
      PROVE  (<<b, globalBooks[b].pointer>> \in originals)'
  <2>1. book[w] \in Book /\ <<book[w], FileOf[task[w]]>> \in originals
    BY <1>1 DEF CommitBook, BackfillSet, AttemptIsPlaced, ObjectFirst, NewPath, Owned
  <2>2. CASE b = book[w] /\ globalBooks'[b].pointer = FileOf[task[w]]
    BY <2>1, <2>2, Monotone
  <2>3. CASE b \in Committed /\ globalBooks'[b] = globalBooks[b]
    BY <1>1, <2>3, Monotone DEF NoDanglingPointer
  <2>4. CASE BackfillSet(w)
    <3>1. CASE UNCHANGED globalBooks
      BY <2>3, <3>1 DEF Committed
    <3>2. CASE /\ book[w] \in Committed
               /\ globalBooks' = [globalBooks EXCEPT ![book[w]].pointer = FileOf[task[w]]]
      <4>1. CASE b = book[w]
        <5>1. globalBooks[b] \in BookRow
          BY <3>2, <4>1 DEF Committed
        <5>2. globalBooks'[b].pointer = FileOf[task[w]]
          BY <2>1, <3>2, <4>1, <5>1 DEF BookRow
        <5> QED
          BY <2>2, <4>1, <5>2
      <4>2. CASE b # book[w]
        BY <2>1, <2>3, <3>2, <4>2 DEF Committed
      <4> QED
        BY <4>1, <4>2
    <3> QED
      BY <2>4, <3>1, <3>2 DEF BackfillSet
  <2>5. CASE CommitBook(w)
    <3>1. CASE UNCHANGED globalBooks
      BY <2>3, <3>1 DEF Committed
    <3>2. CASE globalBooks' = [globalBooks EXCEPT ![book[w]] =
                  [content |-> ContentOf[task[w]], pointer |-> FileOf[task[w]]]]
      BY <2>1, <2>2, <2>3, <3>2 DEF Committed
    <3> QED
      BY <2>5, <3>1, <3>2 DEF CommitBook, Raise, stores
  <2> QED
    BY <1>1, <2>4, <2>5
<1>2. CASE UNCHANGED globalBooks
  BY <1>2, Monotone DEF NoDanglingPointer, Committed
<1> QED
  BY <1>1, <1>2, Writers DEF NoDanglingPointer

LEMMA SuccessStep == ASSUME SafetyInv, Next PROVE SuccessMeansOwned'
<1> USE DEF SafetyInv, TypeOK
<1> SUFFICES ASSUME NEW t \in Task, result'[t] = "SUCCESS"
             PROVE  \E b \in Book : (<<UserOf[t], b>> \in library /\ Serves(b, t))'
  BY DEF SuccessMeansOwned
<1>1. CASE result[t] = "SUCCESS"
  BY <1>1, Monotone, ServesStep DEF SuccessMeansOwned
<1>2. CASE result[t] # "SUCCESS"
  <2>1. PICK w \in Worker : ReportSuccess(w) /\ task[w] = t
    <3>1. ASSUME NEW v \in Task,
                 CommitUploadRow(v) \/ SendTask(v) \/ Reseed(v) \/ ForgetResult(v)
          PROVE FALSE
      BY <1>2, <3>1 DEF CommitUploadRow, SendTask, Reseed, ForgetResult, broker
    <3>2. ASSUME NEW w \in Worker, Deliver(w) \/ Raise(w) \/ Ack(w) \/ Crash(w) \/ Expire(w)
          PROVE FALSE
      BY <1>2, <3>2 DEF Deliver, Raise, Report, Ack, Crash, Expire, broker
    <3>3. ASSUME NEW w \in Worker, IngestStep(w) PROVE FALSE
      BY <1>2, <3>2, <3>3
         DEF IngestStep, LookupDuplicate, OwnDuplicate, ReadPointer, BackfillPut, BackfillSet,
             ReadClaim, CheckCommit, OwnClaimed, ScrubVectors, MintBook, PutOriginal,
             InsertVectors, CommitBook, OwnNew, AddToIndex, UpsertLibrary, PutObject,
             ReadOnly, broker
    <3>4. PICK w \in Worker : ReportSuccess(w)
      BY StepCases, <3>1, <3>2, <3>3 DEF Fail
    <3> QED
      BY <1>2, <3>4 DEF ReportSuccess, Report
  <2>2. book[w] \in Book /\ <<UserOf[t], book[w]>> \in library /\ Serves(book[w], t)
    BY <2>1, OwnedServes DEF ReportSuccess, Owned
  <2> QED
    BY <2>2, Monotone, ServesStep
<1> QED
  BY <1>1, <1>2

LEMMA SafetyStep == ASSUME SafetyInv, [Next]_vars PROVE SafetyInv'
<1>1. CASE Next
  BY <1>1, TypeStep, IndexStep, ClaimStep, NewPathStep, FreshStep, KeptStep, LibraryStep,
     PlacedStep, ObjectStep, PointerStep, SuccessStep DEF SafetyInv
<1>2. CASE UNCHANGED vars
  <2> USE <1>2 DEF SafetyInv, vars, stores, broker, attempt, dedupIndex, bounds, Committed
  <2>1. TypeOK'
    BY DEF TypeOK
  <2>2. IndexIsTrue' /\ TextIsKept' /\ LibraryIsCommitted' /\ NoDanglingPointer'
    BY DEF IndexIsTrue, TextIsKept, TextIs, Rows, LibraryIsCommitted, NoDanglingPointer
  <2>3. ClaimIsOwn' /\ NewPathIsOwn' /\ OnlyFreshIsMinted'
    BY DEF ClaimIsOwn, NewPathIsOwn, OnlyFreshIsMinted
  <2>4. AttemptIsPlaced' /\ ObjectFirst'
    BY DEF AttemptIsPlaced, ObjectFirst, Fits, TextIs
  <2>5. SuccessMeansOwned'
    BY DEF SuccessMeansOwned, Serves
  <2> QED
    BY <2>1, <2>2, <2>3, <2>4, <2>5
<1> QED
  BY <1>1, <1>2

(* The strengthening holds in every reachable state.                       *)
THEOREM SafetyInvariance == Spec => []SafetyInv
BY SafetyInit, SafetyStep, PTL DEF Spec

(* Every variable keeps its type, whatever is lost, raised or redelivered. *)
THEOREM TypeCorrect == Spec => []TypeOK
<1>1. SafetyInv => TypeOK
  BY DEF SafetyInv
<1> QED
  BY <1>1, SafetyInvariance, PTL

(* ingest_book: a task reported SUCCESS has left its user owning a         *)
(* committed book that carries the upload, by whatever attempt and path.   *)
THEOREM SuccessIsOwnership == Spec => []SuccessMeansOwned
<1>1. SafetyInv => SuccessMeansOwned
  BY DEF SafetyInv
<1> QED
  BY <1>1, SafetyInvariance, PTL

(* ingest_markdown: a text_pointer in global_books never dangles.          *)
THEOREM PointersResolve == Spec => []NoDanglingPointer
<1>1. SafetyInv => NoDanglingPointer
  BY DEF SafetyInv
<1> QED
  BY <1>1, SafetyInvariance, PTL

(* _backfill_original: a pointer that is set stays as it is.               *)
THEOREM PointersStay == Spec => PointerIsNeverReplaced
<1> DEFINE Stays == \A b \in Committed : globalBooks[b].pointer # NoFile =>
         b \in Committed' /\ globalBooks'[b].pointer = globalBooks[b].pointer
<1>1. SafetyInv /\ [Next]_vars => [Stays]_globalBooks
  BY Monotone DEF SafetyInv, vars, stores
<1> QED
  BY <1>1, SafetyInvariance, PTL DEF Spec, PointerIsNeverReplaced

-----------------------------------------------------------------------------
(* While no visibility timeout fires, a task has one message or one        *)
(* attempt, never both and never two.                                      *)

SingleInv == SafetyInv /\ SingleRunInv

LEMMA SingleInit == ASSUME Init PROVE SingleRunInv
<1>1. expiries = 0 /\ SingleCopy
  BY DEF Init, SingleCopy
<1>2. MintIsClaimed
  BY NullsAssumption DEF Init, MintIsClaimed
<1>3. VectorsInStep
  BY DEF Init, Fresh, VectorsInStep, Unpublished
<1>4. ExactlyOneVectorSet
  BY LegacyAssumption DEF Init, ExactlyOneVectorSet, Committed
<1> QED
  BY <1>1, <1>2, <1>3, <1>4 DEF SingleRunInv

(* A step inside an attempt keeps its task, its message and its hold.      *)
LEMMA InsideAttempt ==
    ASSUME TypeOK, NEW w \in Worker, IngestStep(w) \/ Fail(w) \/ ReportSuccess(w)
    PROVE  /\ UNCHANGED <<task, held, queue, sent>>
           /\ pc[w] # "idle" /\ pc'[w] # "idle"
           /\ \A v \in Worker \ {w} : pc'[v] = pc[v]
<1> USE DEF TypeOK
<1> DEFINE Inside == /\ UNCHANGED <<task, held, queue, sent>>
                     /\ pc'[w] # "idle" /\ \A v \in Worker \ {w} : pc'[v] = pc[v]
<1>1. ASSUME Raise(w) PROVE Inside
  BY <1>1 DEF Raise
<1>2. CASE Fail(w) \/ ReportSuccess(w)
  BY <1>1, <1>2 DEF Fail, ReportSuccess
<1>3. CASE LookupDuplicate(w) \/ ReadPointer(w) \/ ReadClaim(w) \/ CheckCommit(w)
  BY <1>3 DEF LookupDuplicate, ReadPointer, ReadClaim, CheckCommit, ReadOnly, Goto, broker
<1>4. CASE OwnDuplicate(w) \/ OwnClaimed(w) \/ OwnNew(w)
  BY <1>1, <1>4 DEF OwnDuplicate, OwnClaimed, OwnNew, UpsertLibrary, Goto, broker
<1>5. CASE BackfillPut(w) \/ PutOriginal(w) \/ BackfillSet(w)
  BY <1>5 DEF BackfillPut, PutOriginal, PutObject, BackfillSet, Goto, broker
<1>6. CASE ScrubVectors(w) \/ InsertVectors(w) \/ MintBook(w)
  BY <1>6 DEF ScrubVectors, InsertVectors, MintBook, Goto, broker
<1>7. CASE CommitBook(w) \/ AddToIndex(w)
  BY <1>1, <1>7 DEF CommitBook, AddToIndex, Goto, broker
<1>8. pc[w] # "idle"
  BY DEF IngestStep, Fail, ReportSuccess, LookupDuplicate, OwnDuplicate, ReadPointer,
         BackfillPut, BackfillSet, ReadClaim, CheckCommit, OwnClaimed, ScrubVectors,
         MintBook, PutOriginal, InsertVectors, CommitBook, OwnNew, AddToIndex
<1> QED
  BY <1>2, <1>3, <1>4, <1>5, <1>6, <1>7, <1>8 DEF IngestStep

LEMMA SingleCopyStep ==
    ASSUME SingleInv, MaxExpiries = 0, Next
    PROVE  expiries' = 0 /\ SingleCopy'
<1> USE NullsAssumption DEF SingleInv, SafetyInv, SingleRunInv, TypeOK
<1>1. ASSUME NEW t \in Task, CommitUploadRow(t) PROVE expiries' = 0 /\ SingleCopy'
  BY <1>1 DEF CommitUploadRow, SingleCopy, broker, attempt, bounds
<1>2. ASSUME NEW t \in Task, SendTask(t) PROVE expiries' = 0 /\ SingleCopy'
  <2>0. queue[t] = 0 /\ \A v \in Worker : pc[v] # "idle" => task[v] # t
    BY <1>2 DEF SendTask, SingleCopy
  <2>1. /\ queue' = [queue EXCEPT ![t] = 1] /\ sent' = sent \cup {t}
        /\ UNCHANGED <<pc, task, held, uploadTasks, expiries>>
    BY <1>2, <2>0 DEF SendTask, attempt, stores, bounds
  <2> QED
    BY <1>2, <2>0, <2>1 DEF SendTask, SingleCopy
<1>3. ASSUME NEW t \in Task, Reseed(t) PROVE expiries' = 0 /\ SingleCopy'
  <2>1. /\ \A v \in Worker : pc[v] # "idle" => task[v] # t
        /\ queue' = [queue EXCEPT ![t] = 1] /\ t \in sent
        /\ UNCHANGED <<pc, task, held, uploadTasks, expiries, sent>>
    BY <1>3 DEF Reseed, Running, attempt, stores
  <2> QED
    BY <2>1 DEF SingleCopy
<1>b. ASSUME NEW t \in Task, ForgetResult(t) PROVE expiries' = 0 /\ SingleCopy'
  BY <1>b DEF ForgetResult, SingleCopy, stores, attempt, bounds
<1>4. ASSUME NEW w \in Worker, Deliver(w) PROVE expiries' = 0 /\ SingleCopy'
  <2>1. PICK t \in Task : /\ queue[t] > 0 /\ queue' = [queue EXCEPT ![t] = @ - 1]
                          /\ task' = [task EXCEPT ![w] = t]
    BY <1>4 DEF Deliver
  <2>a. queue[t] = 1 /\ t \in sent
    BY <2>1 DEF SingleCopy
  <2>2. queue[t] = 1 /\ queue' = [queue EXCEPT ![t] = 0] /\ t \in sent
    BY <2>1, <2>a
  <2>3. \A v \in Worker : pc[v] # "idle" => task[v] # t
    BY <2>2 DEF SingleCopy
  <2>4. /\ pc[w] = "idle" /\ pc' = [pc EXCEPT ![w] = "dedup"] /\ held' = held \cup {w}
        /\ UNCHANGED <<uploadTasks, sent, expiries>>
    BY <1>4 DEF Deliver, stores, bounds
  <2> QED
    BY <2>1, <2>2, <2>3, <2>4 DEF SingleCopy
<1>5. ASSUME NEW w \in Worker, IngestStep(w) \/ Fail(w) \/ ReportSuccess(w)
      PROVE expiries' = 0 /\ SingleCopy'
  <2>1. expiries' = expiries
    <3>1. ASSUME Raise(w) PROVE expiries' = expiries
      BY <3>1 DEF Raise, bounds
    <3> QED
      BY <1>5, <3>1
         DEF Fail, ReportSuccess, bounds, IngestStep, LookupDuplicate, OwnDuplicate,
             ReadPointer, BackfillPut, BackfillSet, ReadClaim, CheckCommit, OwnClaimed,
             ScrubVectors, MintBook, PutOriginal, InsertVectors, CommitBook, OwnNew,
             AddToIndex, UpsertLibrary, PutObject, ReadOnly
  <2>2. \A t \in sent : KindOf[t] = "manual" \/ uploadTasks'[t] # NoRow
    <3>1. CASE uploadTasks' = uploadTasks
      BY <3>1 DEF SingleCopy
    <3>2. CASE \E v \in Worker : MintBook(v)
      <4>1. PICK v \in Worker, b \in Book :
               uploadTasks' = IF uploadTasks[task[v]] = NoBook
                              THEN [uploadTasks EXCEPT ![task[v]] = b] ELSE uploadTasks
        BY <3>2 DEF MintBook, Fresh
      <4> QED
        BY <4>1 DEF SingleCopy
    <3>3. CASE \E t \in Task : CommitUploadRow(t)
      BY <3>3 DEF CommitUploadRow, SingleCopy
    <3> QED
      BY <3>1, <3>2, <3>3, Writers
  <2> QED
    BY <1>5, <2>1, <2>2, InsideAttempt DEF SingleCopy
<1>6. ASSUME NEW w \in Worker, Ack(w) PROVE expiries' = 0 /\ SingleCopy'
  BY <1>6 DEF Ack, Release, SingleCopy, stores, broker, bounds
<1>7. ASSUME NEW w \in Worker, Crash(w) PROVE expiries' = 0 /\ SingleCopy'
  <2>1. CASE w \in held
    <3>1. task[w] \in Task /\ queue[task[w]] = 0 /\ pc[w] # "idle"
      BY <2>1 DEF AttemptIsPlaced, SingleCopy
    <3>2. queue' = [queue EXCEPT ![task[w]] = 1]
      BY <1>7, <2>1, <3>1 DEF Crash
    <3> QED
      BY <1>7, <2>1, <3>1, <3>2 DEF Crash, Release, SingleCopy, stores
  <2>2. CASE w \notin held
    BY <1>7, <2>2 DEF Crash, Release, SingleCopy, stores
  <2> QED
    BY <2>1, <2>2
<1>8. ASSUME NEW w \in Worker, Expire(w) PROVE FALSE
  BY <1>8 DEF Expire
<1> QED
  BY StepCases, <1>1, <1>2, <1>3, <1>b, <1>4, <1>5, <1>6, <1>7, <1>8

(* Two attempts on the new-book path never share a book.                   *)
LEMMA OwnBook ==
    ASSUME SingleInv, NEW w1 \in Worker, NEW w2 \in Worker, w1 # w2,
           pc[w1] \in NewPath, pc[w2] \in NewPath
    PROVE  book[w1] # book[w2]
BY DEF SingleInv, SafetyInv, SingleRunInv, SingleCopy, NewPathIsOwn, NewPath

LEMMA MintStep == ASSUME SingleInv, Next PROVE MintIsClaimed'
<1> USE NullsAssumption DEF SingleInv, SafetyInv, SingleRunInv, TypeOK
<1> DEFINE Claimed == \A b \in Book : (mintedBy[b] \in Task /\ KindOf[mintedBy[b]] # "manual")
                          => uploadTasks[mintedBy[b]] = b
           Free(w) == pc[w] = "mint" => uploadTasks[task[w]] \in {NoRow, NoBook}
<1>0. Claimed /\ \A w \in Worker : Free(w)
  BY DEF MintIsClaimed
<1>1. ASSUME NEW w \in Worker, MintBook(w) PROVE MintIsClaimed'
  <2>1. PICK b \in Book :
           /\ mintedBy[b] = NoTask
           /\ mintedBy' = [mintedBy EXCEPT ![b] = task[w]]
           /\ uploadTasks' = IF uploadTasks[task[w]] = NoBook
                             THEN [uploadTasks EXCEPT ![task[w]] = b] ELSE uploadTasks
    BY <1>1 DEF MintBook, Fresh
  <2>2. /\ task[w] \in Task /\ uploadTasks[task[w]] \in {NoRow, NoBook}
        /\ KindOf[task[w]] # "manual" => uploadTasks[task[w]] = NoBook
    BY <1>1, <1>0 DEF MintBook, SingleCopy, AttemptIsPlaced
  <2>3. Claimed'
    BY <1>0, <2>1, <2>2
  <2>4. ASSUME NEW v \in Worker PROVE Free(v)'
    <3>1. CASE v = w
      BY <1>1, <3>1 DEF MintBook, Goto
    <3>2. CASE v # w /\ pc[v] = "mint"
      <4>1. task[v] # task[w] /\ task'[v] = task[v]
        BY <1>1, <3>2 DEF MintBook, SingleCopy
      <4> QED
        BY <1>0, <2>1, <2>2, <3>2, <4>1
    <3>3. CASE v # w /\ pc[v] # "mint"
      BY <1>1, <3>3 DEF MintBook, Goto
    <3> QED
      BY <3>1, <3>2, <3>3
  <2> QED
    BY <2>3, <2>4 DEF MintIsClaimed
<1>2. ASSUME NEW t \in Task, CommitUploadRow(t) PROVE MintIsClaimed'
  <2>1. /\ uploadTasks[t] = NoRow /\ uploadTasks' = [uploadTasks EXCEPT ![t] = NoBook]
        /\ UNCHANGED <<mintedBy, pc, task>>
    BY <1>2 DEF CommitUploadRow, attempt
  <2> QED
    BY <1>0, <2>1 DEF MintIsClaimed
<1>3. CASE UNCHANGED <<uploadTasks, mintedBy>>
  <2>1. Claimed'
    BY <1>0, <1>3
  <2>2. ASSUME NEW w \in Worker PROVE Free(w)'
    <3>1. CASE ~ Moves(w)
      BY <1>0, <1>3, <3>1, Frame
    <3>2. CASE ReadClaim(w)
      BY <1>3, <3>2 DEF ReadClaim, Goto, ReadOnly, AttemptIsPlaced
    <3>3. ASSUME Raise(w) PROVE Free(w)'
      BY <3>3 DEF Raise
    <3>4. CASE Moves(w) /\ ~ ReadClaim(w) /\ ~ Raise(w)
      <4>1. pc'[w] # "mint"
        BY <3>4 DEF Moves, IngestStep, Deliver, ReportSuccess, Ack, Fail, Crash, Release,
           LookupDuplicate, OwnDuplicate, ReadPointer, BackfillPut, BackfillSet,
           CheckCommit, OwnClaimed, ScrubVectors, MintBook, PutOriginal, InsertVectors,
           CommitBook, OwnNew, AddToIndex, UpsertLibrary, PutObject, Goto
      <4> QED
        BY <4>1
    <3> QED
      BY <3>1, <3>2, <3>3, <3>4
  <2> QED
    BY <2>1, <2>2 DEF MintIsClaimed
<1> QED
  BY <1>1, <1>2, <1>3, Writers

LEMMA VectorsStep ==
    ASSUME SingleInv, Next
    PROVE  VectorsInStep' /\ ExactlyOneVectorSet'
<1> USE NullsAssumption, PayloadAssumption
        DEF SingleInv, SafetyInv, SingleRunInv, TypeOK, Expected
<1> DEFINE Clean == \A b \in Fresh : mintedBy[b] = NoTask => vectors[b] = 0
           Place(w) == /\ pc[w] \in Unpublished => book[w] \notin Committed
                       /\ pc[w] \in {"put_original", "insert_vectors"} => vectors[book[w]] = 0
                       /\ pc[w] = "commit_book" =>
                            vectors[book[w]] = Expected(ContentOf[task[w]])
<1>0. Clean /\ ExactlyOneVectorSet /\ \A w \in Worker : Place(w)
  BY DEF VectorsInStep
<1>a. \A w \in Worker : pc[w] \in Unpublished =>
         /\ book[w] \in Book \ Legacy /\ task[w] \in Task /\ mintedBy[book[w]] = task[w]
         /\ pc[w] \in NewPath
  BY OwnBookText DEF Unpublished, NewPath, Fresh
<1>1. ASSUME NEW w \in Worker, NEW n \in Nat, pc[w] \in Unpublished,
             vectors' = [vectors EXCEPT ![book[w]] = n]
      PROVE  /\ \A b \in Book : b # book[w] => vectors'[b] = vectors[b]
             /\ vectors'[book[w]] = n
  BY <1>1, <1>a
<1>2. Clean'
  <2>1. ASSUME NEW w \in Worker, ScrubVectors(w) \/ InsertVectors(w) PROVE Clean'
    <3>1. pc[w] \in Unpublished /\ UNCHANGED mintedBy
      BY <2>1 DEF ScrubVectors, InsertVectors, Unpublished
    <3>2. \A b \in Book : b # book[w] => vectors'[b] = vectors[b]
      BY <2>1, <3>1, <1>a DEF ScrubVectors, InsertVectors
    <3>3. mintedBy[book[w]] # NoTask
      BY <3>1, <1>a
    <3> QED
      BY <1>0, <3>1, <3>2, <3>3 DEF Fresh
  <2>2. CASE UNCHANGED vectors
    <3>1. \A b \in Book : mintedBy'[b] = NoTask => mintedBy[b] = NoTask
      BY Monotone
    <3> QED
      BY <1>0, <2>2, <3>1 DEF Fresh
  <2> QED
    BY <2>1, <2>2, Writers
<1>3. ASSUME NEW w \in Worker, pc[w] \in Unpublished, ~ Moves(w)
      PROVE  book[w] \notin Committed' /\ vectors'[book[w]] = vectors[book[w]]
  <2>1. ASSUME NEW v \in Worker, pc[v] \in Unpublished, v # w PROVE book[v] # book[w]
    BY <1>3, <2>1, <1>a, OwnBook
  <2>2. book[w] \notin Committed'
    <3>1. ASSUME NEW v \in Worker, CommitBook(v) PROVE book[w] \notin Committed'
      <4>1. v # w /\ pc[v] \in Unpublished
        BY <1>3, <3>1 DEF Moves, IngestStep, CommitBook, Unpublished
      <4> QED
        BY <1>0, <1>3, <2>1, <3>1, <4>1 DEF CommitBook, Raise, stores, Committed
    <3>2. ASSUME NEW v \in Worker, BackfillSet(v) PROVE book[w] \notin Committed'
      BY <1>0, <1>3, <3>2, <1>a DEF BackfillSet, Committed
    <3> QED
      BY <1>0, <1>3, <3>1, <3>2, Writers DEF Committed
  <2>3. vectors'[book[w]] = vectors[book[w]]
    <3>1. ASSUME NEW v \in Worker, ScrubVectors(v) \/ InsertVectors(v)
          PROVE  vectors'[book[w]] = vectors[book[w]]
      <4>1. v # w /\ pc[v] \in Unpublished
        BY <1>3, <3>1 DEF Moves, IngestStep, ScrubVectors, InsertVectors, Unpublished
      <4>2. book[v] # book[w] /\ book[w] \in Book
        BY <1>3, <2>1, <4>1, <1>a
      <4> QED
        BY <3>1, <4>2 DEF ScrubVectors, InsertVectors
    <3> QED
      BY <3>1, Writers
  <2> QED
    BY <2>2, <2>3
<1>4. ASSUME NEW w \in Worker PROVE Place(w)'
  <2>1. CASE ~ Moves(w)
    <3>1. pc'[w] = pc[w] /\ task'[w] = task[w] /\ book'[w] = book[w]
      BY <2>1, Frame
    <3> QED
      BY <1>0, <1>3, <2>1, <3>1 DEF Unpublished
  <2>2. CASE MintBook(w)
    <3>1. PICK b \in Fresh : /\ mintedBy[b] = NoTask
                             /\ book' = [book EXCEPT ![w] = b]
      BY <2>2 DEF MintBook, Fresh
    <3>2. b \notin Committed /\ vectors[b] = 0
      BY <1>0, <3>1, CommittedText DEF TextIs, Fresh
    <3> QED
      BY <2>2, <3>1, <3>2 DEF MintBook, Fresh, Goto, Committed
  <2>3. CASE CheckCommit(w)
    BY <2>3 DEF CheckCommit, Goto, ReadOnly, stores, Committed, Unpublished
  <2>4. CASE ScrubVectors(w)
    <3>1. book[w] \in Book /\ book[w] \notin Committed
      BY <1>0, <1>a, <2>4 DEF ScrubVectors, Unpublished
    <3> QED
      BY <2>4, <3>1 DEF ScrubVectors, Goto, Committed
  <2>5. CASE PutOriginal(w)
    BY <1>0, <2>5 DEF PutOriginal, PutObject, Goto, Committed, Unpublished
  <2>6. CASE InsertVectors(w)
    <3>1. /\ book[w] \in Book /\ book[w] \notin Committed /\ vectors[book[w]] = 0
          /\ task[w] \in Task /\ pc[w] = "insert_vectors"
      BY <1>0, <1>a, <2>6 DEF InsertVectors, Unpublished
    <3>2. vectors'[book[w]] = Expected(ContentOf[task[w]])
      BY <2>6, <3>1 DEF InsertVectors
    <3>3. pc'[w] = "commit_book" /\ UNCHANGED <<book, task, globalBooks>>
      BY <2>6 DEF InsertVectors, Goto
    <3> QED
      BY <3>1, <3>2, <3>3 DEF Committed
  <2>7. ASSUME Raise(w) PROVE Place(w)'
    BY <2>7 DEF Raise, Unpublished
  <2>8. CASE Moves(w) /\ ~ MintBook(w) /\ ~ CheckCommit(w) /\ ~ ScrubVectors(w)
             /\ ~ PutOriginal(w) /\ ~ InsertVectors(w) /\ ~ Raise(w)
    <3>1. pc'[w] \notin Unpublished
      BY <2>8 DEF Moves, IngestStep, Deliver, ReportSuccess, Ack, Fail, Crash, Release,
         LookupDuplicate, OwnDuplicate, ReadPointer, BackfillPut, BackfillSet, ReadClaim,
         OwnClaimed, CommitBook, OwnNew, AddToIndex, UpsertLibrary, PutObject, Goto,
         Unpublished
    <3> QED
      BY <3>1 DEF Unpublished
  <2> QED
    BY <2>1, <2>2, <2>3, <2>4, <2>5, <2>6, <2>7, <2>8
<1>5. ExactlyOneVectorSet'
  <2>1. ASSUME NEW w \in Worker, CommitBook(w), globalBooks' # globalBooks
        PROVE  ExactlyOneVectorSet'
    <3>1. /\ book[w] \in Book /\ task[w] \in Task
          /\ vectors[book[w]] = Expected(ContentOf[task[w]])
      BY <1>0, <1>a, <2>1 DEF CommitBook, Unpublished
    <3>2. /\ globalBooks' = [globalBooks EXCEPT ![book[w]] =
                [content |-> ContentOf[task[w]], pointer |-> FileOf[task[w]]]]
          /\ vectors' = vectors
      BY <2>1 DEF CommitBook, Raise, stores
    <3> QED
      BY <1>0, <3>1, <3>2 DEF ExactlyOneVectorSet, Committed
  <2>2. ASSUME NEW w \in Worker, BackfillSet(w) PROVE ExactlyOneVectorSet'
    <3>1. vectors' = vectors
      BY <2>2 DEF BackfillSet
    <3>2. Committed' \subseteq Committed
      BY <2>2 DEF BackfillSet, Committed, AttemptIsPlaced, Owned
    <3>3. \A b \in Committed : globalBooks'[b].content = globalBooks[b].content
      BY Monotone
    <3> QED
      BY <1>0, <3>1, <3>2, <3>3 DEF ExactlyOneVectorSet
  <2>3. ASSUME NEW w \in Worker, ScrubVectors(w) \/ InsertVectors(w)
        PROVE  ExactlyOneVectorSet'
    <3>1. book[w] \in Book /\ book[w] \notin Committed
      BY <1>0, <1>a, <2>3 DEF ScrubVectors, InsertVectors, Unpublished
    <3>2. globalBooks' = globalBooks /\ \A b \in Book \ {book[w]} : vectors'[b] = vectors[b]
      BY <2>3, <3>1 DEF ScrubVectors, InsertVectors
    <3> QED
      BY <1>0, <3>1, <3>2 DEF ExactlyOneVectorSet, Committed
  <2>4. CASE UNCHANGED <<globalBooks, vectors>>
    BY <1>0, <2>4 DEF ExactlyOneVectorSet, Committed
  <2> QED
    BY <2>1, <2>2, <2>3, <2>4, Writers
<1> QED
  BY <1>2, <1>4, <1>5 DEF VectorsInStep

LEMMA SingleStep ==
    ASSUME SingleInv, MaxExpiries = 0, [Next]_vars PROVE SingleInv'
<1>1. CASE Next
  BY <1>1, SafetyStep, SingleCopyStep, MintStep, VectorsStep DEF SingleInv, SingleRunInv
<1>2. CASE UNCHANGED vars
  <2>1. SafetyInv'
    BY SafetyStep DEF SingleInv
  <2>2. SingleRunInv'
    BY <1>2 DEF vars, stores, broker, attempt, dedupIndex, bounds, SingleInv, SingleRunInv,
       SingleCopy, MintIsClaimed, VectorsInStep, ExactlyOneVectorSet, Committed
  <2> QED
    BY <2>1, <2>2 DEF SingleInv
<1> QED
  BY <1>1, <1>2

(* Without a visibility timeout under a running task, a committed book has *)
(* its vectors, once: whatever is lost, raised, re-run or seeded again.    *)
THEOREM VectorsOnce == ASSUME MaxExpiries = 0 PROVE Spec => []ExactlyOneVectorSet
<1>1. Init => SingleInv
  BY SafetyInit, SingleInit DEF SingleInv
<1>2. SingleInv /\ [Next]_vars => SingleInv'
  BY SingleStep
<1>3. SingleInv => ExactlyOneVectorSet
  BY DEF SingleInv, SingleRunInv
<1> QED
  BY <1>1, <1>2, <1>3, PTL DEF Spec

(* ... and a task with a claim row never draws a second book id.           *)
THEOREM ClaimedTasksMintOnce == ASSUME MaxExpiries = 0 PROVE Spec => []OneBookPerTask
<1>1. Init => SingleInv
  BY SafetyInit, SingleInit DEF SingleInv
<1>2. SingleInv /\ [Next]_vars => SingleInv'
  BY SingleStep
<1>3. SingleInv => OneBookPerTask
  BY DEF SingleInv, SafetyInv, TypeOK, SingleRunInv, MintIsClaimed, OneBookPerTask
<1> QED
  BY <1>1, <1>2, <1>3, PTL DEF Spec

-----------------------------------------------------------------------------
(* The originals.  Only a book from before they were persisted may still   *)
(* want one once it is committed; any other got its minter's file first.   *)
OriginalIsMinters ==
    /\ \A o \in originals : o[1] \notin Legacy =>
          mintedBy[o[1]] \in Task /\ o[2] = FileOf[mintedBy[o[1]]]
    /\ \A b \in Committed \ Legacy : globalBooks[b].pointer # NoFile
    /\ \A w \in Worker : pc[w] \in {"backfill_put", "backfill_set"} => book[w] \in Legacy

LEMMA OriginalInit == Init => OriginalIsMinters
BY DEF Init, OriginalIsMinters, Committed

LEMMA BackfillPlace ==
    ASSUME SafetyInv, OriginalIsMinters, Next, NEW w \in Worker,
           pc'[w] \in {"backfill_put", "backfill_set"}
    PROVE  book'[w] \in Legacy
<1> USE DEF SafetyInv, TypeOK
<1>1. CASE ~ Moves(w)
  BY <1>1, Frame DEF OriginalIsMinters
<1>2. CASE ReadPointer(w)
  <2>1. book'[w] = book[w] /\ book[w] \in Committed /\ globalBooks[book[w]].pointer = NoFile
    BY <1>2 DEF ReadPointer, Goto
  <2> QED
    BY <2>1 DEF OriginalIsMinters
<1>3. CASE BackfillPut(w)
  BY <1>3 DEF BackfillPut, PutObject, OriginalIsMinters
<1>4. CASE Deliver(w) \/ ReportSuccess(w) \/ Ack(w) \/ Fail(w) \/ Raise(w) \/ Crash(w)
  BY <1>4 DEF Deliver, ReportSuccess, Ack, Fail, Raise, Crash, Release
<1>5. CASE LookupDuplicate(w) \/ BackfillSet(w) \/ ReadClaim(w) \/ CheckCommit(w)
  BY <1>5 DEF LookupDuplicate, BackfillSet, ReadClaim, CheckCommit, Goto
<1>6. CASE OwnDuplicate(w) \/ OwnClaimed(w) \/ OwnNew(w)
  BY <1>4, <1>6 DEF OwnDuplicate, OwnClaimed, OwnNew, UpsertLibrary, Goto
<1>7. CASE ScrubVectors(w) \/ MintBook(w) \/ PutOriginal(w) \/ InsertVectors(w)
  BY <1>7 DEF ScrubVectors, MintBook, PutOriginal, PutObject, InsertVectors, Goto
<1>8. CASE CommitBook(w) \/ AddToIndex(w)
  BY <1>4, <1>8 DEF CommitBook, AddToIndex, Goto
<1> QED
  BY <1>1, <1>2, <1>3, <1>4, <1>5, <1>6, <1>7, <1>8 DEF Moves, IngestStep

LEMMA OriginalStep ==
    ASSUME SafetyInv, OriginalIsMinters, [Next]_vars
    PROVE  OriginalIsMinters'
<1>1. CASE UNCHANGED vars
  BY <1>1 DEF vars, stores, attempt, OriginalIsMinters, Committed
<1>2. CASE Next
  <2>1. ASSUME NEW o \in originals', o[1] \notin Legacy
        PROVE  mintedBy'[o[1]] \in Task /\ o[2] = FileOf[mintedBy'[o[1]]]
    <3>1. CASE o \in originals
      <4>1. o[1] \in Book /\ mintedBy[o[1]] \in Task /\ o[2] = FileOf[mintedBy[o[1]]]
        BY <2>1, <3>1 DEF OriginalIsMinters, SafetyInv, TypeOK
      <4>2. mintedBy'[o[1]] = mintedBy[o[1]]
        BY <1>2, <4>1, Monotone DEF SafetyInv
      <4> QED
        BY <4>1, <4>2
    <3>2. CASE o \notin originals
      <4>1. PICK w \in Worker : BackfillPut(w) \/ PutOriginal(w)
        BY <1>2, <2>1, <3>2, Writers
      <4>2. o = <<book[w], FileOf[task[w]]>> /\ mintedBy' = mintedBy
        BY <2>1, <3>2, <4>1 DEF BackfillPut, PutOriginal, PutObject
      <4>3. ~ BackfillPut(w)
        BY <2>1, <4>2 DEF BackfillPut, OriginalIsMinters
      <4>4. task[w] \in Task /\ mintedBy[book[w]] = task[w]
        BY <4>1, <4>3 DEF PutOriginal, SafetyInv, NewPathIsOwn, AttemptIsPlaced, NewPath
      <4> QED
        BY <4>2, <4>4
    <3> QED
      BY <3>1, <3>2
  <2>2. ASSUME NEW b \in Committed' \ Legacy PROVE globalBooks'[b].pointer # NoFile
    <3>1. CASE b \in Committed
      BY <1>2, <2>2, <3>1, Monotone DEF OriginalIsMinters, SafetyInv
    <3>2. CASE b \notin Committed
      <4>1. PICK w \in Worker : BackfillSet(w) \/ CommitBook(w)
        BY <1>2, <2>2, <3>2, Writers DEF Committed
      <4>2. book[w] \in Book /\ task[w] \in Task
        BY <4>1 DEF BackfillSet, CommitBook, SafetyInv, AttemptIsPlaced, NewPath, Owned
      <4>3. CASE BackfillSet(w)
        BY <2>2, <3>2, <4>2, <4>3 DEF BackfillSet, Committed, SafetyInv, TypeOK
      <4>4. CASE CommitBook(w)
        <5>1. /\ b = book[w]
              /\ globalBooks' = [globalBooks EXCEPT ![book[w]] =
                    [content |-> ContentOf[task[w]], pointer |-> FileOf[task[w]]]]
          BY <2>2, <3>2, <4>2, <4>4 DEF CommitBook, Raise, stores, Committed, SafetyInv, TypeOK
        <5>2. globalBooks'[b] = [content |-> ContentOf[task[w]], pointer |-> FileOf[task[w]]]
          BY <4>2, <5>1 DEF SafetyInv, TypeOK
        <5> QED
          BY <4>2, <5>2, PayloadAssumption, NullsAssumption
      <4> QED
        BY <4>1, <4>3, <4>4
    <3> QED
      BY <3>1, <3>2
  <2> QED
    BY <1>2, <2>1, <2>2, BackfillPlace DEF OriginalIsMinters, Committed
<1> QED
  BY <1>1, <1>2

LEMMA OriginalInvariance == Spec => [](SafetyInv /\ OriginalIsMinters)
BY SafetyInit, SafetyStep, OriginalInit, OriginalStep, PTL DEF Spec

(* The originals bucket holds two objects of one book only if the book is  *)
(* from before originals were persisted, whatever expires, is lost or is   *)
(* run again (the write-through and _backfill_original of worker/ingest).  *)
THEOREM OriginalsOfNewBooks == Spec => []OneOriginalPerBook
<1>1. SafetyInv /\ OriginalIsMinters => OneOriginalPerBook
  BY DEF SafetyInv, TypeOK, OriginalIsMinters, OneOriginalPerBook
<1> QED
  BY <1>1, OriginalInvariance, PTL

-----------------------------------------------------------------------------
(* The pipeline implements the catalog.                                    *)

LEMMA CatalogInit == Init => Shelf!Init
<1> SUFFICES ASSUME Init PROVE Shelf!Init
  OBVIOUS
<1>1. \A b \in Book : Text(globalBooks[b]) =
          IF b \in Legacy THEN LegacyContent[b] ELSE NoRow
  BY NullsAssumption, LegacyAssumption DEF Init, Text
<1>2. {t \in Task : result[t] = "SUCCESS"} = {}
  BY DEF Init
<1> QED
  BY <1>1, <1>2 DEF Init, Shelf!Init

LEMMA CatalogStep == ASSUME SafetyInv, [Next]_vars PROVE [Shelf!Next]_(Shelf!vars)
<1> USE NullsAssumption, PayloadAssumption DEF SafetyInv, TypeOK
<1> DEFINE shelf == [b \in Book |-> Text(globalBooks[b])]
           succeeded == {t \in Task : result[t] = "SUCCESS"}
           Similar == {cd \in Content \X Content : SignaturesMatch(cd[1], cd[2])}
<1>0. ASSUME UNCHANGED <<globalBooks, library>>, succeeded' = succeeded
      PROVE  UNCHANGED Shelf!vars
  BY <1>0 DEF Shelf!vars
(* The catalog's reading of a book that serves a task.                     *)
<1>a. ASSUME NEW b \in Book, NEW t \in Task, Serves(b, t)
      PROVE  /\ b \in Shelf!OnShelf
             /\ shelf[b] = ContentOf[t] \/ <<ContentOf[t], shelf[b]>> \in Similar
  <2>1. globalBooks[b] \in BookRow /\ shelf[b] = globalBooks[b].content
    BY <1>a DEF Serves, Committed, Text
  <2>2. shelf[b] \in Content
    BY <2>1 DEF BookRow
  <2> QED
    BY <1>a, <2>1, <2>2 DEF Serves, Shelf!OnShelf
<1>1. ASSUME NEW w \in Worker, Raise(w) PROVE UNCHANGED Shelf!vars
  <2>1. succeeded' = succeeded
    BY <1>1 DEF Raise, Report
  <2> QED
    BY <1>0, <1>1, <2>1 DEF Raise, stores
<1>2. ASSUME NEW t \in Task, Reseed(t) \/ ForgetResult(t) PROVE Shelf!Forget(t)
  <2>1. succeeded' = succeeded \ {t}
    BY <1>2 DEF Reseed, ForgetResult
  <2> QED
    BY <1>2, <2>1 DEF Reseed, ForgetResult, stores, Shelf!Forget
<1>3. ASSUME NEW t \in Task, CommitUploadRow(t) \/ SendTask(t) PROVE UNCHANGED Shelf!vars
  BY <1>0, <1>3 DEF CommitUploadRow, SendTask, stores, broker
<1>4. ASSUME NEW w \in Worker, Deliver(w) PROVE UNCHANGED Shelf!vars
  <2>1. succeeded' = succeeded
    BY <1>4 DEF Deliver, Report
  <2> QED
    BY <1>0, <1>4, <2>1 DEF Deliver, stores
<1>5. ASSUME NEW w \in Worker, Ack(w) \/ Crash(w) \/ Expire(w) PROVE UNCHANGED Shelf!vars
  BY <1>0, <1>5 DEF Ack, Crash, Expire, stores, broker
<1>6. ASSUME NEW w \in Worker, ReportSuccess(w)
      PROVE  \E t \in Task, b \in Book : Shelf!Confirm(t, b)
  <2>1. PICK t \in Task, b \in Book :
           t = task[w] /\ Serves(b, t) /\ <<UserOf[t], b>> \in library
    BY <1>6, OwnedServes DEF ReportSuccess, Owned
  <2>2. succeeded' = succeeded \cup {t}
    BY <1>6, <2>1 DEF ReportSuccess, Report
  <2>3. UNCHANGED <<globalBooks, library>>
    BY <1>6 DEF ReportSuccess, stores
  <2>4. Shelf!Confirm(t, b)
    BY <1>a, <2>1, <2>2, <2>3 DEF Shelf!Confirm
  <2> QED
    BY <2>4
<1>7. ASSUME NEW w \in Worker, OwnDuplicate(w) \/ OwnClaimed(w) \/ OwnNew(w)
      PROVE  Shelf!Adopt(task[w], book[w]) \/ UNCHANGED Shelf!vars
  <2>1. task[w] \in Task /\ book[w] \in Book /\ Fits(book[w], task[w])
    BY <1>7 DEF OwnDuplicate, OwnClaimed, OwnNew, AttemptIsPlaced, Owning
  <2>2. CASE Raise(w)
    BY <1>1, <2>2
  <2>3. CASE ~ Raise(w)
    <3>1. /\ library' = library \cup {<<UserOf[task[w]], book[w]>>}
          /\ UNCHANGED <<globalBooks, result>> /\ book[w] \in Committed
      BY <1>7, <2>3 DEF OwnDuplicate, OwnClaimed, OwnNew, UpsertLibrary, broker
    <3>2. Serves(book[w], task[w])
      BY <2>1, <3>1, FitServes
    <3> QED
      BY <1>a, <2>1, <3>1, <3>2 DEF Shelf!Adopt
  <2> QED
    BY <2>2, <2>3
<1>8. ASSUME NEW w \in Worker, CommitBook(w)
      PROVE  Shelf!Publish(task[w], book[w]) \/ UNCHANGED Shelf!vars
  <2>1. task[w] \in Task /\ book[w] \in Book
    BY <1>8 DEF CommitBook, AttemptIsPlaced, NewPath
  <2>2. CASE Raise(w)
    BY <1>1, <2>2
  <2>3. CASE ~ Raise(w)
    <3>1. /\ book[w] \notin Committed
          /\ globalBooks' = [globalBooks EXCEPT ![book[w]] =
                [content |-> ContentOf[task[w]], pointer |-> FileOf[task[w]]]]
          /\ UNCHANGED <<library, result>>
      BY <1>8, <2>3 DEF CommitBook, broker
    <3>2. shelf[book[w]] = NoRow
      BY <2>1, <3>1 DEF Committed, Text
    <3>3. shelf' = [shelf EXCEPT ![book[w]] = ContentOf[task[w]]]
      <4>1. Text([content |-> ContentOf[task[w]], pointer |-> FileOf[task[w]]])
              = ContentOf[task[w]]
        BY <2>1 DEF Text
      <4> QED
        BY <2>1, <3>1, <4>1
    <3> QED
      BY <3>1, <3>2, <3>3 DEF Shelf!Publish
  <2> QED
    BY <2>2, <2>3
<1>9. ASSUME NEW w \in Worker, BackfillSet(w) PROVE UNCHANGED Shelf!vars
  <2>1. ASSUME NEW b \in Book PROVE Text(globalBooks'[b]) = Text(globalBooks[b])
    <3>1. CASE b \in Committed
      BY <3>1, Monotone, <1>9 DEF Next, WorkerStep, IngestStep, Committed, Text
    <3>2. CASE b \notin Committed
      BY <1>9, <3>2 DEF BackfillSet, Committed, Text, AttemptIsPlaced, Owned
    <3> QED
      BY <3>1, <3>2
  <2> QED
    BY <1>9, <2>1 DEF BackfillSet, broker, Shelf!vars
<1>10. ASSUME NEW w \in Worker,
              \/ LookupDuplicate(w) \/ ReadPointer(w) \/ BackfillPut(w) \/ ReadClaim(w)
              \/ CheckCommit(w) \/ ScrubVectors(w) \/ MintBook(w) \/ PutOriginal(w)
              \/ InsertVectors(w) \/ AddToIndex(w)
       PROVE  UNCHANGED Shelf!vars
  BY <1>0, <1>1, <1>10
     DEF LookupDuplicate, ReadPointer, BackfillPut, ReadClaim, CheckCommit, ScrubVectors,
         MintBook, PutOriginal, InsertVectors, AddToIndex, PutObject, ReadOnly, stores, broker
<1>11. ASSUME UNCHANGED vars PROVE UNCHANGED Shelf!vars
  BY <1>0, <1>11 DEF vars, stores, broker
<1> DEFINE Good == Shelf!Next \/ UNCHANGED Shelf!vars
<1>12. ASSUME NEW w \in Worker,
              \/ ReportSuccess(w) \/ OwnDuplicate(w) \/ OwnClaimed(w) \/ OwnNew(w)
              \/ CommitBook(w)
       PROVE  Good
  <2>1. task[w] \in Task /\ book[w] \in Book
    BY <1>12 DEF ReportSuccess, OwnDuplicate, OwnClaimed, OwnNew, CommitBook,
       AttemptIsPlaced, Owning, Owned, NewPath
  <2>2. \A t \in Task, b \in Book :
           Shelf!Publish(t, b) \/ Shelf!Adopt(t, b) \/ Shelf!Confirm(t, b) => Good
    BY DEF Shelf!Next
  <2>3. CASE ReportSuccess(w)
    BY <1>6, <2>2, <2>3
  <2>4. CASE OwnDuplicate(w) \/ OwnClaimed(w) \/ OwnNew(w)
    BY <1>7, <2>1, <2>2, <2>4
  <2>5. CASE CommitBook(w)
    BY <1>8, <2>1, <2>2, <2>5
  <2> QED
    BY <1>12, <2>3, <2>4, <2>5
<1>13. ASSUME NEW w \in Worker, IngestStep(w) PROVE Good
  BY <1>9, <1>10, <1>12, <1>13 DEF IngestStep
<1>14. ASSUME NEW t \in Task, Reseed(t) \/ ForgetResult(t) PROVE Good
  BY <1>2, <1>14 DEF Shelf!Next
<1> HIDE DEF Good
<1>15. Good
  BY StepCases, <1>1, <1>3, <1>4, <1>5, <1>11, <1>12, <1>13, <1>14 DEF Fail, Good
<1> QED
  BY <1>15 DEF Good

(* Every behaviour of the pipeline, with every loss, raise, timeout and    *)
(* race, is a behaviour of the catalog.                                    *)
THEOREM PipelineImplementsCatalog == Spec => ImplementsCatalog
BY CatalogInit, CatalogStep, SafetyInvariance, PTL DEF Spec, ImplementsCatalog, Shelf!Spec
=============================================================================
