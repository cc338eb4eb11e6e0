------------------------------- MODULE Ingest -------------------------------
(***************************************************************************)
(* The book ingestion pipeline: worker/ingest.py run as a Celery task      *)
(* (worker/tasks/ingest.py, worker/celery_app.py), the upload route and    *)
(* the seeder that enqueue it (api/uploads.py, worker/scripts/seed_corpus) *)
(* and the per-process dedup index (worker/dedup.py).                      *)
(*                                                                         *)
(* One ingest writes to four stores that share no transaction: Postgres    *)
(* (uploadTasks, globalBooks, library), Milvus (vectors), MinIO (originals)*)
(* and Redis (queue, result).  Every call that touches a store is one      *)
(* action, so a worker may die, raise, or be overtaken between any two.    *)
(***************************************************************************)
EXTENDS Naturals

CONSTANTS
    Task,           \* Celery task ids; one id stands for one (path, user)
    Worker,         \* prefork children, each with its own dedup index
    User, Content, File, Book,
    KindOf,         \* [Task -> {"api", "seed", "manual"}]: who enqueues it
    UserOf,         \* [Task -> User]
    ContentOf,      \* [Task -> Content]: the extracted markdown
    FileOf,         \* [Task -> File]: the sanitized original file name
    Near,           \* pairs of contents at least 0.85 similar
    Short,          \* contents of fewer than five words: an empty signature
    Blank,          \* contents that chunk() splits into no chunk at all
    Legacy,         \* books ingested before originals were persisted
    LegacyContent,  \* [Legacy -> Content]
    Debris,         \* books of which an early ingest left only vectors
    MaxCrashes,     \* bound: worker processes lost in a behaviour
    MaxExpiries,    \* bound: visibility timeouts under a running task
    MaxReseeds,     \* bound: re-runs of the seeder
    ResultsExpire,  \* whether behaviours may outlast result_expires
    NoTask, NoBook, NoRow, NoFile

ASSUME KindsAssumption   == KindOf \in [Task -> {"api", "seed", "manual"}]
ASSUME PayloadAssumption == /\ UserOf \in [Task -> User]
                            /\ ContentOf \in [Task -> Content]
                            /\ FileOf \in [Task -> File]
ASSUME LegacyAssumption  == /\ Legacy \subseteq Book
                            /\ LegacyContent \in [Legacy -> Content]
                            /\ Debris \subseteq Book \ Legacy
ASSUME BoundsAssumption  == /\ {MaxCrashes, MaxExpiries, MaxReseeds} \subseteq Nat
                            /\ ResultsExpire \in BOOLEAN
ASSUME NullsAssumption   == /\ NoTask \notin Task
                            /\ NoBook \notin Book /\ NoRow \notin Book \cup Content
                            /\ NoRow # NoBook
                            /\ NoRow \notin [content : Content,
                                             pointer : File \cup {NoFile}]
                            /\ NoFile \notin File

VARIABLES
    uploadTasks,    \* upload_tasks: no row, or its book_id column (the claim)
    globalBooks,    \* global_books with its chunks: no row, or the row
    library,        \* user_library: <<user, book>> pairs
    vectors,        \* Milvus: how many full vector sets a book has
    originals,      \* MinIO: <<book, file>> object keys
    queue,          \* deliverable copies of a task's message
    sent,           \* tasks whose message was ever published
    result,         \* the Celery result backend
    pc, task, book, \* what each worker is running, and where it stands
    held,           \* the workers whose message the broker counts as unacked
    index, loaded,  \* the in-memory LSH: <<book, content>> pairs, once loaded
    mintedBy,       \* history: the task that drew a uuid4, NoTask if none did
    crashes, expiries, reseeds

stores == <<uploadTasks, globalBooks, library, vectors, originals>>
broker == <<queue, sent, result>>
bounds == <<crashes, expiries, reseeds>>
attempt == <<pc, task, book, held>>
dedupIndex == <<index, loaded>>
vars == <<stores, broker, attempt, dedupIndex, mintedBy, bounds>>

BookRow == [content : Content, pointer : File \cup {NoFile}]
Steps == {"idle", "dedup", "own_dup", "read_pointer", "backfill_put",
          "backfill_set", "read_claim", "check_commit", "own_claimed", "scrub",
          "mint", "put_original", "insert_vectors", "commit_book", "own_new",
          "add_index", "done", "ack"}

Fresh == Book \ (Legacy \cup Debris)      \* the ids a uuid4 may draw
Committed == {b \in Book : globalBooks[b] # NoRow}
Rows == {<<b, globalBooks[b].content>> : b \in Committed}
Running(t) == {w \in Worker : pc[w] # "idle" /\ task[w] = t}

Init ==
    /\ uploadTasks = [t \in Task |-> NoRow]
    /\ globalBooks = [b \in Book |-> IF b \in Legacy
                          THEN [content |-> LegacyContent[b], pointer |-> NoFile]
                          ELSE NoRow]
    /\ library = {}
    /\ vectors = [b \in Book |->
                    IF b \in Debris \/ (b \in Legacy /\ LegacyContent[b] \notin Blank)
                    THEN 1 ELSE 0]
    /\ originals = {}
    /\ queue = [t \in Task |-> 0]
    /\ sent = {}
    /\ result = [t \in Task |-> "PENDING"]
    /\ pc = [w \in Worker |-> "idle"]
    /\ task = [w \in Worker |-> NoTask]
    /\ book = [w \in Worker |-> NoBook]
    /\ held = {}
    /\ index = [w \in Worker |-> {}]
    /\ loaded = {}
    /\ mintedBy = [b \in Book |-> NoTask]
    /\ crashes = 0 /\ expiries = 0 /\ reseeds = 0

-----------------------------------------------------------------------------
(* Enqueueing                                                              *)

(* POST /upload commits the ownership row; the api may die before it sends. *)
CommitUploadRow(t) ==
    /\ KindOf[t] # "manual" /\ uploadTasks[t] = NoRow
    /\ uploadTasks' = [uploadTasks EXCEPT ![t] = NoBook]
    /\ UNCHANGED <<globalBooks, library, vectors, originals, broker, attempt,
                   dedupIndex, mintedBy, bounds>>

(* ... then send_task.  make enqueue publishes without any row.            *)
SendTask(t) ==
    /\ KindOf[t] # "manual" => uploadTasks[t] # NoRow
    /\ t \notin sent
    /\ sent' = sent \cup {t}
    /\ queue' = [queue EXCEPT ![t] = @ + 1]
    /\ UNCHANGED <<stores, result, attempt, dedupIndex, mintedBy, bounds>>

(* Mutant: a re-run starts from a fresh ownership row.                     *)
ReseedFresh(t) ==
    /\ KindOf[t] = "seed" /\ t \in sent
    /\ queue[t] = 0 /\ Running(t) = {}
    /\ reseeds < MaxReseeds
    /\ reseeds' = reseeds + 1
    /\ uploadTasks' = [uploadTasks EXCEPT ![t] = NoBook]
    /\ result' = [result EXCEPT ![t] = "PENDING"]
    /\ queue' = [queue EXCEPT ![t] = 1]
    /\ UNCHANGED <<globalBooks, library, vectors, originals, sent, attempt,
                   dedupIndex, mintedBy, crashes, expiries>>

(* A re-run of the seeder: the derived task id is published again, its old *)
(* result forgotten and its row (with any claim) left as it was.  The      *)
(* operator re-runs it once the worker is idle.                            *)
Reseed(t) ==
    /\ KindOf[t] = "seed" /\ t \in sent
    /\ queue[t] = 0 /\ Running(t) = {}
    /\ reseeds < MaxReseeds
    /\ reseeds' = reseeds + 1
    /\ result' = [result EXCEPT ![t] = "PENDING"]
    /\ queue' = [queue EXCEPT ![t] = 1]
    /\ UNCHANGED <<stores, sent, attempt, dedupIndex, mintedBy, crashes, expiries>>

-----------------------------------------------------------------------------
(* Celery, as the configuration of worker/celery_app.py uses it            *)

(* The result backend ignores any update once a task is SUCCESS.           *)
Report(t, status) ==
    result' = IF result[t] = "SUCCESS" THEN result
              ELSE [result EXCEPT ![t] = status]

Deliver(w) ==
    /\ pc[w] = "idle"
    /\ \E t \in Task :
         /\ queue[t] > 0
         /\ queue' = [queue EXCEPT ![t] = @ - 1]
         /\ task' = [task EXCEPT ![w] = t]
         /\ Report(t, "STARTED")
    /\ pc' = [pc EXCEPT ![w] = "dedup"]
    /\ held' = held \cup {w}
    /\ UNCHANGED <<stores, sent, book, dedupIndex, mintedBy, bounds>>

ReportSuccess(w) ==
    /\ pc[w] = "done"
    /\ Report(task[w], "SUCCESS")
    /\ pc' = [pc EXCEPT ![w] = "ack"]
    /\ UNCHANGED <<stores, queue, sent, task, book, held, dedupIndex, mintedBy,
                   bounds>>

(* Mutant: the exception is swallowed and the task returns.                *)
RaiseSwallowed(w) ==
    /\ Report(task[w], "SUCCESS")
    /\ pc' = [pc EXCEPT ![w] = "ack"]
    /\ UNCHANGED <<stores, queue, sent, task, book, held, dedupIndex, mintedBy,
                   bounds>>

(* An exception leaves the task: FAILURE is stored and the message acked.  *)
Raise(w) ==
    /\ Report(task[w], "FAILURE")
    /\ pc' = [pc EXCEPT ![w] = "ack"]
    /\ UNCHANGED <<stores, queue, sent, task, book, held, dedupIndex, mintedBy,
                   bounds>>

(* Any call of the pipeline may raise: a store, an inference API, the soft *)
(* time limit.                                                             *)
Fail(w) == pc[w] \notin {"idle", "done", "ack"} /\ Raise(w)

Release(w) ==
    /\ pc' = [pc EXCEPT ![w] = "idle"]
    /\ task' = [task EXCEPT ![w] = NoTask]
    /\ book' = [book EXCEPT ![w] = NoBook]
    /\ held' = held \ {w}

(* acks_late: only now does the broker forget the message.                 *)
Ack(w) ==
    /\ pc[w] = "ack"
    /\ Release(w)
    /\ UNCHANGED <<stores, broker, dedupIndex, mintedBy, bounds>>

(* Mutant: without reject_on_worker_lost the message is acked by the loss. *)
CrashLosesMessage(w) ==
    /\ crashes < MaxCrashes
    /\ crashes' = crashes + 1
    /\ Release(w)
    /\ index' = [index EXCEPT ![w] = {}]
    /\ loaded' = loaded \ {w}
    /\ UNCHANGED <<stores, broker, mintedBy, expiries, reseeds>>

(* The process is lost, running or not: an unacked message is requeued     *)
(* (task_reject_on_worker_lost) and the in-memory index goes with it.      *)
Crash(w) ==
    /\ crashes < MaxCrashes
    /\ crashes' = crashes + 1
    /\ queue' = IF w \in held THEN [queue EXCEPT ![task[w]] = @ + 1] ELSE queue
    /\ Release(w)
    /\ index' = [index EXCEPT ![w] = {}]
    /\ loaded' = loaded \ {w}
    /\ UNCHANGED <<stores, sent, result, mintedBy, expiries, reseeds>>

(* visibility_timeout: the broker hands out the message of a task that is  *)
(* still running once more; the running attempt's ack then has no effect.  *)
Expire(w) ==
    /\ w \in held /\ expiries < MaxExpiries
    /\ expiries' = expiries + 1
    /\ queue' = [queue EXCEPT ![task[w]] = @ + 1]
    /\ held' = held \ {w}
    /\ UNCHANGED <<stores, sent, result, pc, task, book, dedupIndex, mintedBy,
                   crashes, reseeds>>

(* result_expires: an hour after it was stored a status is forgotten, and  *)
(* the backend answers PENDING for an id it does not know.                 *)
ForgetResult(t) ==
    /\ ResultsExpire /\ result[t] # "PENDING"
    /\ result' = [result EXCEPT ![t] = "PENDING"]
    /\ UNCHANGED <<stores, queue, sent, attempt, dedupIndex, mintedBy, bounds>>

-----------------------------------------------------------------------------
(* ingest_markdown                                                         *)

Goto(w, step) == pc' = [pc EXCEPT ![w] = step]

(* What the process's index holds when it is asked: it reads global_books  *)
(* on first use and never again.                                           *)
EnsureLoaded(w) == IF w \in loaded THEN index[w] ELSE Rows

(* Two signatures that never took a shingle are one and the same array.    *)
SignaturesMatch(c, d) == <<c, d>> \in Near \/ {c, d} \subseteq Short

FindDuplicate(w) ==
    {b \in Book : \E c \in Content : /\ <<b, c>> \in EnsureLoaded(w)
                                     /\ SignaturesMatch(ContentOf[task[w]], c)}

LookupDuplicate(w) ==
    /\ pc[w] = "dedup"
    /\ index' = [index EXCEPT ![w] = EnsureLoaded(w)]
    /\ loaded' = loaded \cup {w}
    /\ \/ /\ FindDuplicate(w) = {}
          /\ Goto(w, "read_claim") /\ book' = book
       \/ \E b \in FindDuplicate(w) :
            /\ book' = [book EXCEPT ![w] = b]
            /\ Goto(w, "own_dup")
    /\ UNCHANGED <<stores, broker, task, held, mintedBy, bounds>>

(* INSERT INTO user_library ... ON CONFLICT DO NOTHING, under the foreign  *)
(* key on global_books.                                                    *)
UpsertLibrary(w, next) ==
    IF book[w] \in Committed
    THEN /\ library' = library \cup {<<UserOf[task[w]], book[w]>>}
         /\ Goto(w, next)
         /\ UNCHANGED <<uploadTasks, globalBooks, vectors, originals, broker,
                        task, book, held, dedupIndex, mintedBy, bounds>>
    ELSE Raise(w)

OwnDuplicate(w) == pc[w] = "own_dup" /\ UpsertLibrary(w, "read_pointer")
OwnClaimed(w) == pc[w] = "own_claimed" /\ UpsertLibrary(w, "done")
OwnNew(w) == pc[w] = "own_new" /\ UpsertLibrary(w, "add_index")

(* A step that only reads the stores.                                      *)
ReadOnly == UNCHANGED <<stores, broker, task, held, dedupIndex, mintedBy, bounds>>

(* Mutant: every duplicate hit stores its own bytes.                       *)
ReadPointerAlwaysPuts(w) ==
    /\ pc[w] = "read_pointer"
    /\ Goto(w, "backfill_put")
    /\ ReadOnly /\ UNCHANGED book

ReadPointer(w) ==
    /\ pc[w] = "read_pointer"
    /\ Goto(w, IF book[w] \in Committed /\ globalBooks[book[w]].pointer = NoFile
               THEN "backfill_put" ELSE "done")
    /\ ReadOnly /\ UNCHANGED book

(* Mutant: a failed upload is logged and the task goes on.                 *)
PutObjectOrLog(w, next) ==
    /\ originals' \in {originals, originals \cup {<<book[w], FileOf[task[w]]>>}}
    /\ Goto(w, next)
    /\ UNCHANGED <<uploadTasks, globalBooks, library, vectors, broker, task, book,
                   held, dedupIndex, mintedBy, bounds>>

PutObject(w, next) ==
    /\ originals' = originals \cup {<<book[w], FileOf[task[w]]>>}
    /\ Goto(w, next)
    /\ UNCHANGED <<uploadTasks, globalBooks, library, vectors, broker, task, book,
                   held, dedupIndex, mintedBy, bounds>>

BackfillPut(w) == pc[w] = "backfill_put" /\ PutObject(w, "backfill_set")

(* Mutant: the update has no WHERE text_pointer IS NULL.                   *)
BackfillSetAlways(w) ==
    /\ pc[w] = "backfill_set"
    /\ globalBooks' = IF book[w] \in Committed
                      THEN [globalBooks EXCEPT ![book[w]].pointer = FileOf[task[w]]]
                      ELSE globalBooks
    /\ Goto(w, "done")
    /\ UNCHANGED <<uploadTasks, library, vectors, originals, broker, task, book,
                   held, dedupIndex, mintedBy, bounds>>

(* UPDATE global_books ... WHERE text_pointer IS NULL                      *)
BackfillSet(w) ==
    /\ pc[w] = "backfill_set"
    /\ globalBooks' =
         IF book[w] \in Committed /\ globalBooks[book[w]].pointer = NoFile
         THEN [globalBooks EXCEPT ![book[w]].pointer = FileOf[task[w]]]
         ELSE globalBooks
    /\ Goto(w, "done")
    /\ UNCHANGED <<uploadTasks, library, vectors, originals, broker, task, book,
                   held, dedupIndex, mintedBy, bounds>>

ReadClaim(w) ==
    /\ pc[w] = "read_claim"
    /\ IF uploadTasks[task[w]] \in Book
       THEN Goto(w, "check_commit") /\ book' = [book EXCEPT ![w] = uploadTasks[task[w]]]
       ELSE Goto(w, "mint") /\ UNCHANGED book
    /\ ReadOnly

(* Mutant: a claim whose book is committed counts as done.                 *)
CheckCommitStops(w) ==
    /\ pc[w] = "check_commit"
    /\ Goto(w, IF book[w] \in Committed THEN "done" ELSE "scrub")
    /\ ReadOnly /\ UNCHANGED book

(* Mutant: a claim is always taken for that of a dead attempt.             *)
CheckCommitAlwaysScrubs(w) ==
    /\ pc[w] = "check_commit"
    /\ Goto(w, "scrub")
    /\ ReadOnly /\ UNCHANGED book

CheckCommit(w) ==
    /\ pc[w] = "check_commit"
    /\ Goto(w, IF book[w] \in Committed THEN "own_claimed" ELSE "scrub")
    /\ ReadOnly /\ UNCHANGED book

ScrubVectors(w) ==
    /\ pc[w] = "scrub"
    /\ vectors' = [vectors EXCEPT ![book[w]] = 0]
    /\ Goto(w, "put_original")
    /\ UNCHANGED <<uploadTasks, globalBooks, library, originals, broker, task, book,
                   held, dedupIndex, mintedBy, bounds>>

(* uuid4, then UPDATE upload_tasks SET book_id ... WHERE book_id IS NULL:  *)
(* no row, or a claim already there, and the update changes nothing.       *)
MintBook(w) ==
    /\ pc[w] = "mint"
    /\ \E b \in Fresh :
         /\ mintedBy[b] = NoTask
         /\ mintedBy' = [mintedBy EXCEPT ![b] = task[w]]
         /\ book' = [book EXCEPT ![w] = b]
         /\ uploadTasks' = IF uploadTasks[task[w]] = NoBook
                           THEN [uploadTasks EXCEPT ![task[w]] = b] ELSE uploadTasks
    /\ Goto(w, "put_original")
    /\ UNCHANGED <<globalBooks, library, vectors, originals, broker, task, held,
                   dedupIndex, bounds>>

PutOriginal(w) == pc[w] = "put_original" /\ PutObject(w, "insert_vectors")

(* chunk, embed, then insert + flush; nothing to insert without chunks.    *)
InsertVectors(w) ==
    /\ pc[w] = "insert_vectors"
    /\ vectors' = IF ContentOf[task[w]] \in Blank THEN vectors
                  ELSE [vectors EXCEPT ![book[w]] = @ + 1]
    /\ Goto(w, "commit_book")
    /\ UNCHANGED <<uploadTasks, globalBooks, library, originals, broker, task, book,
                   held, dedupIndex, mintedBy, bounds>>

(* Mutant: the new book is reported before the user owns it.               *)
CommitBookUnowned(w) ==
    /\ pc[w] = "commit_book"
    /\ IF book[w] \in Committed THEN Raise(w)
       ELSE /\ globalBooks' = [globalBooks EXCEPT ![book[w]] =
                  [content |-> ContentOf[task[w]], pointer |-> FileOf[task[w]]]]
            /\ Goto(w, "add_index")
            /\ UNCHANGED <<uploadTasks, library, vectors, originals, broker, task,
                           book, held, dedupIndex, mintedBy, bounds>>

(* global_books and chunks in one transaction; the primary key rejects a   *)
(* second commit of the same book.                                         *)
CommitBook(w) ==
    /\ pc[w] = "commit_book"
    /\ IF book[w] \in Committed THEN Raise(w)
       ELSE /\ globalBooks' = [globalBooks EXCEPT ![book[w]] =
                  [content |-> ContentOf[task[w]], pointer |-> FileOf[task[w]]]]
            /\ Goto(w, "own_new")
            /\ UNCHANGED <<uploadTasks, library, vectors, originals, broker, task,
                           book, held, dedupIndex, mintedBy, bounds>>

(* MinHashLSH.insert raises on a key it already holds.                     *)
AddToIndex(w) ==
    /\ pc[w] = "add_index"
    /\ IF \E c \in Content : <<book[w], c>> \in index[w] THEN Raise(w)
       ELSE /\ index' = [index EXCEPT ![w] = @ \cup {<<book[w], ContentOf[task[w]]>>}]
            /\ Goto(w, "done")
            /\ UNCHANGED <<stores, broker, task, book, held, loaded, mintedBy, bounds>>

-----------------------------------------------------------------------------
IngestStep(w) ==
    \/ LookupDuplicate(w) \/ OwnDuplicate(w) \/ ReadPointer(w)
    \/ BackfillPut(w) \/ BackfillSet(w)
    \/ ReadClaim(w) \/ CheckCommit(w) \/ OwnClaimed(w) \/ ScrubVectors(w)
    \/ MintBook(w) \/ PutOriginal(w) \/ InsertVectors(w) \/ CommitBook(w)
    \/ OwnNew(w) \/ AddToIndex(w)

WorkerStep(w) == Deliver(w) \/ IngestStep(w) \/ ReportSuccess(w) \/ Ack(w)

Enqueue(t) == CommitUploadRow(t) \/ SendTask(t) \/ Reseed(t)

Next ==
    \/ \E t \in Task : Enqueue(t) \/ ForgetResult(t)
    \/ \E w \in Worker : WorkerStep(w) \/ Fail(w) \/ Crash(w) \/ Expire(w)

(* A live worker process keeps consuming and keeps executing its task;     *)
(* nobody is obliged to upload, and nothing is obliged to go wrong.        *)
Fairness == \A w \in Worker : WF_vars(WorkerStep(w))

Spec == Init /\ [][Next]_vars
FairSpec == Spec /\ Fairness

-----------------------------------------------------------------------------
(* Properties                                                              *)

TypeOK ==
    /\ uploadTasks \in [Task -> {NoRow, NoBook} \cup Book]
    /\ globalBooks \in [Book -> {NoRow} \cup BookRow]
    /\ library \subseteq User \X Book
    /\ vectors \in [Book -> Nat]
    /\ originals \subseteq Book \X File
    /\ queue \in [Task -> Nat]
    /\ sent \subseteq Task
    /\ result \in [Task -> {"PENDING", "STARTED", "SUCCESS", "FAILURE"}]
    /\ pc \in [Worker -> Steps]
    /\ task \in [Worker -> Task \cup {NoTask}]
    /\ book \in [Worker -> Book \cup {NoBook}]
    /\ held \subseteq Worker
    /\ index \in [Worker -> SUBSET (Book \X Content)]
    /\ loaded \subseteq Worker
    /\ mintedBy \in [Book -> Task \cup {NoTask}]
    /\ crashes \in Nat /\ expiries \in Nat /\ reseeds \in Nat

(* A committed book that carries the uploaded content, or one the dedup    *)
(* gate takes for the same.                                                *)
Serves(b, t) ==
    /\ b \in Committed
    /\ \/ globalBooks[b].content = ContentOf[t]
       \/ SignaturesMatch(ContentOf[t], globalBooks[b].content)

(* A task the user sees as SUCCESS has put a book with that content in the *)
(* user's library, whichever attempt of however many reported it.          *)
SuccessMeansOwned ==
    \A t \in Task : result[t] = "SUCCESS" =>
        \E b \in Book : <<UserOf[t], b>> \in library /\ Serves(b, t)

(* A book in somebody's library carries a text similar to one they         *)
(* uploaded: a document too short for a signature matches nothing.  It     *)
(* does not hold if two texts are short (README, section 10).              *)
OwnsOnlySimilarTexts ==
    \A u \in User, b \in Committed : <<u, b>> \in library =>
        \E t \in Task : /\ UserOf[t] = u
                        /\ \/ globalBooks[b].content = ContentOf[t]
                           \/ <<ContentOf[t], globalBooks[b].content>> \in Near

(* "never commit a text_pointer whose object doesn't exist".               *)
NoDanglingPointer ==
    \A b \in Committed : globalBooks[b].pointer # NoFile =>
        <<b, globalBooks[b].pointer>> \in originals

(* Every committed book with chunks has its vectors, once: none are lost   *)
(* to a scrub, none doubled by a re-run.                                   *)
ExactlyOneVectorSet ==
    \A b \in Committed :
        vectors[b] = IF globalBooks[b].content \in Blank THEN 0 ELSE 1

(* A task with a claim row draws one book id, however often it is          *)
(* redelivered or re-run.                                                  *)
OneBookPerTask ==
    \A b1, b2 \in Book :
        (mintedBy[b1] = mintedBy[b2] /\ mintedBy[b1] # NoTask
            /\ KindOf[mintedBy[b1]] # "manual") => b1 = b2

(* The originals bucket never holds two objects for one book, but of a     *)
(* book from before originals were persisted: two backfills of it that     *)
(* both found no pointer each put their own (README, section 10).          *)
OneOriginalPerBook ==
    \A o1, o2 \in originals : (o1[1] = o2[1] /\ o1[1] \notin Legacy) => o1 = o2

(* "never writes a second object for the same book" (worker/ingest.py, of  *)
(* the backfill): it does not hold of two duplicate hits at once.          *)
BackfillWritesOneObject ==
    \A o1, o2 \in originals : o1[1] = o2[1] => o1 = o2

(* Once a task has succeeded and no copy of it is left, its claim names a  *)
(* committed book or nothing at all: zero orphans.  It does not hold if a  *)
(* rival commits between two attempts (README, section 10).                *)
NoOrphanAfterSuccess ==
    \A t \in Task :
        (/\ result[t] = "SUCCESS" /\ queue[t] = 0 /\ Running(t) = {}
         /\ uploadTasks[t] \in Book /\ uploadTasks[t] \notin Committed)
            => vectors[uploadTasks[t]] = 0

(* The dedup gate: content that matches an existing global_books row is    *)
(* never chunked and embedded again.  It does not hold of a worker whose   *)
(* index was loaded before the row (README, section 10).                   *)
KnownContentIsNotIngested ==
    [][\A w \in Worker :
         (pc[w] = "dedup" /\ pc'[w] = "read_claim") =>
             \A b \in Committed :
                 ~SignaturesMatch(ContentOf[task[w]], globalBooks[b].content)]_vars

(* The key of a committed book's original, once set, is never replaced:    *)
(* whoever was handed it may keep using it.                                *)
PointerIsNeverReplaced ==
    [][\A b \in Committed : globalBooks[b].pointer # NoFile =>
         b \in Committed' /\ globalBooks'[b].pointer = globalBooks[b].pointer]_globalBooks

(* Every published message leads to a terminal status: the upload page     *)
(* stops polling.                                                          *)
EveryTaskSettles ==
    \A t \in Task : queue[t] > 0 ~> result[t] \in {"SUCCESS", "FAILURE"}

-----------------------------------------------------------------------------
(* The pipeline implements the shelf the rest of the system relies on.     *)

Text(row) == IF row = NoRow THEN NoRow ELSE row.content

Shelf == INSTANCE Catalog WITH
    SameText <- {cd \in Content \X Content : SignaturesMatch(cd[1], cd[2])},
    NoText <- NoRow,
    InitialShelf <- [b \in Book |-> IF b \in Legacy THEN LegacyContent[b] ELSE NoRow],
    shelf <- [b \in Book |-> Text(globalBooks[b])],
    succeeded <- {t \in Task : result[t] = "SUCCESS"}

(* Every step of every store, process and message is one shelf step or     *)
(* none that a reader could see.                                           *)
ImplementsCatalog == Shelf!Spec

-----------------------------------------------------------------------------
(* What every state satisfies, strong enough to be preserved by each step: *)
(* the first group whatever happens, the second while no visibility        *)
(* timeout fires, so that a task never runs twice at a time.               *)

NewPath == {"check_commit", "own_claimed", "scrub", "put_original",
            "insert_vectors", "commit_book", "own_new", "add_index"}
Owning == {"own_dup", "own_claimed", "own_new"}
Owned == {"read_pointer", "backfill_put", "backfill_set", "add_index", "done"}
Unpublished == {"scrub", "put_original", "insert_vectors", "commit_book"}

(* The text a book has whenever it has a row: that of before the pipeline, *)
(* or that of the task that drew its id.                                   *)
TextIs(b, c) ==
    IF b \in Legacy THEN c = LegacyContent[b]
    ELSE mintedBy[b] \in Task /\ c = ContentOf[mintedBy[b]]

OnlyFreshIsMinted == \A b \in Book \ Fresh : mintedBy[b] = NoTask
TextIsKept == \A row \in Rows : TextIs(row[1], row[2])
IndexIsTrue == \A w \in Worker : \A row \in index[w] : TextIs(row[1], row[2])

(* Whoever holds a book id for a task drew it for that task.               *)
ClaimIsOwn == \A t \in Task : uploadTasks[t] \in Book => mintedBy[uploadTasks[t]] = t
NewPathIsOwn == \A w \in Worker : pc[w] \in NewPath => mintedBy[book[w]] = task[w]

(* The foreign key of user_library.                                        *)
LibraryIsCommitted == \A owned \in library : owned[2] \in Committed

Fits(b, t) == \E c \in Content : /\ TextIs(b, c)
                                 /\ c = ContentOf[t] \/ SignaturesMatch(ContentOf[t], c)

AttemptIsPlaced ==
    \A w \in Worker :
        /\ w \in held => pc[w] # "idle"
        /\ pc[w] # "idle" => task[w] \in Task
        /\ pc[w] \in NewPath \cup Owning \cup Owned => book[w] \in Book
        /\ pc[w] \in Owning \cup Owned => Fits(book[w], task[w])
        /\ pc[w] \in Owned => <<UserOf[task[w]], book[w]>> \in library

(* The object is in its bucket before the row that points to it.           *)
ObjectFirst ==
    \A w \in Worker : pc[w] \in {"backfill_set", "insert_vectors", "commit_book"} =>
        <<book[w], FileOf[task[w]]>> \in originals

SafetyInv == /\ TypeOK /\ OnlyFreshIsMinted /\ TextIsKept /\ IndexIsTrue
             /\ ClaimIsOwn /\ NewPathIsOwn /\ LibraryIsCommitted /\ AttemptIsPlaced
             /\ ObjectFirst /\ NoDanglingPointer /\ SuccessMeansOwned

SingleCopy ==
    /\ \A w \in Worker : pc[w] # "idle" <=> w \in held
    /\ \A t \in Task : queue[t] \in {0, 1}
    /\ \A w \in Worker : pc[w] # "idle" => task[w] \in sent /\ queue[task[w]] = 0
    /\ \A w1, w2 \in Worker : (pc[w1] # "idle" /\ pc[w2] # "idle"
                                /\ task[w1] = task[w2]) => w1 = w2
    /\ \A t \in Task : t \notin sent => queue[t] = 0
    /\ \A t \in sent : KindOf[t] = "manual" \/ uploadTasks[t] # NoRow

MintIsClaimed ==
    /\ \A b \in Book : (mintedBy[b] \in Task /\ KindOf[mintedBy[b]] # "manual")
                          => uploadTasks[mintedBy[b]] = b
    /\ \A w \in Worker : pc[w] = "mint" => uploadTasks[task[w]] \in {NoRow, NoBook}

Expected(c) == IF c \in Blank THEN 0 ELSE 1

VectorsInStep ==
    /\ \A b \in Fresh : mintedBy[b] = NoTask => vectors[b] = 0
    /\ \A w \in Worker :
          /\ pc[w] \in Unpublished => book[w] \notin Committed
          /\ pc[w] \in {"put_original", "insert_vectors"} => vectors[book[w]] = 0
          /\ pc[w] = "commit_book" =>
                 vectors[book[w]] = Expected(ContentOf[task[w]])

SingleRunInv == /\ expiries = 0 /\ SingleCopy /\ MintIsClaimed /\ VectorsInStep
                /\ ExactlyOneVectorSet
=============================================================================
