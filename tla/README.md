# sermon.guide in TLA+

A verification development kept beside the code of sermon.guide: TLA+ modules
that model the parts of the program whose correctness depends on order,
failure and concurrency, the TLC configurations that model-check them on small
instances, and theorems about them whose proofs TLAPS checks for every value of
the constants. Paths below are relative to the repository (`src/` in
`PROJECT.json`).

Run from this directory:

    tlc -workers 2 -config MCIngest_crash.cfg MCIngest     # any run of the tables below
    tlapm Ingest_proofs.tla                                # proofs, of one module; any *_proofs likewise

`PROJECT.json` lists the components, the runs, the mutant of each checked
property, the source lines behind each definition, the hazards and the theorems.

## 1. The system

sermon.guide lets a pastor upload books, searches them, and offers a sermon
editor. A FastAPI application (`api/`) and a Next.js front end (`web/`) serve the
user; Celery workers (`worker/`) ingest books; an operator runs scripts
(`worker/scripts/`). Four stores keep the state and share no transaction:
Postgres, Milvus (vectors), MinIO (original files) and Redis (Celery's broker and
result backend, and the rate limiter's counters).

| part | code | state it keeps | operations | talks to |
|---|---|---|---|---|
| ingestion pipeline | `worker/ingest.py`, `worker/tasks/ingest.py`, `worker/celery_app.py` | rows of `global_books`, `chunks`, `user_library`; the claim `upload_tasks.book_id`; vectors; objects | `ingest_markdown` under redelivery | all four stores, the dedup index, the inference API |
| dedup index | `worker/dedup.py` | one in-memory LSH per worker process | load once, look up, insert | `global_books` |
| upload route, seeder, manual enqueue | `api/uploads.py`, `worker/scripts/seed_corpus.py`, `enqueue_ingest.py` | `upload_tasks` rows, messages | upload, poll, re-seed | Postgres, Redis |
| orphan sweep | `worker/scripts/sweep_orphans.py` | none of its own | inventory, re-check, delete | Postgres, Milvus, beside running workers |
| sermon documents | `api/documents.py` | `documents`, `sermon_doc_revisions` | create, PATCH with a base timestamp, soft delete, restore, import, export | Postgres; editor client; Drive links |
| editor autosave | `web/components/SermonEditor.tsx`, `web/lib/sermon-autosave.ts` | a dirty buffer, a debounce timer, the base timestamp | debounce, trailing save, pagehide flush, conflict, lock | documents and link routes |
| Google Docs links | `api/editor_links.py`, `api/drive_client.py` | `editor_links` rows, a remote file | link, status, pull, unlink | documents, OAuth tokens, Drive |
| OAuth connections | `api/integrations.py`, `api/crypto_vault.py` | encrypted tokens, PKCE state | start, callback, refresh, revoke | Google, Drive client |
| collections, calendar, search history | `api/collections_routes.py`, `calendar_routes.py`, `search_history.py` | membership rows, events, recent queries | CRUD under ownership clamps | Postgres |
| rate limiter | `api/ratelimit.py` | Redis counters with expiry | hit, fail open | Redis |
| retrieval, rerank, summary, citations | `worker/retrieval.py`, `api/search.py`, `rerank.py`, `highlight.py`, `summary.py` | none | filter by library, fuse, rerank, resolve markers | Milvus, Postgres, inference |
| reader | `api/reader.py`, `web/lib/reader-view.ts` | positions | windows of chunks, last write wins | Postgres |
| inference client | `worker/inference.py` | none | retry ladder, truncation ladder | remote models |
| chunking, conversion | `worker/chunking.py`, `convert.py`, `extractors/` | none | pure functions | external converters |
| auth, library listing, health, schema, deployment, page proxies | see `PROJECT.json` | none with a protocol | read-only, stateless or configuration | |

How they interact where it matters: an upload commits an `upload_tasks` row,
then publishes a message; a worker takes it, and its ingest reads and writes
Postgres, Milvus and MinIO in a fixed order, each call in a transaction of its
own; the page polls the result backend; the sweep looks at what earlier ingests
left and deletes from Milvus and Postgres while other ingests run. Documents are
written by the editor's autosave, by imports and by pulls from Drive, each a
read, some slow work and a write in a READ COMMITTED session without locks.

What is hard:

* **crashes and redelivery**: `task_acks_late` and `task_reject_on_worker_lost`
  run an interrupted ingest again from the top; `visibility_timeout` is shorter
  than a long ingest, so the second run may overlap the first;
* **no transaction across stores**: every order of "object, vectors, row,
  ownership" leaves some debris when it stops halfway;
* **stale snapshots**: the LSH index of each process, the sweep's inventory;
* **check-then-act** across awaits: the backfill's pointer, the sweep's landed
  check, a PATCH's base timestamp, an import's snapshot;
* **statuses and timers** seen by a browser: terminal statuses, debounce,
  pagehide;
* **token refresh and revocation** racing requests that use the token.

What makes each part correct, in the words later turned into properties:

* pipeline: success implies ownership of a matching book; a committed pointer
  names an object; a committed book has its vectors exactly once; a claimed task
  mints one book; a set pointer stays; each published task settles;
* index: content already on the shelf is not embedded again; only similar texts
  are shared;
* sweep: nothing a user can reach is removed; debris does not survive a quiet
  run;
* documents: no accepted save is silently overwritten; the state before an
  overwrite is in a revision; a deleted document does not change;
* editor: what was typed is eventually saved, or the user is told; the tab's idea
  of what the server holds is a version the server holds;
* links and connections: a status that says "unchanged" misses no edit of the
  Doc; at most one link is live; a Doc is deleted only after its text was
  stored; a disconnect is final, and tokens stay with their grant;
* collections: a membership names a collection there is and a book the user owns;
* retrieval: no result outside the searcher's library and scope, whatever changes
  while the scope is resolved; an answer says which arm it is without; fusion,
  slicing and citation resolution agree with their definitions;
* search history and panel: a save displaces only what is old enough; the tab
  shows the answer to its user's latest wish;
* calendar and reader: what a tab at rest shows is what the server has; the
  reader's window is a gapless run; a position taken for saved is saved.

## 2. Modules

| module | models | state |
|---|---|---|
| `Ingest` | the pipeline, its enqueuers, Celery as configured, the dedup index | see section 3 |
| `Catalog` | the abstract shelf: what the pipeline promises to the routes | `shelf`, `library`, `succeeded` |
| `Ingest_proofs` | theorems about `Ingest` and its refinement of `Catalog` | |
| `Sweep` | `sweep_orphans.py --execute`, composed with `Ingest` | the script's position, facts and plan |
| `Sweep_proofs` | theorems about `Sweep` and its refinement of `Catalog`; extends `Ingest_proofs` | |
| `Documents` | one sermon document under concurrent requests of `api/documents.py` | the row, its revisions, each request's place and answer |
| `Editor` | one tab of the sermon editor, composed with `Documents` | buffer, baseline, token, flight, timer, lock, awaited calls |
| `Editor_proofs` | theorems about `Documents`, about `Editor` and its refinement of `Documents` | |
| `Connections` | consent, callback, token refresh and disconnect of one Google connection | the row, Redis verifiers, Google's grants, each call |
| `Links` | link, status, pull and unlink of one document, composed with `Connections` | content, revisions, the Docs, the `editor_links` rows, each request |
| `Links_proofs` | theorems about `Links` and `Connections` | |
| `Collections` | every route of one user's collections, statement by statement | library, collections, memberships, each command |
| `MilvusClient` | the process-wide Milvus client shared by the dense arm's threads | the published client, each thread |
| `Search` | a summary request from scope to answer, its history and the panel, composed with the two above | each request, `search_history`, the panel |
| `Search_proofs` | theorems about `Search` and what it extends | |
| `Calendar` | the events and one tab of the calendar | rows, what is shown, calls, popover |
| `Reader` | one tab of the reader over its routes | window, edges, position, calls |
| `Views_proofs` | theorems about `Calendar` and `Reader`, lemmas about the merges of the reader | |
| `Lists` | the three operators on lists that the algorithms share | none |
| `Dates`, `Citations`, `Retrieval`, `Chunking`, `Inference` | pure algorithms as operators | none |
| `Algorithms_proofs` | induction and recursion; theorems about `Dates`, `Chunking` and the vectors of `Inference` | |
| `Retrieval_proofs` | theorems about `Retrieval`, `Citations` and the scores of `Inference`; extends `Algorithms_proofs` | |
| `MCIngest`, `MCSweep`, `MCDocuments`, `MCEditor`, `MCLinks`, `MCSearch`, `MCViews`, `MCAlgorithms` | the constants of the instances; the last three also put several trials into one run | |

How they are composed: `Sweep` extends `Ingest`, `Editor` extends `Documents`,
`Links` extends `Connections`, `Search` extends `Collections` and `MilvusClient`,
and `Ingest` and `Sweep` are checked against `Catalog` by a refinement mapping.
`Calendar` and `Reader` share nothing and are checked side by side. No module
has a RECURSIVE operator; the algorithms use recursive functions, and what they
compute for every input is proved by an induction over sets (section 12).

What is left of the plan, in order:

1. A theorem about the chips of a summary (`EveryCitationHasItsChip`), for the labels
   without a comma, for which the web finds what the api cites (section 10).
2. The scope columns of a document and their clamps, in `Documents`.
3. The flags of a failed reranker or highlighter in `Search`, the rate limiter, and
   `createDraftForDate` in `Calendar`.

## 3. `Ingest`: state and actions

| variable | code |
|---|---|
| `uploadTasks[t]` | the `upload_tasks` row of task `t`: `NoRow`, or its `book_id` (`NoBook` while NULL) |
| `globalBooks[b]` | the `global_books` row: which text, which `text_pointer`. Its chunks are inserted in the same transaction, so they need no variable: a book has chunks exactly if it has a row and its text is not `Blank` |
| `library` | `user_library` rows |
| `vectors[b]` | how many complete vector sets Milvus holds for `b` (an insert does not deduplicate) |
| `originals` | object keys `<book id>/<file>` in the bucket |
| `queue[t]`, `held`, `sent` | deliverable copies of `t`'s message; the workers whose message the broker counts as unacked; tasks ever published |
| `result[t]` | the Celery result backend; an unknown id reads PENDING |
| `pc`, `task`, `book` | where each worker process stands in `ingest_markdown`, and its locals |
| `index`, `loaded` | the process's LSH and whether it has been built |
| `mintedBy` | history only: which task drew a book id |

One action stands for one call that touches a store. `LookupDuplicate` is
`find_duplicate` with the lazy load; `OwnDuplicate`, `ReadPointer`,
`BackfillPut`, `BackfillSet` are the duplicate path; `ReadClaim`, `CheckCommit`,
`OwnClaimed`, `ScrubVectors` the resume path of a claimed task; `MintBook`
(uuid4 and the conditional claim UPDATE), `PutOriginal`, `InsertVectors` (chunk,
embed, insert, flush), `CommitBook`, `OwnNew`, `AddToIndex` the new-book path.
`Fail` lets any call raise, which stores FAILURE and acks. `Crash` loses a
process between any two calls, idle or not: its unacked message is requeued and
its index gone. `Expire` is the broker's visibility timeout. `ForgetResult` is
`result_expires`. `CommitUploadRow` and `SendTask` are the two halves of the
upload route (the api may stop between them), `Reseed` a re-run of the seeder
under its derived task id, and a task of kind `manual` is `make enqueue`, a
message without a row.

Abstractions. A text is a member of `Content`; similarity at the 0.85 threshold
is the constant relation `Near`, with one thing kept from the implementation: the
signature of a text too short for a single shingle is the same array for all such
texts (`Short`). A text without chunks is in `Blank`. Uploaded bytes, metadata and
chunk contents never decide a branch of the pipeline and are left out; the file
name is kept because it is the pointer. Partial Milvus inserts are a whole set or
none: every reader scrubs or counts by book id, so a part behaves like a whole.
`Legacy` books were ingested before originals were kept and have no pointer;
`Debris` are ids of which an early ingest left vectors only (the sweep exists for
them). MinIO, Milvus, Celery and datasketch are modelled from how the code uses
them and marked external in the map.

`Catalog` knows nothing of attempts: a text is published whole, a user adopts a
published book with a matching text, success is confirmed only to an owner, a
book that somebody owns never leaves. `Ingest!ImplementsCatalog` maps
`globalBooks` to its text, `library` to itself and the SUCCESS results to
`succeeded`; the sweep is checked against the same specification, where it needs
`Withdraw`.

## 4. `Sweep`

The script reads Milvus, then `global_books`, `chunks`, `user_library` and
`upload_tasks`, one statement after another; then it classifies, re-checks each
candidate, and deletes. Each statement is an action, and `PipelineStep` (a step of
`Ingest`) may come between any two. `facts` holds what each select returned,
`orphans` and `empties` the plan, `skipped` the claimed candidates left alone;
`quiet` is history: no pipeline step since the scan began. `Interrupt` ends the
script anywhere. Dry runs change nothing and are left out.

## 5. `Documents`

| variable | code |
|---|---|
| `doc` | the `documents` row: its columns, `updated_at`, and whether `deleted_at` is NULL |
| `revisions` | `sermon_doc_revisions` rows: which request inserted them, and the content |
| `req[r]` | one HTTP request: route, base, change, the statement it is at, the row it read, its answer |
| `stored[s]` | history: the columns as of each value of `updated_at` |
| `overlap[r]` | history: writes committed since `r` passed its gate |

A request is a sequence of statements in one READ COMMITTED session, and each
statement is an action: `GatePatch` (`_require_owned_document` and the 409 check),
`CommitPatch`; `GateImport`, `Convert` (pandoc), `CommitImport` (snapshot, UPDATE,
commit); `Delete`; `RestoreRead`, `RestoreWrite`, `RestoreRefresh`; `Get`. Any
request may fail at any of them. An UPDATE keeps other writers of the row out until
its commit, so the two are one action. The api runs two replicas, so that requests do
interleave between the gate and the UPDATE, a window of seconds in an import.

`updated_at` is the start of the writing transaction and is only ever compared for
equality; it is modelled as the name of that request. Two transactions that start
in the same microsecond are therefore told apart here. Creation is the initial
state, listing and export only read, another user's requests match no row. The
scope columns, which are clamped to what the user owns, are left out.

## 6. `Editor`

One tab of `web/components/SermonEditor.tsx`. JavaScript runs to completion, so an
action is an event handler, a timer, or the continuation of a fetch together with
what its `finally` does. `lastSaved`, `base`, `inFlight`, `pending`, `conflicted` and
`status` are the component's refs and state of the same names; `waiting` are the
calls whose continuation has not run, and a call itself is a request of
`Documents`. `runSave` is the save loop as an operator on the state its handler has
just set, used by the timer (`FireTimer`) and by the trailing save (`Settle`).
`SaveIsLost` is a fetch that rejects, before or after the server acted.
`Adopt` is what reload and import do with an answer; `Leave` is pagehide or unmount
with its keepalive flush, `Return` the next opening of the page. Requests outside
`Mine` are another device's (`Elsewhere`).

Two things the model keeps because the code's behaviour depends on them. The dirty
check compares `JSON.stringify` of the buffer with that of `lastSaved`; after a load,
a reload or an import `lastSaved` is the server's JSON, and Postgres returns a
`jsonb` object's keys ordered by length and then by bytes (`text` before `type`), while ProseMirror writes
`type` first. So a loaded document with any text is dirty before it is touched:
`reordered`. And TipTap 3's `setContent` emits an update event, so that adopting an
answer arms the timer of a loop that is not stopped; so does its `setEditable`, which
the lock's effect calls when the page is loaded and when it is unlocked.

The lock of a document linked to Google Docs is `linked`. `onLink` clears the timer and
says Saved, whatever the buffer holds; `Unlock` is the effect of both ways to unlink,
and `onUnlinkPullFinal`, like `onPull`, fetches the row that the pull wrote, which
`adoptPulledDoc` puts in place of buffer and baseline but, unlike `Adopt`, without
ending a conflict. The routes behind them are `Links`; what a pull writes to the row is
to this tab what another device's save is. `Return` may open unlocked, because a
status that cannot be fetched counts as unlinked.

`slips` and `lost` are history: an edit taken back while its save was in flight
(`reverted`), calls of different kinds in flight together (`crossed`), the page left
with something unsaved or in flight (`left`), a lock over a conflict (`locked`), an
answer lost. The properties about
the save loop say what holds without the relevant slip, and so name the exact
circumstances in which it does not.

## 7. `Connections` and `Links`

`Connections` has one action per call or statement of `api/integrations.py`:
`Authorize` stores the PKCE verifier and issues the URL, `Redeem` pops it and
exchanges the code, `Store` is the upsert, `ReadConnection` (with the revocation at
Google, which may be out of reach) and `DeleteConnection` are the two halves of the
disconnect. A flow, the grant it leads to and the tokens of that grant share one
name, so that an access token tells which grant it came from; the ciphertext of
`crypto_vault.py` is left out. `Persist` is the cached token of
`api/drive_client.py`: an UPDATE by row id of a row that was read earlier, which
brings no deleted row back but may land on a row that was reconnected since
(`crossed`).

A request of `Links` follows its `Path`, a sequence of calls and commits: `token`,
then `upload`, `cursor`, `insert` for a link; `cursor`, `export`, `overwrite` for a
pull; and so on. `Receive` is the gate with the link row and the connection,
read in a row. Each further element is an action with its success, and `AuthFails`
and `Fail` are what each route does when the call fails: status and unlink mark the
row `error`, link has no handler, and pull's handler reads an attribute that its own
rollback expired and so ends in 500 with the row unmarked. Meanwhile the Doc is
edited (`EditRemotely`), a tab that was not told of the link saves (`Save`), the
access token's hour ends and grants end. A content is a save of the app or the
rendition of a version of a Doc, which is what the properties tell apart.
The deletion of the document and its other columns are in `Documents`.

## 8. `Collections`, `MilvusClient` and `Search`

A command of `Collections` is a request; the ownership gate, the library clamp, the
write with its commit and the reread of the answer are actions between which other
commands and ingestions commit. A foreign key that fails is an `error` answer, a row
that is gone before an `UPDATE ... RETURNING` likewise.

`MilvusClient` is the module global of `api/search.py`, which worker threads test,
build, publish and reset without a lock. The interpreter switches threads at calls
and loops only, so `Checkout` of a published client, a publication and the guarded
reset are one step each; between a thread's failed call and its reset anything may
happen.

`Search` adds the request: the scope is resolved in up to three reads (`Resolve`,
`CheckFolders`, `ReadMembers`) between which collections change, and lists that are
given but empty search nothing, unlike omitted ones; then `Embed`, the
dense arm's thread under its time budget (`Timeout` lets the request go on while the
thread runs on), the lexical arm in the request's own session, and `Retrieve` with
the flags of what failed. A failed statement of the lexical arm leaves the
transaction aborted (`Aborted`), so `Summarize` and the save fail after it. `Flush` is
the insert with its prune, which sees committed rows and its own; `Commit` makes both
visible. The panel is one browser tab: one search at a time from its form, another
device beside it, saved searches opened and put on show while a search may be
under way (`Hydrate`, which forgets that search: `crossed`). A query and its passages are left out: the hits are all books the
request was allowed, or none.

`MCSearch` runs three trials, each from many initial states: "shelf", two commands
beside each other; "scope", one search narrowed to books and collections beside a
command; "rush", two searches of the whole library, their threads, their saves
under a cap of one, and the panel.

## 9. `Calendar`, `Reader` and the algorithms

In `Calendar` a call of the tab is sent, served and answered in three steps, and calls
overtake each other. `Move` shows a chip at its new day before its PATCH; `AnswerMove`
rolls a failed one back to the date captured before the drop; `AnswerFetch` puts up
whatever page was asked for; popovers wait for their call and refetch. `Elsewhere` is
another device. A creation has no event until it is served, and each that is served
writes a row of its own, also one repeated because its answer was lost. `raced`,
`unheard` and `foreign` are history since the fetch sent last: which events had
overlapping calls, a lost answer or another writer; a new fetch forgets them. `late`
says that the last answer was not that fetch's: superseded fetches that are answered
before it leave no trace. Without them the tab at rest shows what the server has.

`Reader` has the initial load (position, window around the target, or the start of
the book if the target is past its end), the two edges with their single-flight
gate, the position's settle timer and its PUT, and `Retarget`, which starts a new epoch
while calls of the old one are under way: an edge fetch of an earlier epoch changes no
chunks but opens the gate, and the merge must then keep the window a run. A PUT of an
earlier target still sets `lastSent` when it is answered, and so does the read of its
position: `ReadPosition` is the server's step, `Restore` the answer, and the tab asks
whether it still shows the target before it awaits the body and after it has taken the
position for saved (`Reader.tsx:128-141`). `crossing` and `unsure` are history since the
last `Retarget` with no call on the position under way. Chunks never change, so that
their fetch is one step.

The algorithms are operators: `Dates` (`web/lib/dates.ts` and the weekly runs of
`calendar_routes.py`) against a day count; `Citations` (labels, markers, their
resolution) against the source each member of a group is taken for; `Retrieval` (slices, rank fusion,
reranking, pruning) against what a fair ranking keeps; `Chunking` (the split of an
oversized chunk) against a tiling; `Inference` (batches, truncation ladder and retries
of the client of the remote models) against the texts and documents it was given, for
a provider that counts more tokens, reorders its rows, leaves one out or is away.
`MCAlgorithms` makes every bounded input a state, and section 12 has the theorems for
all inputs. A loop is a recursive function over what the code iterates: the prefixes
of a list (`Pack`, `Added`, `JoinUpTo`), the positions of a text (`Resolve`,
`WindowsUpTo`), the bounds of a binary search (`HardEnd`), a day and how far it is from
its month (`addDays`). The body of a loop has a name of its own where it decides
something (`AddPiece`, `NewLabel`, `Dealt`).

## 10. What the code does differently from what it says

Two runs check one statement of a comment each, and TLC finds a behaviour that
contradicts it. `PROJECT.json` "findings" quotes the lines.

| run | statement | behaviour |
|---|---|---|
| `documents_import` | an import is never destructive (`api/documents.py:1034`) | the snapshot is of the content read before the conversion; a save committed meanwhile is replaced and in no revision |
| `search_blip` | a single dependency blip no longer means a bare 500 (`api/search.py:94`) | when the lexical arm's statement fails, the request goes on with the dense hits in an aborted transaction, and its next statement ends it with 500 |

Ten more properties state a promise of a doc or comment and are refuted outside the
runs, each by the configuration named with that property in place of its own. But
for `OwnedIsNeverSwept`, which needs claims, their comments say that they do not hold:

| property | promise | configuration and change | behaviour |
|---|---|---|---|
| `NoOrphanAfterSuccess` | a redelivery leaves zero orphans (`worker/ingest.py:74`) | `MCIngest_crash`: `KindOf <- AllApi`, three books, `Spec` | the dedup lookup comes before the claim, so that a redelivered attempt which finds a rival's book never scrubs its own vectors |
| `KnownContentIsNotIngested` | a matching upload skips embedding (`ARCHITECTURE.md:119`) | `MCIngest_crash`: `Spec` | a process that loaded its index earlier does not know the new book |
| `OwnsOnlySimilarTexts` | a match means a similar text (`worker/dedup.py:100`) | `MCIngest_crash`: `ContentOf <- EachContent`, `Short = {c1, c2}`, `Spec` | all texts without a shingle match each other |
| `OwnedIsNeverSwept` | tenant-reachable data is never swept (`sweep_orphans.py:15`) | `MCSweep_live`: `KindOf <- AllManual`, `Blank = {}` | a claimless ingest commits between the landed check and the delete; with claims it holds, which is the run `sweep_live` |
| `EveryEditIsCoalesced` | edits during a flight make one trailing save (`sermon-autosave.ts:16`) | `MCEditor_tab`: `EditorSpec` | the dirty check comes before the flight check: an edit taken back during a flight is never sent, and the tab says Saved |
| `UnlinkResumesAutosave` | when the link is cleared, editability and autosave resume (`SermonEditor.tsx:505`) | `MCEditor_tab`: `EditorSpec` | a tab in conflict is linked: the lock says Saved and the banner goes, but `conflicted` stays; after the unlink what is typed is never saved and nothing says so |
| `ReconnectBringsTheDocBack` | an error makes the user reconnect rather than lose the latest Doc edits (`editor_links.py:612`) | `MCLinks_devices`: `AccountOf <- OneAccount` | no route finds a row marked `error` again, so that a reconnect does not lead back to the Doc's edits |
| `MovesShowTheirDate` | on success the optimistic state already reflects the move (`CalendarView.tsx:177`) | `MCViews_tabs` | of two moves under way the failure of the first rolls the chip back to a date that the second has replaced |
| `BackfillWritesOneObject` | backfill never writes a second object for the same book (`worker/ingest.py:28-30`) | `MCIngest_backfill` | two duplicate hits of a legacy book both find no pointer and each put an original; the guarded UPDATE keeps one pointer, and the other object stays |
| `InventedMembersCiteNothing` | an invented member can't fabricate a citation (`api/summary.py:512-513`) | `MCAlgorithms_inputs`: in `CitationsAreReal`, in place of `CitationsTellTheSources` | an unresolvable member is skipped to the next comma, so that of an invented `[B, A:5]` the end `A:5` is cited if it is a source |

Met while modelling and given no property of their own:

* pipeline: a FAILURE turns back into STARTED when its message is redelivered, though `web/lib/tasks.ts:9` takes
  it for final; a sweep skips the debris of a task that failed for good, because
  claims are never cleared (`sweep_orphans.py:293`); an index still names a book the
  sweep removed, and the upload that matches it fails on its key;
* documents: two saves that both passed the 409 check replace one another (the run
  `documents` allows it as a raced overwrite); a document that was only looked at is
  saved, because of the key order above and of the timer that loading arms
  (`sermon-autosave.ts:65`); edits that a lock finds unsaved are not in the Doc, and a
  pull, like an import, replaces what is in the buffer, against
  `SermonEditor.tsx:556-557` ("The user's edits are discarded ONLY here");
* links: pull's handler of a refused refresh answers 500 (section 7); the loser of two
  links leaves its Doc behind; a disconnect that races a callback may delete the newer
  connection without revoking it (`integrations.py:662`);
* search: two overlapping saves can leave one row more than the cap
  (`search_history.py:131-132`) until the next; a saved search opened while another
  search is under way is covered by the answer that comes late, against
  `SearchPanel.tsx:70` ("Clears any in-flight/error state"); a collection id that
  was deleted stays in the tab's session storage, and each search is a 404 until it is
  cleared; a summary holds its database session while the model writes;
* algorithms: a label with a comma, cited inside a group, is resolved by the api but gets
  no chip (`EveryCitationHasItsChip` of `Citations`, against
  `web/lib/summary.ts:117-120`); years 0 to 99 get the weekday of the twentieth
  century (`UTC` in `Dates`);
* reader: the flush at teardown runs when the container is gone (`Reader.tsx:50-51`),
  so that leaving within the settle time of a scroll by an in-app link loses the
  position; overlapping calls on the position may leave `lastSent` wrong (`crossing`),
  and so may the body of the read of a target that was left, which sets it before the
  tab asks whether the target is still shown (`Reader.tsx:132-141`);
* calendar: a creation whose answer was lost leaves the popover open with an error, and
  submitting again writes a second row.

## 11. Runs

Bounds are constants: tasks, workers, books, `MaxCrashes`, `MaxExpiries`,
`MaxReseeds`, `MaxSweeps`, `MaxActs`, requests, calls, flows, `MaxSaves`, `MaxVersion`,
commands, days and chunks. The counters appear only in guards. TLC may deadlock when
every call is made and the bounds are used up, so deadlock is not checked; that
nothing gets stuck is what the liveness properties say.

| run | bounds | shows |
|---|---|---|
| `ingest_crash` | 2 tasks of 2 users with one text (seeded and uploaded), 2 workers, 2 books, 1 crash, 1 re-run, any call may raise | ownership, pointers, exactly one vector set, one book per task, and that every message settles |
| `ingest_expiry` | 1 task, 2 workers, 3 books, 1 crash, 2 visibility timeouts, forgotten results | overlapping attempts of one task: the inductive invariant, and refinement of `Catalog` |
| `ingest_backfill` | a legacy book, 3 uploads (of its text, of another, and of one similar to both under a file name of its own), 2 workers, 3 books, 1 crash | racing backfills never replace a pointer; a book that is ingested anew never has a second original |
| `sweep_live` | 1 worker, an upload with a claim and a manual ingest of a text without chunks, old debris, 1 sweep, 1 crash | nothing owned is removed, no committed book loses vectors, a quiet sweep is thorough, the composition still implements `Catalog` |
| `documents` | 3 requests of any kind, 2 columns, 2 values | equal timestamps name equal rows; answers and snapshots tell the truth; whatever a write replaces was shown to the writer, is snapshotted, or raced it; a deleted document keeps still |
| `documents_import` | the same | the import's promise, refuted |
| `editor` | 1 tab with 3 calls, 1 request of another device, 3 texts, acts of the user that lead to at most 3 calls, 1 lost answer | the baseline is a stored version; no self-conflict and no false Saved without a named slip; no save while in conflict; what was typed is saved or the user told, or the document is locked |
| `links` | 2 requests of any kind on a document that an earlier one linked or failed to, 1 consent or disconnect call over 2 flows and 2 accounts, 1 autosave, 2 versions of a Doc | status misses nothing, answers tell the truth, tokens of one grant, a disconnect is final, pull-final keeps the Doc's text |
| `search` | 2 books, 1 collection, 2 commands, 2 searches, a cap of 1 saved search, in the three trials of section 8 | memberships and scope, the history's newest, the panel's latest, the shared client, and that a request ends though Milvus hangs |
| `search_blip` | the same | the blip's promise, refuted |
| `views` | calendar: 2 events, one of them for creations only, 2 days, pages of 1, 3 calls of the tab, 1 write of another device to the other event between any two fetches; reader: books of up to 3 chunks, windows of 2 with 1 of context, 2 calls under way | the settled calendar is right; the reader's window is a run; what counts as saved is saved |
| `algorithms` | dates around the ends of months of 8 years with 9 offsets; up to 3 titles that collide or hold commas, groups of up to 2 members, written or invented; lists of up to 3 hits; 4 hits in slices; texts of up to 6 characters; up to 3 texts of up to 6 tokens in batches of 2 over a ladder of 3 rungs; 4 attempts under a budget of 2 retries | the operators against their references |

Why they are enough. In `Ingest` the interesting cases need two attempts (a dead one
and its successor, or two running at once), two tasks of the same text (a duplicate
and the original), two processes (a fresh index and a stale one), and one fault at
each point: all are within the bounds, and a second crash or a third worker only
repeats a state already reached by another path (a crash leaves nothing of the
attempt but its stores' contents, which the next attempt meets at its first
step). For the safety half no argument is needed: it is proved for all bounds, as is that of
every other component but the algorithms (section 12).
A race on a document needs a write between another's gate and UPDATE, and a third
request that deletes or restores: three requests; beyond that, `Documents` is proved.
In the editor three acts allow each of: edit, undo and edit again during a flight; an
edit that meets a conflict and a reload; an import beside an edit; leaving with a
dirty buffer and returning; an edit that meets a conflict, link, unlink and an edit;
an edit, link and pull. `MaxActs` counts the calls an act may lead to
(two for an import, whose adoption arms the timer, up to three for an unlink with a
final pull, none for a link); `MineAssumption` keeps it within
the tab's calls, so that they never run out.
A link's races are between two requests (link and link, pull and pull, pull-final and
pull), each beside one disturbance: an edit of the Doc (two versions), a save, or a
call of the connection; the earlier link gives both requests something to find.
The collections race in pairs, and a scope is read in three statements that one
command can come between. The shared client needs a thread that fails late and one
that has built anew, which are two; a cap of one makes each save displace another.
For the safety of all that `Search_proofs` needs no bound. A calendar tab goes wrong by
two changes and a fetch that overtake each other: three calls. Two pages of one day
each let a move leave its page and the answer of one page arrive on the other. In the reader a stale
fetch beside a current one are two calls, and three chunks with windows of two have
both edges.

`ingest_crash`, `editor` and `search` use a fair specification; the others check safety only. Workers are
interchangeable and declared a symmetry where no liveness is checked; tasks,
users and contents are not. Requests of `Documents` are interchangeable too; those
of `Editor` are not, and are taken in the order TLC lists them. So are the later
requests of `Links`. The calls of the calendar's tab and those of the reader's are
interchangeable and declared symmetries.

Fairness: `WF_vars(WorkerStep(w))` for each worker. A prefork child that is alive
keeps fetching and keeps executing, one task at a time
(`worker_prefetch_multiplier = 1`, `worker/celery_app.py`), and KEDA and
Kubernetes restart a lost one. A step that may hang is cut by the task's time
limits, which appear as `Fail` or `Crash`; neither is forced. Nobody is obliged
to upload, to re-seed, or to run the sweep. The bound on crashes is what makes
the run finite; with unboundedly many a task could be restarted for ever.

In `Editor` an armed timer fires, the server serves each of the tab's requests, and
an answer reaches its continuation: a browser's event loop and an HTTP server that
answers or fails. A fetch that is neither answered nor rejected is excluded, and
nobody is obliged to type, click or come back.

In `Search` only the handlers are fair, `WF_vars(Serve(q))`: each waits at most for
the embedding and the language model, whose clients have timeouts, for the
database, and for the dense arm's budget (`_dense_arm` of `api/search.py`). Neither
Milvus nor the threads that call it are assumed to go on: `SearchEnds` is about a
Milvus that hangs, and its mutant is the await without a budget.

## 12. Proofs

Eight modules of proofs: six about the components that have a state, two about the
algorithms. Each theorem holds for
any number of tasks, workers, requests, calls, books and values and for any bounds,
from the assumptions its modules name. Those about state follow one pattern: an inductive
invariant, proved to hold at first and to be kept by each action; the checked
properties, which it implies; and the action properties, from one of its steps.
Before each invariant was proved, TLC looked for a counterexample to it on instances
of the module, with a configuration that lists it in place of the run's properties:

| invariant | distinct states of the instances it was checked on |
|---|---|
| `SafetyInv` | 359,108 (`ingest_expiry`, where it is a property of the run) |
| `PlanInv`'s `SweepTypeOK`, `SafetyInv`, `QuietInv`, `ShieldInv`, `SingleRunInv` beside the sweep | 282,934 (`sweep_live`); 99,981 (a legacy book without chunks); 46,102 (a legacy book, two sweeps); 837,811 (two workers, two sweeps, no crash); `QuietInv` and `SafetyInv` also with a visibility timeout and a manual ingest of a whole text: 397,808 |
| `EditorInv` | 1,281,283; 6,603,833 |
| `LinksInv` | 191,060; 2,350,796 |
| `DocumentsInv` | 87,112 (`documents`) |
| `SearchInv`, `FlagInv` | 663,890 (`search`) |
| `HistoryInv` | the same; 83,851; 89,095; 355,671 |
| `CalendarInv`, `ReaderInv` | 1,602,952 (`views`, both trials) |

`Ingest_proofs`, from the assumptions of `Ingest` (types of the constants, distinct
null values):

* `SafetyInvariance`: `Spec => []SafetyInv`. Neither ownership nor pointers are
  inductive alone. `SafetyInv` adds what each position of a worker has already
  established: whoever is past an owning call has the library row
  (`AttemptIsPlaced`), whoever is about to write a pointer has put the object
  (`ObjectFirst`), a claim and a new-book attempt name an id the task drew itself
  (`ClaimIsOwn`, `NewPathIsOwn`), the library names committed rows
  (`LibraryIsCommitted`), and the text of a book, in its row or in an index, is the
  one of the task that drew its id or the one it had before the pipeline (`TextIs`,
  `TextIsKept`, `IndexIsTrue`). The last says nothing of the row being there now, so
  that the same invariant holds beside a sweep that takes rows away. The step lemmas
  go conjunct by conjunct; `Writers` and `Frame` say once which actions write a
  variable, so that each lemma looks only at those.
* From it `TypeCorrect`, `SuccessIsOwnership`, `PointersResolve`, and the action
  property `PointersStay`.
* `VectorsOnce` and `ClaimedTasksMintOnce`, under `MaxExpiries = 0`: with the
  second invariant `SingleRunInv`, which says a task's message exists once
  (queued or held), that a drawn id is in the claim, and how many vector sets an
  attempt's position implies. The assumption is needed: with a visibility
  timeout two attempts of one task overlap and one may scrub what the other has
  committed. `SafetyInv` does not need it.
* `OriginalsOfNewBooks`, without a hypothesis: two objects of one book exist only if
  it is a legacy book, whose racing backfills may put both. `OriginalIsMinters` is
  the invariant: an object of a new book has the file name of the task that drew the
  id, and only legacy books are without a pointer.
* `PipelineImplementsCatalog`: `Spec => ImplementsCatalog`, each action mapped to
  `Publish`, `Adopt`, `Confirm`, `Forget` or a stutter.

`Sweep_proofs`, from the same assumptions:

* `SweepKeepsSafety`, without a hypothesis: `SafetyInv` holds beside any number of
  sweeps, interrupted anywhere, with `PlanInv` for the script's own state. A pipeline
  step keeps it because nothing in it depends on a book being there; a delete of a
  row keeps it because `user_library` restricts it. From it `SweepTypeCorrect`, and
  `SweepImplementsCatalog`: the deletes are `Withdraw` or a stutter.
* `QuietSweepTheorem`, without a hypothesis. Only a history of an idle pipeline makes
  the inventory right, so that `QuietInv` says for a quiet run, phase by phase, that
  each select returned what its store still holds (`InventoryInv`), and after the
  classification that each remnant is skipped or still in the plan (`ProgressInv`).
* `OwnedStaysWhole` and `SweptVectorsOnce`, under `MaxExpiries = 0` and
  `ManualIsBlank`: every ingest without a claim brings in a text without chunks. The
  second is what refutes `OwnedIsNeverSwept` otherwise (section 10); the run
  `sweep_live` satisfies both. `ShieldInv` is the argument: a book in the plan is
  debris, or a book no claim names, and those but for the debris have no vectors to
  lose; an id in the inventory that was free at first was drawn by a task, so that
  its claim, which commits before its vectors, is there to be read. `GuardInv` joins
  it with `SingleRunInv` and `PlanInv`.

`Editor_proofs`, first part, from the assumptions of `Documents` (the content is a column,
distinct null values):

* `DocumentsInvariance`: `Spec => []DocumentsInv`. The invariant adds to the checked
  properties what a request has established at each place (`RequestInv`): before it
  is answered it left no trace; past its gate the row is the one it read, or an
  overlapping write is on record; a PATCH past its gate named that row. `QuietStep`
  covers every step that neither writes nor snapshots, `WriteStep` the two that do.
* From it `DocumentsTypeCorrect`, `StampsNameTexts`, `AnswersAreTrue`, and with
  `StampStep` (only a write to a live row changes its text or its timestamp) the
  action properties `OverwritesAreAccountedFor` and `DeletedStaysFrozen`.

`Editor_proofs`, second part, from the same assumptions and those of `Editor` (the tab's calls are
requests, and as many as its acts may make):

* `EditorIsAClient`: `EditorSpec => Spec`, the specification of `Documents`. Each of
  the tab's calls is a request the routes allow, so that every theorem about the
  document holds under the editor.
* `EditorInvariance`: `EditorSpec => []EditorInv`, three layers over `DocumentsInv`,
  each under the slips it can do without. Always: the baseline is a version
  (`BaselineIsAVersion`), and the answer that accepts a save bears its own stamp and
  its whole text (`MineInv`). Unless calls crossed: one call at a time, and `inFlight`
  is true exactly while a save waits (`OneCall`). Without the slips that forget:
  what is typed is saved, scheduled, pending or on its way (`SaveInv`). With nothing
  lost, crossed or left: the tab holds the token of its last accepted save, or awaits
  it (`StampInv`), which is why it never conflicts with itself.
* From it `EditorTypeCorrect`, `BaselineStaysAVersion`, `NoFalseSelfConflict`,
  `SavedMeansAccepted`, and the action property `ConflictHaltsAutosave`.

`Links_proofs`, from the assumptions of `Connections` and `Links` (the first grant is a
flow, bounds are numbers, a missing row is no row):

* `LinksInvariance`: `Spec => []LinksInv`. `ConnectionInv` says that a flow names a row
  or tokens only once it was begun and its code is used up (`Spent`), which is why no
  row mixes the tokens of two grants. `RowInv` says that a link row belongs to the
  link request that was answered ok, that its cursor is behind what was pulled and
  that behind the Doc's version. `RequestInv` follows the path of a request: it holds
  a connection that was there, the version it exported is the one its overwrite
  leaves, an unlink that succeeds has detached its row.
* From it `LinksTypeCorrect`, `OneGrantPerRow`, `DisconnectStands`, `StatusIsRight`,
  `AnswersAreTrue`, and the action property `PullFinalIsSafe`.

`Search_proofs`, from the assumptions of `Search` and `MilvusClient` (a positive cap, a
distinct null client):

* `SearchInvariance`: `Spec => []SearchInv`, the conjunction of five parts, each with
  lemmas of its own. `CollectionsInv`: a command that is about to write names owned
  books, and what an answered add stored is there or was undone since; `Grown` says
  that a command's step only lets the library and the memberships-with-history grow,
  which is what requests need to know of it. `RequestInv`: the books of a request are
  in its scope from the moment the scope is known; `OneRequest` and `NarrowInv` reduce
  each step of a handler to the one row it changes. `ThreadsInv`: a client is
  built once and named by its builder, whoever holds one holds one that was built, a
  failed client that is still published has its reset due. `EarlyInv` ties the two: a
  thread starts only when the scope is known, so that no thread builds twice.
  `PanelInv`: without a crossing, what is sent is the latest wish.
* From it `MembershipsTheorem`, `ScopeTheorem`, `PanelTheorem`, and the action property
  `ClientTheorem`.
* `HistoryTheorem`, with `HistoryInv`: requests are numbered in the order they came
  (`Numbered`), what a prune takes away a cap's number of newer ones have displaced,
  and a prune under way leaves at most the cap. It rests on lemmas about `Overflow`:
  of the rows it is given it keeps the newest, and never more than the cap.
* `FlagsTheorem`, with `FlagInv`: a request has no flags until its scope is known, then
  it names the dense arm or has its hits. No run checks `FlagsTellWhatFailed`.

`Views_proofs`, first part, from the assumptions of `Calendar` (a page has days; a missing event
is neither an event nor a row):

* `CalendarInvariance`: `Spec => []CalendarInv`, mostly event by event (`EventInv`). A
  change of an event that raced with nothing since the fetch sent last is the only call
  about it and no fetch is under way (`Alone`); the answer of that fetch agrees with the
  server (`FetchedRight`), whatever superseded ones were answered before; until it is
  answered, a tab that is ready is late (`NewestInv`); and a ready tab that is not late
  agrees with the server but for a move the server has not applied, whose prior date
  the server still has, and a submit it has (`ShownRight`).
* From it `CalendarTypeCorrect` and `SettledTabStaysRight`.

`Views_proofs`, second part, from the assumptions of `Reader` (the window is longer than its
context, no length is `None`):

* `WindowOfBook`, `MergeInFront` and `MergeBehind`: what the routes return is a run of
  chunks, and a run merged in front of one that it touches or overlaps, or behind it,
  is a run again, from the lesser to the greater end.
* `ReaderInvariance`: `ReaderSpec => []ReaderInv`. A window that is shown is a run
  within the book (`WindowInv`); an edge fetch of this epoch still touches the window,
  whatever its other edge did meanwhile (`EdgeInv`); one read of the position at most
  is the present target's, and only while its opening waits for it (`ReadInv`); unless
  calls on the position crossed, one was lost or another device wrote, there is one PUT
  at most, with no read beside it, what it leaves is what was sent, and what any read
  found, also for a target that was left, is what the server has (`PositionInv`).
* From it `ReaderTypeCorrect`, `WindowStaysARun`, `SentStaysSaved`.

`Algorithms_proofs` and `Retrieval_proofs` are about operators. The library states
induction for an operator, which no prover here instantiates; but a set and a function
are values, which all of them do. The first part of `Algorithms_proofs` therefore proves:

* `SetInduction`, `UptoInduction` and `MeasureInduction`: the case of the induction is
  that a number, or what has some measure, is in a set, and the conclusion that all
  are. The first rests on the well-foundedness of the naturals, which the library
  proves.
* `MeasureRecursion`: a recursion whose body, given as a function of the argument and of
  the function it defines, looks only at arguments of a lesser measure has a solution.
  A recursive definition in TLA+ is a choice of such a solution, of which nothing is
  known before one is shown to exist. `FoldExists` is the case of a loop over `1 .. n`,
  without the measure.

With these each loop has a lemma that unfolds it, and one that says what holds of it:

* `EveryDateIsRight`, for every day of the years 100 to 9998, every step of days and
  every `RangeCap` that holds a year (`RangeAssumption`): what `DatesAreRight` says.
  The day count is additive over months and years and names each day once
  (`OneDayOneOrdinal`), so that `addDays`, a walk over months that keeps the count and
  ends inside one (`AddDays`), is the only day it could be. A grid is a run of days
  (`Run`), joined of parts of three months. The bounds of the years are the code's:
  `Date.UTC` moves a year below 100 into the twentieth century, and Python's dates end
  with the year 9999.
* `EveryChunkIsTiled`, for every text of characters of one to four bytes and every set
  of sentence starts, from `CapAssumption` (a codepoint fits both caps, the trigger is not
  over the store's limit): what `ChunksAreWhole` says of chunks. The search for the end
  of a hard window is right whether or not fitting is monotonic: its answer is one
  character or was tested. `Tiles` says that windows follow one another from one
  position to another; sentences, pieces and runs keep it.
* `EveryVectorIsItsTexts`, for any texts, any ladder whose last rung is its lowest
  (`LadderAssumption`), any size of a batch and any provider.
* `EveryScoreIsOfItsDocuments`, for any answers to any budget of attempts.
* `SlicesLoseNoRecall`, for any number of books and any size of a slice. A list is
  `Best` when it is as long as it can be, sorted, and no worse than what it leaves out;
  any two such lists have the same scores, one search finds one, and the cut of the
  merged lists is one (`MergedIsBest`). That the sort is a permutation, and stable, is
  `SortedIs`: counting the positions ahead of each enumerates them.
* `EveryFusionIsFair`, for lists of any length and any `RRF_K`: what `RankingIsFair` says of
  fusion. A passage above another in both arms has the larger sum, and the sort by
  sums keeps it so through the cut; that two ranks, one of them no worse, beat a
  single one is an inequality of fractions (`TwoRanksBeatOne`).
  `EveryHitKeepsItsSentences` follows the cursor of the pruning.
* `EveryCitationIsASource`, for any number of books and any group. A title is any text no
  piece of which ends like a marker, which `_label_from_title` sees to: it takes brackets
  and colons out. A member of a group, of a source or invented, is any text whose last
  piece, and no other, ends like a marker. A label in use always has a free suffix, by counting (`NewLabelIs`), so
  that markers differ. A marker that matches inside a group ends where a member does
  (`HereInside`), so that no scan crosses from one member into the next: of each it
  takes the longest end that is a source's marker, or nothing (`ResolveMember`), which
  is what `TakenFor` says. An invented member may have such an end (section 10), so that
  the theorem says what is cited for it and not that nothing is.

`InputsDatesAreRight`, `InputsChunksAreWhole`, `InputsRankingIsFair` and
`InputsCitationsAreReal` derive the properties of the run `algorithms` from these: every
input it tries meets their hypotheses. TLC shows that the properties can fail, on the
mutants; the theorems that no input beyond its bounds makes them.

No checked property of a state is inductive by itself, and what each needs is what the invariants
add: ownership the position of the worker, memberships the place of each command, the
scope the growth of the histories, the shared client that its name is never used
again, the settled calendar what each call under way has or has not done yet, the
reader's window where each edge began. Where a property is guarded by slips or races,
so is the part of the invariant that carries it, and with no more of them.

Only model-checked:

* `EveryTaskSettles`, `SavedOrTold` and `SearchEnds`: liveness under fairness is outside
  this prover's reach.

The type invariants are part of the inductive ones, so that TLC checked each of them
there. Only that of `Ingest` is also in a run, within `SafetyInv`.

## 13. What is not modelled

The components marked `not_modelled` in `PROJECT.json`, and why: the rate limiter keeps
counters that no other component reads and fails open; of the inference client, the
check of the recorded model against the configured one, once in a process, and to its
callers a call that succeeds, raises or takes its time; format conversion and extraction are external programs without state; token
checks and password hashing are stateless; the library listing and the task status
mapping only read; the maintenance scripts are run by hand on an idle system; health,
metrics, logging, settings, migrations, page proxies and deployment have no protocol.

Within the modelled components: in `Ingest` the content sniff and size cap of the
upload route, which only refuse, key sanitization, and the time limits' exact values;
in `Documents` and `Editor` the scope columns, the derived `content_text`, and a page
that the browser's back cache revives; in `Links` multipart bodies and MIME types, and
the document's deletion beside a pull; in `Collections` names, descriptions and the
panel, which refetches after each command; in `Search` the passages, the flags of a
failed reranker or highlighter, and the prompt; in `Calendar` title, series, the choice
of a manuscript and `createDraftForDate`; in `Reader` the pixels of scrolling and the
offset within a chunk; in `Chunking` the structural pass, which a library does.
