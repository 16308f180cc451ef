# Lumina AI: verification models

TLA+ modules, TLC runs and TLAPS proofs about Lumina AI (`src/backend` and the
chat page of `src/frontend`): a multi-tenant service that ingests documents into
knowledge bases, answers questions over them through a streaming chat, and
meters what a tenant uses. This file is the inventory of the system, the plan of
the models, and the account of what is modelled, checked and proved.

Paths are relative to `src/backend` unless they begin with `frontend/`.

## 1. The system

Processes: API processes (FastAPI, one event loop, ORM calls in threads),
Celery workers (queues `etl`, `embedding`, `maintenance`, ...), one Beat
scheduler, and browsers. Shared state: PostgreSQL (rows under row-level
security, one unit of work = one transaction, READ COMMITTED), Redis (broker,
counters, stream buffers, refresh families), an object store, and the model
providers. The API and the workers interact through rows, best-effort Celery
messages sent after the commit (`core/tasks.py:_send` logs a failed send and
goes on) and Redis keys. What makes the system hard is that none of these is
atomic with another.

| Component | State it keeps | Operations | Hard behaviour | What makes it correct | Module |
|---|---|---|---|---|---|
| Document pipeline (`services/knowledge/{documents,ingestion,embedding,rescue,cleanup}.py`, `worker/{etl,embedding}_tasks.py`) | `documents` row, chunks, vectors, messages | upload, re-ingest, delete; ingest and embed executions; rescue scan; cleanup | executions carry a snapshot that goes stale; `acks_late` redelivery; retries; lost sends; per-tenant slots | ready means searchable; nothing hangs; paid vectors survive; a stale execution changes nothing | `DocumentPipeline`, `DocumentPipelineProofs` |
| Knowledge-base reindex (`reindex.py`, `reindex_plan.py`, `worker/reindex_tasks.py`) | `kb_reindex_jobs` row, the model and version of the KB | start, advance (rechunk, embed, switch), rescue, purge of old vectors | re-enqueued rounds, two executions of one job, writes without an expected status | the KB points to a complete set of vectors; one active job per KB | `KbReindex`, `KbReindexProofs` |
| Chat turn (`chat.py`, `core/streams.py`, `api/sse.py`, `rescue.py`) | message rows, stream buffer, reservations | start, generate, stop, reconnect, rescue | cancellation at any await, a tail that may fail after the answer is stored | one end; settled once; a reader sees every event once | `ChatTurn`, `ChatTurnProofs` |
| Quota and tenant slots (`quota.py`, `fairness.py`, `reconciliation.py`) | Redis counters | reserve, commit, release, correct | several commands per operation, expiry, loss of data | the limit is kept by admitted work; the counter returns to what is in use | `Quota`, `Allowance`, `QuotaProofs` |
| Sign-in and refresh (`auth.py`, `tokens.py`, `frontend/src/api/client.ts`) | refresh family in Redis, token version, cookie | login, refresh, log-out, revoke | lost and overtaken answers, replay, grace | a regular user is not signed out; a revocation is immediate | `Sessions`, `SessionsProofs` |
| AI gateway (`ai/gateway`) | the connection | embed, rerank, stream_chat | retry against streaming, broken answers | one voice, one usage, one end; nothing is bought twice | `Gateway`, `DeltaStream`, `GatewayProofs` |
| Retrieval and composition (`services/rag`, `rag/`, `composer.py`, `services/ai/prompts.py`) | the record of a retrieval | search, fuse, rerank, select, cite; history, template | knowledge bases and rows that change between the statements; boundary arithmetic | context within its budget, citations that resolve, one vector space, a history without gaps | `Retrieval`, `Composer`, `Picks`, `AnsweringProofs` |
| ETL stages (`etl/`, `ingestion.py`) | artifact, job rows, a child process | extract, clean, chunk | a parser that hangs or dies, a retry | a result is whole or not there; chunks cover the text | `Extraction`, `Chunker`, `Intake`, `AnsweringProofs` |
| Knowledge bases, uploads, purge (`documents.py`, `purge.py`, `core/storage.py`) | KB rows, objects | upload, delete, purge | rows and objects in two stores | no row without its object while it is live | `Library`, `Intake`, `AnsweringProofs` |
| Settings and credentials (`settings.py`, `param_config.py`, `credentials.py`) | settings, data keys, sealed credentials, audit rows | patch, resolve, rotate | concurrent writers, values older than their validation | what is accepted is in force, and what is in force can be used | `Settings`, `PlatformProofs` |
| Conversations (`repositories/conversation.py`, `retention`) | rows, denormalised columns | create, list, delete, prune | cursors over a moving order | pages neither repeat nor skip | `Conversations`, `AnsweringProofs` |
| Notifications (`notifications.py`) | rows, a guard in Redis, mails | notify, collapse, mail, read | several writers of one row | every event counted once, told once | `Notices`, `PlatformProofs` |
| Usage and partitions (`repositories/{partitions,platform}.py`, `worker/maintenance_tasks.py`) | partitions, daily figures | make ahead, drop, roll up | jobs missed, failing half-way, overlapping | every row has a place; figures settle | `Upkeep`, `PlatformProofs` |
| HTTP layer and tenant isolation (`api/middleware`, `core/uow.py`, `core/request_cache.py`) | connections, counters, memo | serve a request | state that outlives a request | no request meets another tenant's state | `Requests`, `PlatformProofs` |
| Chat page (`frontend/src/{stores,views,composables}`) | store, one buffer, connections | open, ask, stop, leave | continuations after an unmount | the words of an answer come once, in order | `ChatClient`, `PlatformProofs` |
| Identity administration, migrations, evaluation scripts, the rest of the frontend | - | - | - | - | section 9 |

`PROJECT.json` lists every component with its files and status, and under
`hazards` every place where this code can go wrong in a way a test would hardly
reach, with the properties that watch it.

## 2. Plan

Done: all modules of the table, the compositions `MCAnswering` and
`MCPlatform`, two refinements (`Quota` implements `Allowance`, `Gateway`
implements `DeltaStream`), and the theorems of section 7.

Left, in this order:

1. `KbReindex`: an abstract specification (a job is opened, ends once, and
   switches the key at most once) that one execution at a time implements; the
   counterexamples of section 5 are why two executions do not;
2. two revocations at once in `Sessions`, database failures between the
   transactions of `Settings`, and what overtakes what in `KbReindex` kept by
   name, so that `ReadyIsFound` excuses a document and not a knowledge base.

## 3. `DocumentPipeline`

| Model | Code |
|---|---|
| `doc[d]`: `life`, `status`, `version` | the row in `documents` (`deleted_at`, `status`, `doc_version`); `absent` is before the upload |
| `doc[d].silent` | `updated_at` is older than the threshold of its status (`etl_stuck_after_seconds`, `etl_in_progress_stale_seconds`) |
| `chunks[d][v]`: `state`, `vec` | the chunks of one version (active, superseded) and how many of their batches of 64 have vectors stored |
| `task[t]`: `kind`, `doc`, `retries`, `pc`, `ver`, `next` | one Celery message and, once a worker runs it, the execution: its next step, the `doc_version` of its snapshot, its next batch |
| `scanned` | what a rescue scan has read in its transaction and not yet sent |
| `faults` | how many crashes, redeliveries and losses have happened |

One action is one transaction, or one provider call with the transaction that
stores its result; everything else may happen between two of them.
`IngestStart` ... `HandOff` are `IngestionService._run` in its order: snapshot,
PARSING, extraction and cleaning, CLEANED, chunk stage, CHUNKED, message to the
embed queue. `EmbedStart` ... `Promote` are `EmbeddingService.embed_document`:
refusal of an unfit status, guarded EMBEDDING, list of pending chunks, batches,
guarded READY. `Retry`, `TransientFailure` and the two `Mark...Exhausted` are
the task wrappers in `worker/`; `Defer` is their way out when the tenant has no
slot. `Upload`, `Reingest` and `Delete` are `DocumentService`; `ScanStuck` and
`SendRescued` are `StuckDocumentRescueService`, `Cleanup` is
`ChunkCleanupService`. `Crash` and `Redeliver` are what `acks_late` and the
visibility timeout of the Redis transport do.

Abstractions, each of which keeps the behaviours the properties tell apart:

- all chunks of a version are one group, because they are written, superseded
  and deleted by one statement; every version has at least one chunk;
- extraction and cleaning are part of `SetCleaned`, their failure is
  `TransientFailure` or `FailPermanently`; what happens inside them, with the
  artifact and the job rows, is the subject of `Extraction`;
- re-ingest reads and writes the row in one transaction without a lock and is
  one step here (two of them at the same moment could lose a version);
- the slots are counted over the running executions; the Redis counter, which a
  crash leaks until its TTL, is in `Quota`;
- one model name and one embedding version (`KbReindex` has more);
- the database does not fail while the final failure is being recorded: the
  code logs such a failure and gives up.

| Run | Instance | What it shows |
|---|---|---|
| `pipeline_faults` | 1 document, 2 messages, 2 versions, 1 retry, 2 batches, one slot per queue, a broker that may lose messages, 2 faults | `FirstVersionReadyIsSearchable`: a document never re-ingested that says ready has active chunks and all its vectors, whatever happened on the way; `PaidVectorsSurvive`: vectors disappear only with superseded rows of a ready document |
| `pipeline_settles` | fair workers, clock and Beat, a slot for every message, 1 fault | `EventuallySettles`: every live document ends in ready or failed, for good; `InProgressHasTask`: parsing, cleaned and embedding always have a message that will move the document on, which is why the scan may skip them; `StaleEmbeddingChangesNothing` |
| `pipeline_ready_claim` | no faults | counterexample: ready without searchable chunks |

Bounds. Two messages are enough for every interference between two executions
(ingest with ingest, ingest with embed, embed with embed), and for one that
holds the slot while the other defers. Two versions give one stale snapshot; two
batches give an execution interrupted between batches; one retry gives both a
second attempt and exhaustion (the code has three). Two faults allow a crash of
an execution that was itself redelivered.

Fairness. `WF(Execute(t))`: Celery workers consume their queue and a running
execution goes on; `WF(Age(d))`: time passes; `WF(ScanStuck)` and
`WF(SendRescued)`: Beat runs the scan on a schedule (`config/celery_app.py`).
Users, faults and the cleanup owe nothing. The run needs a finite number of
faults (`MaxFaults`) and of re-ingests (`MaxVersion`), as any such claim does.

## 4. `KbReindex`

| Model | Code |
|---|---|
| `kb`: `key`, `kver`, `indexed` | the row in `knowledge_bases`: model and `embedding_version` as one key, `knowledge_version`, `indexed_knowledge_version` |
| `job[j]`: `status`, `key`, `kver`, `rechunk`, `cursor` | the row in `kb_reindex_jobs`: status, target model and version, target knowledge version, `rechunk_cursor` |
| `job[j]`: `silent`, `aged`, `purged` | `updated_at` older than `reindex_stuck_after_seconds`; `switched_at` older than the rollback window; `purged_at` is set |
| `task[t]`: `job`, `pc`, `todo`, `last`, `total` | a message of `reindex_kb` and its execution: the next step, the documents or chunks it has read and not yet dealt with, the last document it sent, the number of active chunks it has counted |
| `cleaner` | the jobs whose clean-up has read the key to keep and not yet deleted the others |
| `overtaken` | history: a switch that committed on stale numbers (`count`), or after a clean-up had read the key before it (`kept`) |
| `doc[d]`: `life`, `status`, `gen`, `cut`, `key` | the row in `documents`, with the chunking its current generation is cut with and the key its embedding execution has read |
| `rows[d]`, `vec[d]` | chunk rows and vectors, by generation |

`Load`, `Begin` and `Reload` are the head of `KbReindexService.advance`;
`Batch`, `NextDocument`, `Mark` and `Wait` are `_advance_rechunk`; `List` and
`Embed` are `_embed_missing`; `Count`, `Match` and `Switch` are the last
transaction of `_advance_embedding`, statement by statement: the total of the
active chunks, the vectors of the target key, and `_switch` with the COMMIT. At
READ COMMITTED each of them sees what others committed before it, and a document
may be cut, read the old key and be embedded between any two. `FailJob` is the
`except` around them;
`Round` is the loop of the task, which goes on or sends itself a message (it may
do either at any round here, the code decides by progress and a limit of 20).
`StartModel` and `StartRechunk` are `start` with `plan_reindex`. `RescuePending`
and `RescueStalled` are `StuckReindexRescueService`; `ReadKept`, `PurgeOld` and
`CleanerFails` are `OldEmbeddingCleanupService`, which reads the knowledge base
and then deletes every vector of another key; `PurgeSuperseded` is
`ChunkCleanupService`.
`Raise` is an exception of the database or the provider, `Crash` and `Redeliver`
are `acks_late`.

Abstractions:

- a generation of a document has one chunk; a batch of 64 is one chunk, so an
  interruption between batches is one between two documents;
- the document pipeline is its coarse life, one execution per generation; what
  several executions do to one document is the subject of section 3;
- the provider reports the model it was asked for (the code adapts the target
  of the job to another name);
- the two numbers that `ready_to_switch` compares are read by two statements;
  the rows a transaction writes are seen by others from its COMMIT on;
- the half hour of the stall threshold does not pass between the two
  transactions around `Reload`, which have no provider call between them;
- refused requests (409, 422, quota) change nothing and have no action.

| Run | Instance | What it shows |
|---|---|---|
| `reindex_uploads` | 2 documents, 2 jobs, 2 executions, 1 model, 1 fault | `ReadyIsFound`: a ready document is lost in no other way than by a switch that overtook a count or a clean-up; `CurrentVectorsSurvive`: no purge deletes vectors in use, unless a switch overtook it |
| `reindex_rechunk` | 1 document, 1 job, 1 execution, 2 chunkings, fair, 2 faults, users who re-ingest, delete and change the chunking | `IndexedIsCut`: the chunking is not claimed before every ready document has it; `JobsEnd`: every job completes or fails |

`ReadyIsFound` holds while documents only come: a document embedded under the
old key during a rebuild is caught by the next round, as every round counts
anew. What is left is the time between the count and the COMMIT of the switch,
which no lock closes: a document that is cut there after its embedding has read
the old key is ready and never found (`SwitchLosesNothing`, section 5). The
property holds as long as no switch commits whose numbers have become stale
(`overtaken`), so it says that there is no other way, through two executions of
one job, a crash, a redelivery or a job that was given up. A clean-up that has
read the key before a switch deletes the vectors in use; `CurrentVectorsSurvive`
says that no other one does. With re-ingests `ReadyIsFound` does not hold
(`SwitchIsComplete`, section 5). `IndexedIsCut` holds with one execution at a
time, which is proved for any number of documents, jobs and chunkings
(`ChunkingIsNotClaimedEarly`), and not with two.

Bounds. Two documents make a cursor, a batch boundary (`BatchSize` 1) and a
document that comes or is busy while the other is done; two jobs are a switch
and the next rebuild with the purge between them, to the same model, as a model
without its version is told from no other; two executions give every
interference of a pair. `MaxGen` leaves room for every re-ingest by a user, a
job or the repetition of one after a fault.

Fairness. `WF(Execute(t))` and `WF(Pipeline(d))`: workers consume their queues
(the promise of `pipeline_settles`); `WF(Stall(j))`: time passes; `WF(Beat(j))`:
the scans run on a schedule. Users and faults owe nothing.

## 5. What does not hold

### Runs that expect a violation

Each is listed under `findings` with the sentence it contradicts.

- `pipeline_ready_claim` (`ReadyIsSearchable`): an execution whose snapshot
  predates a re-ingest writes CHUNKED over the new version, and embedding
  promotes it without a chunk. The status writes of ingestion carry neither
  `expected_status` nor `expected_doc_version`, unlike those of embedding.
- `chunk_target_claim` (`EveryChunkRespectsTheTarget`): the room for the body of
  a chunk is computed once, before a paragraph is split, and the overlap carried
  into later pieces is not in it.
- `chat_connections_claim` (`AnswerGrowsInOrder`): a page that is left while its
  messages are fetched, and opened again, leaves two continuations that each
  open a stream; every word of the answer appears twice.

### Properties kept as definitions

Statements of a comment, a docstring or a test that the code does not keep. Each
is a definition at the end of its module, with the sentence it is taken from;
adding it to the configuration named here shows the counterexample.

| Property | Shown by | What happens |
|---|---|---|
| `DeletedIsNotSearchable` | `MCPipelineReady.cfg` | the chunk stage of an execution in flight inserts active chunks of a deleted document (`ingestion.py:333`) |
| `FinishedIsNotFailed` | `MCPipelineReady.cfg` with `MaxFaults = 1`, `MaxVersion = 1` | a redelivered ingest message turns ready into failed (`ingestion.py:156`) |
| `SwitchIsComplete` | `MCReindexRechunk.cfg` with 2 `Models`, `Requests` of re-ingests and models | vectors of superseded chunks count for new ones and `min()` hides the excess (`reindex.py:361-366`) |
| `SwitchLosesNothing` | `MCReindexUploads.cfg` | a document whose chunk commits after the total was counted and whose embedding had read the old key is ready without a vector of the new one (`reindex.py:359-370`, `embedding.py:385-399`) |
| `FailedIsFinal` | `MCReindexUploads.cfg` | a run of batches without heartbeat is marked failed by the scan and then completes (`reindex.py:442`) |
| `RebuiltVectorsSurvive` | `MCReindexUploads.cfg` | the purge after one job deletes what the next is computing (`cleanup.py:111`) |
| `UsageIsLogged` | `MCChatTurn.cfg` | usage of a failed turn is settled against the quota and not in `usage_logs` (`chat.py:589`) |
| `NothingIsGivenAway` | `MCQuota.cfg` with `Scenes <- MCNegativeScenes` | the rollback of a refused reservation meets a counter the nightly run has overwritten (`quota.py:207`) |
| `NobodyIsKickedOut` | `MCSessions.cfg` with `Scenes <- MCOvertaken` | the answers of two exchanges arrive in the other order, and the older cookie is a replay |
| `MarkOutlivesTokens` | `MCSessions.cfg` | a token of the old version that an exchange under way mints after the mark, or one made within the leeway before it, is accepted again when the key is gone (`auth.py:327-328`, `334-338`) |
| `OneQuestionOneRecord` | `MCAnswering.cfg` | the row cannot be written: `_complete` has emitted the record, and `_fail` emits another (`chat.py:488`, `575`; docstring `610-617`) |
| `NothingIsLeft` | `MCAnswering.cfg` | the purge deletes the original and leaves `cleaned.json` of every version that was ingested (`purge.py:112-117`, `ingestion.py:375-378`; `test_retention_purge.py:128-139`) |
| `ListedIsReadable` | `MCAnswering.cfg` | the answer to a COMMIT is lost, and the upload takes back the object of a row that is there (`documents.py:153-154`) |
| `HistoryIsThePast` | `MCAnswering.cfg` | a turn asked later is told to the model, and searched with, as an earlier one (`composer.py:183`) |
| `EmptySearchIsShown` | `MCAnswering.cfg` | `build_context_block` promises a structure for an empty list, and `compose` leaves the block out |
| `DuplicatesAreVisible` | `MCAnswering.cfg` | a document deleted and uploaded again within the retention window is refused as a duplicate of something invisible |
| `BusyMachineIsRetried` | `MCAnswering.cfg` | a child that could not start in time fails its document for good (`sandbox.py:46-49`, `exceptions.py:348-350`) |
| `LastStageIsTrue` | `MCAnswering.cfg` | the stage of a failure is that of an earlier attempt (`ingestion.py:167`) |
| `OrphansLeave` | `MCAnswering.cfg` | a worker that is killed leaves a child whose document makes it loop |
| `OverlapNeverReachesTarget` | `MCPlatform.cfg` | the ceiling of the overlap is for stored values: a target of 64, which is accepted, meets the default overlap of 64, and the chunker is left a room of one token (`kb_config.py:271`, `app_settings.py:287`; `test_chunk_params.py:89` says it never does) |
| `UntouchedSectionsStay` | `MCPlatform.cfg` | two writers of different sections: one section is lost (`settings.py:119`) |
| `EveryChangeAsks` | `MCPlatform.cfg` | two updates of one knowledge base that overlap give one `knowledge_version`; with a rebuild between the two, chunks of the first chunking pass for cut with the second (`knowledge_bases.py:123`) |
| `OneMailADay` | `MCPlatform.cfg` | the worker dies, or the connection breaks, after the server took the mail: the message comes back (`quota.py:384`, `notification_tasks.py:30-41`, `celery_app.py:89`) |
| `NumberMatchesList` | `MCPlatform.cfg` | the number at the bell counts a notice the list was read too early for (`notifications.py:201-207`) |
| `MissedIsMadeUp` | `MCPlatform.cfg` | a partition made by a round that died has no policy and is taken for done (`partitions.py:86`) |
| `EachChunkKeepsItsOwnPage` | `MCChunker.cfg` | heading and table on page 1, text on page 3: the chunk of the text cites page 1 (`chunk.py:161-172`) |
| `SlowAnswersAreDropped` | `MCPlatform.cfg` | a slow answer is shown in the conversation the user has gone to |
| `BufferFitsItsConversation` | `MCPlatform.cfg` | the one buffer of the store belongs to another conversation than the one it names |

### Properties that need their instance

- `InProgressHasTask` with `SlotCap = 1` and a lossy broker: a retried execution
  that finds no slot is acknowledged and sends a new message best-effort; lost,
  it leaves the document in parsing where no scan looks.
- `EventuallySettles` with `SlotCap = 1`: deferring starts the retry count anew,
  so two failing messages of one document that defer one another in turn never
  exhaust their attempts.
- `IndexedIsCut` with a second task: both executions read the job as pending,
  one fails it, and the other, reloading a status that is not rechunking, goes
  on to embedding and switches.
- `SettledOnce` excludes turns that the shutdown cancels: a `CancelledError` is
  no `Exception`, passes the one-way valve of `chat.py:494` and settles twice.
- `EveryReservationReturned` and `CountersStaySound` exclude failed commands:
  INCRBY may succeed and the EXPIRE after it fail, which costs the refused
  request its amount. The gauge of streams has its hour renewed by every
  request, the refused ones included, so a leak of an active tenant stays.
- Two releases after Redis has lost a gauge put back the same deficit twice.
- `NeverNegative`, in `CountersStaySound`, excludes the rollback of a refused
  turn: `release` and `commit` clamp at zero (`quota.py:263-266`), the rollback
  of `check_and_reserve` does not (`quota.py:205-208`). With three turns, a loss
  of data between the increment and the rollback of the refused one leaves
  streams at -1, although its keeper has clamped meanwhile. Two turns cannot
  show it; the attempt to prove the property for any number of turns did.
- `TabsStaySignedIn` excludes lost and overtaken answers. An answer is overtaken
  when the browser was given a later cookie of its family before (`newest`),
  which is not always the one it holds: a log-out of a tab that presented an
  older cookie ends the cookie of another family, and the answer that brings a
  family's cookie back may be the older one. Comparing with the cookie jar alone
  is enough for three tabs; the attempt to prove the property for any number
  showed a trace with six.
- `TypeOK` of `KbReindex` says nothing of how large `doc_version` gets. It had a
  bound from jobs, executions and faults, which the attempt to prove it refuted:
  of two executions that re-chunk for one job the slower one writes the cursor
  back (`reindex.py:309-313`), and the batches behind are cut again, the more
  often the more batches there are. With four documents, batches of one and two
  executions TLC finds a job that cuts a document four times; two documents
  cannot show it. Each batch that is cut again is embedded again.
- `BufferIsSound` promises the order of an answer until a page was left that
  still waited for one (`deserted`); `chat_connections_claim` is what happens
  after it.

Smaller observations made while modelling: twenty rows of history are nine
rounds, not ten, because the two rows of the turn itself are cut out after the
window; `prompt_version` does not say whose prompt it counts; a prompt of the
tenant without a published active version makes every answer fail instead of
falling back to the system's; a conversation that lists a knowledge base twice
lets its routes vote twice; two heartbeats without a stream end a client's wait
also while a slow retrieval is under way; the ceiling of a knowledge base's
overlap looks at the system default on writing and at the tenant's on reading; a
changed chunking of the tenant does not bump `knowledge_version`; a night that
spans the end of a month writes the old total to the new key (the next night
repairs it); the composer of the chat page stays locked when the page is left
while an answer is generated.

## 6. The other modules

### `ChatTurn`

One question and its answer: the request that reserves and makes the rows
(`Ask`, `Reserve`, `Create`, `Spawn`), the generation (`Produce`, `ErrorDelta`,
`Raise`, `Wrap`, `Degrade`), the stop request, the shutdown (`Cancel`) and the
death of the process (`Die`), the Redis stream (`buf[t]`: its events, its stop
key, its lifetime), a client that reads it over connections that break (`Follow`,
`Connect`, `Pump`, `Receive`, `Miss`, `Drop`), and the stuck-stream scan
(`RescueList`, `RescueMark`). One action is one await: a word is kept by
`TextDelta` and written to the stream by `Tell`. An await that raises, is
cancelled or never returns may have had its effect or not (`MaybeTold`,
`MaybeWritten`, `MaybeSettled`). `others` is what other turns of the tenant
hold.

Run `chat_turn`: one turn with retrieval and two deltas, one stream slot that
may be taken by others, one reconnect and two faults. Two deltas put a break
between two words; two faults are a failure and the failure of its handling.
Fair: the event loop, the reader, expiry and Beat; users and faults owe nothing.
It shows `FinalEventIsPersisted` (the row ends before the stream and has every
word of it; the one word whose event could not be written may be in the row
alone, but not when the stream ends with done), `EventsArriveOnce`,
`TurnsAreSettled` and `ChatEnds`.

### `Quota` and `Allowance`

`ctr[r][p]` is a Redis counter of a resource in a period, `snap` the snapshot
the nightly run leaves, `logged` and `rows` the facts of the database, `cl[c]` a
turn or a worker task that goes through its commands one by one. `Reconcile`
reads the facts in one transaction and writes Redis afterwards; `Rollover` is
midnight. Day and month roll over together. `Allowance` is what an indivisible
check would promise: at most `Limit` clients hold a place while the store has
lost nothing; `LimitsAreKept` says that `Quota` implements it, for the streams
of a tenant and for the slots of the fair queue (`holders` are the clients that
were told they may go on).

Run `quota`: two turns for one stream, two tasks for one slot, or a turn beside
the nightly run, with one failed command, death or loss of data. Two clients and
a limit of one give every interference of two commands. Fair: the clients and
the nightly run.

### `Sessions`

Tabs, their access tokens, the cookie they share, the steps of an exchange (the
request, the look at the family, the transaction, the Lua script, the answer),
the promise the requests of a tab share, log-out, log-in with its lock, and
revocation (`Bump`, `Mark`, `MarkExpire`, `Told`). A pair minted together has one
number. A password is let in (`Try`), verified, and then counted (`Miss`) or
clears the count (`Cleared`); several are verified at once, so the count may pass
its limit by those, which is the bound `TypeOK` has. The key of a revocation
lives `ACCESS_TTL`; `lasting` is the first token that outlives it, thanks to the
leeway of the decoder or because it was made after the mark. `RevocationHolds`
says that no other one is ever accepted again.

Run `sessions`: up to three tabs and two requests; `MCScenes` chooses what
happens beside them (nothing, a lost or late answer, log-out, log-in, guesses, a
change of password, a deactivation). Three tabs are a winner, a loser within the grace
and one after. Fair: servers, browsers and the time of a lock. One revocation
per behaviour; two passwords verified at once.

### `Gateway` and `DeltaStream`

One call of `stream_chat` or `embed` through the adapter of an OpenAI-compatible
provider that answers as it likes. `at` is the model and attempt, `wire` what
the adapter has understood, `queue` what it holds back until the answer has
ended, `out` what the caller has got. `DeltaStream` is the promise: parts, one
usage, one end; an exception only before the first part. `Promise` maps what the
caller has got to it (`Said`, `Ending`). Time-outs are per attempt, as in the
code; a slow reader between usage and end is interrupted like any other; an
error that is not retryable skips the fall-backs.

### `Retrieval` and `Composer`

`Retrieval` is a turn's search: a snapshot of the knowledge bases, the vector of
the question, a search of each route in a transaction of its own while knowledge
bases are rebuilt, deleted and documents withdrawn, `gate_by_score`,
`fuse_candidates`, the reranker and its failures, `select_context`,
`assemble_citations`, and the record of it, which is emitted before the row is
written and once more when that fails (`Answer`, `Persist`, `PersistFails`,
`Fail`). The votes 1/(k+r) are taken
over a common denominator; scores, costs and text matches are small enumerated
data.
`Composer` puts the request together: two turns of one conversation whose rows
overlap, `_history` with its window, `build_search_query`, `by_key` and
`active_version` as two statements, while templates are edited (external: after
the seed nothing under `src/` writes them). `Picks` is what both take from a
list by a condition.

### `Library`

Uploads (`Check`, `Find`, `Put`, `Create`, and `Discard` of what the unique
constraint refuses or of a COMMIT whose answer was lost), the deletion of
documents and knowledge bases, and the purge, transaction by transaction, with an
ingestion meanwhile that reads the original and stores its artifact beside it.
Every step may fail or be the last of its process. The objects of a document are
its original and its artifacts; `StoresAgree` is about originals, since no purge
deletes an artifact (`NothingIsLeft`, section 5). Fair: the purge, the requests
and the end of an ingestion.

### `Extraction` and `Chunker`

`Extraction` is an ingestion task and the child process it parses in: spawn,
`ready`, parse, a result in two parts through a pipe, the memory limit, kill and
judgement, the job row of each stage, the artifact, the retry that goes on from
it. An object that is not there ends it for good (`Missing`), a store that fails
has it tried again (`StoreFails`). `Contents` are what bytes do to a parser: parse, raise, exhaust memory, kill
the process, loop, produce what cannot be sent. One worker per message; SIGKILL
always reaps; an error before `ready` is left out, as it cannot happen.
`Chunker` is `clean` and `chunk` as an algorithm: repeated headers, sections,
atomic blocks, the packing of sentences and the overlap. A text is the sizes of
its sentences; only scripts where a character is a token are modelled.

### `Settings`, `Conversations`, `Notices`, `Upkeep`, `Requests`

- `Settings`: two writers of the settings of a tenant or a knowledge base, whose
  credentials and settings are two transactions, the resolution of a parameter
  over its layers with values older than the validation, `knowledge_version`,
  data keys and audit rows. The bounds are for what is stored; the defaults of
  the system have none (`app_settings.py`), here a target above the highest that
  is accepted. `overlapped` remembers that two updates of the knowledge base had
  read before one of them wrote (section 5).
- `Conversations`: writers that stamp a message before they commit, the two
  lists with their cursors, deletion and retention.
- `Notices`: three events and two people, each event one transaction under READ
  COMMITTED with row locks, the guard in Redis, the mail, the inbox. A message
  that the server has taken is acknowledged afterwards, and may come back by a
  retry or a redelivery (`MailFails`, `MailRedelivered`): a row is mailed once,
  and once more for each time that happens.
- `Upkeep`: partitions of months made ahead, their policies, expiry, rounds that
  die or do not come, and the daily roll-up by two runs at once.
- `Requests`: two contexts, one pooled connection, the tenant of a unit of work,
  the memo of a request, and the counters of the rate limit.

### `ChatClient`

The chat page: `shown` and `buffer` are the store, which outlives the page,
`fetches` and `posts` what a page awaits, `streams` its connections, `answer`
the server. A reconnect keeps the last event id; an aborted connection has at
most one late event. The user may leave a page at any time; `deserted` remembers
that one still waited for its messages or its question.

### The compositions

`MCAnswering` and `MCPlatform` put independent parts side by side and one of
them runs: the parts share no state in the code either, and the instance is
their sum. `Intake` is such a sum too, of `Library` and `Extraction`, which meet
in a document's row and object alone: whether the extraction finds them is the
library's doing, and `Missing` when it does not.

| Run | Shows | Bounds |
|---|---|---|
| `answering` | `StreamsAreWhole`, `CallsAreSound`, `StreamKeepsItsPromise` (gateway); `RetrievalIsSound` = `SearchIsHonest` and `RankingIsSound` (retrieval), `TurnsAreComposed` (composer); `StoresAgree` and `ExtractionsHold` in `UploadsAreSound`; `WorkEnds` | two models with two attempts and two pieces of text; two knowledge bases of two chunks, one change, two markers; two overlapping turns after two that are over, or one and three edits; two uploads into two knowledge bases, one mishap; three attempts, two deaths or kills |
| `platform` | `SettingsHold`, `CuttingHolds` (with the types of all the parts), `ListsAreTrue`, `NoticesAreTold`, `LogsAreKept`, `RequestsAreApart`, `BufferIsSound` | two writers, of one knowledge base too; three conversations and two messages; three events; five months; two contexts on one connection; two answers and two moves; four blocks on three pages |

The bounds give each hazard of `PROJECT.json` its case: a fall-back and its own
second attempt, a knowledge base that changes between two statements, an upload
that meets another and a purge, a retry after a death, a third writer behind a
lock, a page boundary, an overlap that is carried twice.

## 7. Proofs

| Theorem | Module | For every value of the constants |
|---|---|---|
| `TypeCorrect` | `DocumentPipelineProofs` | `Spec => []TypeOK` |
| `PaidVectorsStay` | `DocumentPipelineProofs` | `Spec => PaidVectorsSurvive` |
| `StaleEmbeddingIsHarmless` | `DocumentPipelineProofs` | `Spec => StaleEmbeddingChangesNothing` |
| `FirstVersionSafe` | `DocumentPipelineProofs` | `Spec => []FirstVersionReadyIsSearchable` |
| `InProgressSafe` | `DocumentPipelineProofs` | `Enough` implies `Spec => []InProgressHasTask` |
| `VectorsInUseStay` | `KbReindexProofs` | `Spec => CurrentVectorsSurvive`, with every kind of request: only a purge that a switch overtook deletes vectors in use |
| `UploadsAreFound` | `KbReindexProofs` | `OnlyUploads` implies `Spec => []ReadyIsFound`: only a switch that overtook a count or a clean-up loses a document |
| `ChunkingIsNotClaimedEarly` | `KbReindexProofs` | `OneExecution` implies `Spec => []IndexedIsCut` |
| `ReindexTyped` | `KbReindexProofs` | `Spec => []TypeOK`: with any executions, one embedding version for each job at most |
| `ChatTypes` | `ChatTurnProofs` | `Spec => []TypeOK` |
| `FinalEventsArePersisted` | `ChatTurnProofs` | `Spec => []FinalEventIsPersisted`: the row before the final event, with the words of the stream and at most one more |
| `EventsOnce` | `ChatTurnProofs` | `Spec => []EventsArriveOnce` |
| `TurnsSettle` | `ChatTurnProofs` | `Spec => []TurnsAreSettled` |
| `LimitsKept` | `QuotaProofs` | `Spec => LimitsAreKept`: `Quota` implements `Allowance`, for streams and for slots |
| `CountersSound` | `QuotaProofs` | `Spec => []CountersStaySound` |
| `ReservationsComeBack` | `QuotaProofs` | `Spec => []EveryReservationReturned`: no place is kept, the counters are the sums of the books |
| `QuotaTypes` | `QuotaProofs` | `Spec => []TypeOK` |
| `SignInKept` | `SessionsProofs` | `Spec => []SignInHolds` |
| `RevocationsHold` | `SessionsProofs` | `Spec => []RevocationHolds`: nothing revoked is accepted while its key lives, and later only what the key could not outlive |
| `SessionTypes` | `SessionsProofs` | `Spec => []TypeOK`: failures pass their limit only by the passwords that were being verified |
| `RequestsStayApart` | `PlatformProofs` | `RequestsSpec => []RequestsAreApart` |
| `RequestTypes` | `PlatformProofs` | `RequestsSpec => []RequestsTypeOK` |
| `SettingsAreSound` | `PlatformProofs` | `SettingsSpec => []SettingsHold`: credentials open, what was refused left nothing, what was accepted is used, whatever the defaults of the system |
| `RebuildsAreAsked` | `PlatformProofs` | `SettingsSpec => []RebuildIsAsked`: any number of changes and rebuilds, until two updates overlap |
| `LogsKept` | `PlatformProofs` | `UpkeepSpec => []LogsAreKept`: rows keep their partition, figures are the sums of their rows |
| `NoticesTold` | `PlatformProofs` | `NoticesSpec => []NoticesAreTold`: counted once, told of every threshold, mailed once and once more for each message that came back |
| `BuffersAreSound` | `PlatformProofs` | `ChatClientSpec => []BufferIsSound`: a buffer has the words of its own answer, and in order until a page was left that waited |
| `GatewayKeepsItsPromise` | `GatewayProofs` | `GatewaySpec => StreamKeepsItsPromise`: the gateway implements `DeltaStream` |
| `StreamsHoldTogether` | `GatewayProofs` | `GatewaySpec => []StreamsAreWhole`: one voice, done is whole, nothing stays open |
| `CallsHold` | `GatewayProofs` | `GatewaySpec => []CallsAreSound`: the key, the order of the vectors, nothing bought twice |
| `RetrievalsAreSound` | `AnsweringProofs` | `RetrievalSpec => []RetrievalIsSound`: one vector space, nothing withdrawn is found, gaps are told, citations resolve, one record unless the row could not be written |
| `TurnsHold` | `AnsweringProofs` | `ComposerSpec => []TurnsAreComposed`: the question once, a history without gaps, a prompt that was in force and no draft |
| `ListsHold` | `AnsweringProofs` | `ConversationsSpec => []ListsAreTrue`: what was left alone is listed once, counts are right |
| `UploadsHold` | `AnsweringProofs` | `IntakeSpec => []UploadsAreSound`: rows and originals agree, what goes on is whole, causes and stages are true |

Assumptions: the named `ASSUME`s of the modules. `Enough` adds a finite set of
messages, a slot for each of them, and a broker that loses nothing it accepted;
section 5 says what happens without the slots. `OnlyUploads` (`Requests` holds
uploads and rebuilds with another model, nothing else) is what `ReadyIsFound`
needs: `SwitchIsComplete` in section 5 is the counterexample with re-ingests.
`OneExecution` (one message slot, so that no two executions of the task overlap)
is what `IndexedIsCut` needs; section 5 says how two of them break it.
Where the code leaves a gap that no condition on the constants describes, a
history variable remembers that it has been hit, the property holds up to then,
and the claim of section 5 shows what happens after it: `overtaken` in
`KbReindex`, `deserted` in `ChatClient`, `overlapped` in `Settings`. `again` in
`Notices` counts, and `lasting` in `Sessions` dates, what a property allows for.
No action reads any of them but to update it; `lasting` also says which tokens
have expired by the time the key goes.

- `TypeInv` adds to the types that a used slot has a document and an unused one
  no step; without it no action could be shown to keep the types.
- `PaidVectorsStay` and `StaleEmbeddingIsHarmless` are about steps, and
  `TypeInv` is all they need. `StepKeepsVectors`: the chunk stage replaces rows
  without vectors or not at all, a batch only adds, superseding keeps, the
  cleanup takes what it may. `StepOfOutdated`: another execution touches its own
  slot alone or writes no row (`OthersStayAway`), and the writes of the outdated
  one expect a version that is gone (`OwnWritesMiss`).
- `FirstVersionInv` is the strengthening of `FirstVersionReadyIsSearchable`,
  which says nothing of executions: while a document has only its first version,
  no execution can hold another, nothing is superseded, an embedding execution
  past its entry check has active chunks below it, what it has counted is
  stored, and stored vectors forbid replacing the chunks (the PROTECT of the
  foreign key). The five parts are proved kept by each action.
- `InProgressHasTask` is inductive together with `FirstVersionInv` once
  executions cannot be deferred. `NeverLimited` counts: a queued message does
  not run, so fewer executions run than there are messages. `ExecutionStep` is
  the common argument of all the steps of an execution: only its own slot and
  the status of its own document change.
- `VectorsInUseStay` needs the shape of `vec` and `ReadInUse`: what a clean-up has
  read is the key in use, until a switch to another one is remembered.
  `OnlyPurgesTake` finds the two actions that remove vectors; `StepSurvives` shows
  that the one keeps the key it has read and the other the generation in
  retrieval.
- `UploadInv` is the strengthening of `ReadyIsFound`. `DocSide`: a document has
  its chunk from the cut on, and one that is being embedded under an older key
  has a vector of the key in force, as the switch had counted it. `JobSide`:
  messages and executions are about jobs that were opened, and none re-chunks.
  `CompleteIsWhole` is the heart: without superseded chunks the numerator counts
  a subset of the active chunks, so that when it reaches their number every one
  of them has its vector. The switch uses it for the numbers at its COMMIT, which
  `overtaken` remembers when they are no longer those that were read.
- `CutInv` is the strengthening of `IndexedIsCut`. A document is fresh for a
  chunking version when it is gone, on its way from the start, failed, or cut
  with at least that version; the document pipeline makes nothing old (`Renews`).
  `Claim` says that what the row claims is not more than what it asks for,
  `AllFresh` that every document is fresh for the claim, `NotYetUploaded` that a
  document which is not there has no past. `JobFits` reads the cursor: what lies
  behind it has been sent for re-chunking or was fresh. `BatchFits` and
  `SlotFits` say the same of the batch an execution has read and works down,
  smallest first (`FirstIsLeast`, `AfterTakesTheFirst`). When the list is empty
  the cursor has passed everything, and the claim may be raised.
- `ReindexTypes` bounds the embedding versions: `VersionsFit` says that a job aims
  at most one above its own number, and that the knowledge base is at most at the
  number of the next job to be opened. That is inductive although a job that
  was given up may be revived and switch after a later one, because jobs are
  opened in order. `Running`: whoever executes does so for an opened job, and with
  a batch that is not empty, without which `First` is nothing.
- `RequestsInv` is about two things that must not outlive a request. `RowSound`
  is a context by itself: its memo and its tenant are those of its own request.
  `LineFits` and `ConnFits` make a context and the pooled connection it holds
  know each other, so that the setting on a connection in use is that of its
  user and a free one has none. `WindowFits` compares the counter of an address
  in a window with those admitted and the increments whose expiry was lost.
- `ChatInv` is one invariant for the four theorems about a chat turn. `Whole`
  ties the row, the execution and the stream of a turn together: the stream has
  the words that were received, but for one that is about to be written or could
  not be (`Spoken`), the row is written from `persist` on, and what comes after the
  last event, a cancellation included, takes back neither the end nor the words.
  `LeaveStep` is the argument for an await that does not return, whatever it had
  done. `Paid` bounds the settlements
  by where the execution is; a cancellation may add one, because it can strike
  after the first. `CounterInv` is the cardinality of the turns that hold a
  slot. `Sound` says that the wire holds the numbers after the last received
  one, up to what was sent, so that a connection that breaks can resume from
  `last`. `TurnStep` is the common argument: a step writes its own turn alone,
  and a stream only grows.
- `QuotaInv` says of every client where its reservation is (`Fits`): what it has
  got, what it still has to put back, and in which period. `CounterCovers`: a
  counter is at least what the clients owe it (`Owing`), so that an admitted
  client is covered by the number it has seen; `GaugesExact`: without a fault it
  is just that. `PlacesSuffice` is the bound of `Allowance`, strengthened by those
  whom the number they have seen will let in: INCRBY returns a number above all
  covered places, so two clients cannot both have seen a number within the
  limit once it is reached. `KeysTended` and `DeficitsRepaid` name the client
  that will set a missing expiry or put back a deficit. A step is a law about
  one counter (it covers, it is exact, it tends) and a move of one client;
  `ClientStep` combines them for every step of every client.
- `BooksExact` adds the sums: while nothing failed, the counter of a resource
  over all periods is what the books have for it, plus what the clients owe
  (`Debt`: what one has reserved and not recorded, will put back, or will correct
  by). It is inductive only together with `QuotaInv`, whose `CounterCovers` shows
  that no release meets a negative counter, so that no clamp forgives a debt, and
  whose `Fits` has every correction in the period it was reserved in. Sums are
  recursive functions over `0 .. N` (`SumMoves`: who changes one term moves the
  sum by the difference; over the clients, in some numbering), by the induction
  for a set that `HoldsOfAll` proves.
- `SessionInv`. `Numbered` and `Linked`: tokens are numbered as they are made,
  and a token that anything names was made, in the family it is named for.
  `Versions` and `Excluded` carry the revocation: a token, an exchange that has
  read its user and a log-in between its transaction and its tokens have at most
  the version of the row, and after a deactivation at most the one before the
  bump, because both of them check the status in the transaction that reads the
  version. `Lapsed` is what is left when the
  key has gone: whatever was made before `lasting` is past its time. `LockMoves`
  is why failures are bounded: nobody is let in once the lock is there.
  `QuietInv` is the argument of the grace: while nothing was lost, late
  or overtaken, the cookie of the browser is the latest it has been given of its
  family; the family is at that one, or one step ahead of it with the answer
  under way and the grace between the two (`FamilyQuiet`); and a cookie being
  exchanged is the one in force or still within its grace (`FlightQuiet`).
  `CalmInv` adds, while nobody signs out and nothing is revoked, that every
  family is alive and that what an answer brings is newer than the tab's token
  and not expired, so that the request replayed with it is accepted.
- `StreamInv` relates what the caller has got to what the adapter still holds:
  while an answer is read nothing but text is out, the queue of a whole answer
  ends in its `done` and has a usage only if none was counted, and the tail of a
  broken one is its usage, unless it is out, and the error. Every step of
  `GatewayNext` is then a step of `DeltaStream` or none.
- `WholeInv` adds what the adapter has read: the text that is out is the text on
  the wire until the answer breaks, the end was seen before anything kept is
  handed over, a caller that left has not got `done`, and a connection is open
  only while an answer is read or handed over.
- `CallInv` is for `embed`: nothing is out before the call is done, and no
  vector that cannot be bought again was paid for while the call is still to be
  tried. `VectorsInOrder` and `GarbledIsRefused` are the facts about `_ordered`
  it rests on: whatever permutation a provider sends and whichever rows it
  names, what is accepted is in the order of the texts, and a list that is too
  short or repeats a name is refused.
- `UpkeepInv` needs three things beside `LogsAreKept`. `PlacesKept`: the months
  ahead of the last round that went through are there, what was detached was
  expired, and a day with rows has its partition. `RoundFits`: a round in the
  making has made every month it has passed. `SumsFit`: what a roll-up has read
  is what the day has or had, and the roll-up of the day before reads a day
  that is over, so it writes the final sum or, with the partition gone, none; a
  roll-up no new day has disturbed has seen nobody with an older date.
- `NoticesInv` follows each transaction and then the transactions together.
  `DraftFits`: a row that is written is locked, and for a document it says one
  more than what is committed. `WayFits`: every recipient behind `next` is in
  the draft or has the row already, and whoever left a threshold to another
  found the mark of just the highest one he has crossed. `FreshFits` and
  `FreshApart`: only one creates a row, so a row has one message, and the mails
  that went out are one more, at most, than the times it came back after the
  server had it (`MailsFit`, `MessageKeeps`, `BackKeeps`).
  `GuardsFit`: a mark has an event that set it and crossed the same thresholds.
  The arithmetic is in lemmas: rounding a percentage down does not change what
  is reached (`ReachedIsCrossed`), the thresholds crossed are the lowest ones
  (`HighestTells`, `ReachedCount`), and division by the number of people reaches
  every person at every threshold (`RecipientsAre`). The assumption on
  `EventPlans` says that the notices of a quota go to the same people: an
  administrator who is appointed between two of them is not told by either.
- `ClientInv` has two parts. `OwnInv` is for every behaviour: whoever waits is of a
  page there was, and the buffer has deltas of its own answer only. `PatientInv`
  is for as long as no page was left that waited: what is fetched, sent or
  connected belongs to the page that is open (`OfThisPage`), only the connection
  of the last run is not aborted and no two are of one run (`OneConnection`), so
  `HeardSoFar` can relate the next event of that connection to what the buffer
  has. `MCChatClient` shows the two connections there are without `OfThisPage`.
- `SettingsInv` has `Accepted`: the requests that got past the validation, which
  only grows. Sections, limits and the credential are of one of those, and so
  are the snapshots a request may still write back (`OfAccepted`), or of nobody
  and older than the validation; that refused requests leave nothing and that
  accepted targets are used both follow. `CredentialFits` holds because whoever
  has read a data key has read the one that stays: `seen` is 0 or `dek`. Which
  credential a row of the audit log must mention is known from the body alone
  (`RowsTell`), since a body never changes. `VersionFollows` is
  `RebuildIsAsked` with what those who write have read: each the row as it is
  (`EditsFit`), until two of them have overlapped.
- `RetrievalInv` adds to `RetrievalIsSound` where the search is. `Rebuilt`: the
  model and the version of a knowledge base change together, so the two that a
  snapshot holds belong together as long as neither is read again. `Progress`
  says what each phase finds and leaves, `Bought` that what was paid for is what
  the cache has, `Withdrawals` that a chunk withdrawn before the search is in no
  list, whatever list is made of another, and `Orderly` that no list has a chunk
  twice. The lists themselves come from CHOOSE over finite sets:
  `PlaceIsTaken` and `SortedSequence` show that a strict total order puts a
  finite set in one sequence (`AheadIsAnOrder` for the fusion, `BestRows` for
  the answer of a rerank service), `NthGrows` that picking places keeps their
  order. `ScoreIsASum` and `VotesOfRanks` speak of the votes of all routes,
  which a recursive function adds up. The library's induction takes the
  statement as an operator, so `HoldsOfAll` states induction for a set instead,
  and proves it from the least counterexample (`LeastOf`). `AheadEverywhere` is
  what the fusion owes: a chunk that no route ranks lower is not ranked lower.
- `TalksInv` says where a reader is. `Promised`: what he was promised and nobody
  touched is a row, and it is in the list once if it is not behind the cursor
  and else not yet. `PageKeepsPromise` is the whole argument for a page, for
  either order: the rows after the cursor come out in order (`RankedInOrder`,
  from `PlaceIsTaken`), what is not on the page comes after its last row, and
  then there was the row too many that says so. It needs that no two rows of a
  list share an id, and keys that are never zero, as `NoCursor` is; `WritingFits`
  has both, and with them that a writer that has not written is not counted.
- `LibraryInv` and `ExtractionInv` prove the two halves of `UploadsAreSound`.
  `RowsFit`: a row is what a finished request left, or one that lost the answer to
  its COMMIT, and never precedes its object;
  `SweepFits`: what the purge has in hand stays purgeable, because nothing takes
  back a deletion or shortens an age, and its originals are gone before its rows
  or were noted as failed. `HearingFits` lists what the pipe of a child may hold at
  each of its states and for each that its parent waits for; a child that is gone
  without a result had nothing to say or was disturbed (`Unheard`), from which the
  causes follow. `WorkFits` counts: a task that has yet to extract has had a
  trouble for every extraction before, unless it resumes (`Spared`).
- `ComposerInv` says it of places in the conversation. `RowsStand`: a row is
  there once and an answer has no words before its turn is over, so what a
  history left out as empty stays left out of it and what it holds stays said.
  `ReadingsStand` restates `HistoryIsRecent` without the CHOOSE and holds while
  rows are appended behind; `RecentRows` is the algorithm: of the picked rows
  (`EveryPlaceIsPicked`) a row that is missing was skipped or has a whole window
  of rows behind it (`RoomBehind`). `PromptsStand` has what was offered to a turn grow and a
  version that was served never become a draft again (`VersionsAge`).

Only model-checked: `Chunker`, whose folds over texts compute by induction over
data, the type invariants of the parts of `MCPlatform` other than `Requests`, and
`AnsweringTypeOK`. Liveness under fairness (`EventuallySettles`,
`JobsEnd`, `ChatEnds`, `BooksSettle`, `SessionsMoveOn`, `WorkEnds`) is not within
reach of the prover.

## 8. Running

`tlc -config MCPipelineFaults.cfg MCDocumentPipeline`, and so for the other
configurations (`MCPipeline*.cfg` with `MCDocumentPipeline`, `MCReindex*.cfg`
with `MCKbReindex`, the others with the module of their name);
`tlapm GatewayProofs.tla` and the other proof modules. The seeded faults in the
modules (`Seeded...`) are the mutated forms that each property is shown to
notice.

## 9. Not modelled

The parts with status `not_modelled` in `PROJECT.json`: identity administration
(single transactions; what reaches further, revocation, is in `Sessions`),
schema and migrations (declarations; the constraints that matter are in the
actions that meet them), and the evaluation and operator scripts (offline
tools). Within the modelled parts: routing and serialisation, the wording of
events, prompts and mails, the parsing of file formats, prices, password
hashing and the cryptography of tokens, the JSON of each provider, row-level
security itself (`Requests` models what sets it), and the layout of the frontend.
The resolution of times is that of their order: leeways between clocks and
heartbeats against slow retrievals are either way possible in the models.
