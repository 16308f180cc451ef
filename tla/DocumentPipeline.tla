-------------------------- MODULE DocumentPipeline --------------------------
(***************************************************************************)
(* The life of a document from upload to searchable: the document row and  *)
(* its chunk and vector rows (PostgreSQL), the Celery messages that drive  *)
(* it (etl and embedding queues), the worker executions of those messages, *)
(* the user's requests (upload, re-ingest, delete) and the Beat scans that *)
(* repair or clean up (stuck-document rescue, superseded-chunk cleanup).   *)
(*                                                                         *)
(* One action is one database transaction of the code, or one call to the  *)
(* provider together with the transaction that stores its result; between  *)
(* two actions every other actor may move.  A worker execution carries the *)
(* snapshot it took of the document (`_Target`), which goes stale when the *)
(* row moves on.                                                           *)
(*                                                                         *)
(* Data kept abstract: all chunks of one (document, version) are written,  *)
(* superseded and deleted together, so they are one group, and `vec'       *)
(* counts how many of the group's batches of 64 chunks have their vectors  *)
(* stored.  Every version has at least one chunk.  `silent' abstracts      *)
(* `updated_at': the row has not been written for longer than the          *)
(* threshold that applies to its status (etl_stuck_after_seconds or        *)
(* etl_in_progress_stale_seconds).                                         *)
(***************************************************************************)
EXTENDS Naturals, FiniteSets

CONSTANTS
  Docs,          \* documents of one tenant, in one knowledge base
  Tasks,         \* message slots: bounds how many messages exist at once
  NoDoc,         \* the document of an unused slot
  MaxVersion,    \* bound on doc_version, i.e. on the number of re-ingests
  MaxRetries,    \* _MAX_RETRIES of the worker tasks (3 in the code)
  Batches,       \* embedding batches a version needs
  SlotCap,       \* etl_max_concurrent_per_tenant
  MaxFaults,     \* bound on crashes, redeliveries and lost messages
  LossyBroker    \* may the broker lose a message it has accepted?

ASSUME DocsAssumption == NoDoc \notin Docs
ASSUME BoundsAssumption ==
  /\ MaxVersion \in Nat \ {0}
  /\ MaxRetries \in Nat
  /\ Batches \in Nat \ {0}
  /\ SlotCap \in Nat \ {0}
  /\ MaxFaults \in Nat
  /\ LossyBroker \in BOOLEAN

VARIABLES
  doc,       \* documents row: life, status, doc_version, silent
  chunks,    \* chunk group of each (document, version) and its vectors
  task,      \* each message slot: the message and, if running, its execution
  scanned,   \* <<document, queue>> pairs a rescue scan has read and not yet sent
  faults     \* faults injected so far

vars == <<doc, chunks, task, scanned, faults>>

-----------------------------------------------------------------------------
(***************************************************************************)
(* Statuses (common/document_status.py)                                    *)
(***************************************************************************)
Statuses == {"uploaded", "parsing", "cleaned", "chunked", "embedding",
             "ready", "failed"}
Terminal == {"ready", "failed"}
SeededRescuable == {"uploaded"}       \* seeded fault: chunked is never rescued
InProgress == {"parsing", "cleaned", "embedding"}
Rescuable == {"uploaded", "chunked"}
Embeddable == {"chunked", "embedding", "ready"}

Versions == 1 .. MaxVersion
Queues == {"ingest", "embed"}

IngestSteps == {"parse", "clean", "chunk", "chunked", "handoff"}
EmbedSteps == {"enter", "list", "embed", "orphaned", "promote"}
Steps == {"idle", "queued", "exhausted"} \union IngestSteps \union EmbedSteps

NoRows == [state |-> "none", vec |-> 0]

Idle == [kind |-> "none", doc |-> NoDoc, retries |-> 0, pc |-> "idle",
         ver |-> 1, next |-> 1]

Message(k, d, r) ==
  [kind |-> k, doc |-> d, retries |-> r, pc |-> "queued", ver |-> 1, next |-> 1]

TypeOK ==
  /\ doc \in [Docs -> [life : {"absent", "live", "deleted"},
                       status : Statuses, version : Versions,
                       silent : BOOLEAN]]
  /\ chunks \in [Docs -> [Versions ->
                  [state : {"none", "active", "superseded"},
                   vec : 0 .. Batches]]]
  /\ task \in [Tasks -> [kind : Queues \union {"none"},
                         doc : Docs \union {NoDoc},
                         retries : 0 .. MaxRetries, pc : Steps,
                         ver : Versions, next : 1 .. Batches]]
  /\ scanned \in SUBSET (Docs \X Queues)
  /\ faults \in 0 .. MaxFaults

Init ==
  /\ doc = [d \in Docs |-> [life |-> "absent", status |-> "uploaded",
                            version |-> 1, silent |-> FALSE]]
  /\ chunks = [d \in Docs |-> [v \in Versions |-> NoRows]]
  /\ task = [t \in Tasks |-> Idle]
  /\ scanned = {}
  /\ faults = 0

-----------------------------------------------------------------------------
(***************************************************************************)
(* Repository operations                                                   *)
(***************************************************************************)

(* get_queryset of a soft-deletable row: deleted documents are invisible.  *)
Visible(d) == doc[d].life = "live"

(* DocumentRepository.set_status: one conditional UPDATE.  It writes only  *)
(* a visible row whose status and version are among the expected ones, and *)
(* stamps updated_at; otherwise it matches no row.                         *)
Matches(d, statuses, versions) ==
  /\ Visible(d)
  /\ doc[d].status \in statuses
  /\ doc[d].version \in versions

SetStatus(d, s, statuses, versions) ==
  doc' = IF Matches(d, statuses, versions)
         THEN [doc EXCEPT ![d] = [@ EXCEPT !.status = s, !.silent = FALSE]]
         ELSE doc

SetStatusUnguarded(d, s) == SetStatus(d, s, Statuses, Versions)

(* ChunkRepository.supersede_for_document: every active chunk of the       *)
(* document leaves retrieval but stays in the table.                       *)
Superseded(d) ==
  [chunks EXCEPT ![d] = [v \in Versions |->
     IF @[v].state = "active" THEN [@[v] EXCEPT !.state = "superseded"]
                              ELSE @[v]]]

(* ChunkRepository.replace_for_version deletes the rows of this version    *)
(* and inserts new ones, which are active.  Embedding.chunk is PROTECT, so *)
(* the deletion raises as soon as one of the rows has a vector.            *)
SeededProtected(d, v) == FALSE        \* seeded fault: the deletion cascades
Protected(d, v) == chunks[d][v].vec > 0

Replaced(d, v) ==
  [chunks EXCEPT ![d][v] = [state |-> "active", vec |-> 0]]

(* Best-effort sending (core/tasks.py): the message reaches the broker or  *)
(* the failure is logged and forgotten.                                    *)
Send(slots, k, d) ==
  \/ /\ \E s \in Tasks : /\ slots[s].kind = "none"
                         /\ task' = [slots EXCEPT ![s] = Message(k, d, 0)]
     /\ UNCHANGED faults
  \/ /\ faults < MaxFaults
     /\ task' = slots
     /\ faults' = faults + 1

(* Embedding executions that have listed chunks of these groups hold the   *)
(* ids of rows that are deleted now.                                       *)
Orphaned(groups) ==
  [t \in Tasks |->
     IF task[t].pc = "embed" /\ <<task[t].doc, task[t].ver>> \in groups
     THEN [task[t] EXCEPT !.pc = "orphaned", !.next = 1] ELSE task[t]]

Released(t) == [task EXCEPT ![t] = Idle]
Done(t) == task' = Released(t) /\ UNCHANGED faults
Goto(t, pc) == task' = [task EXCEPT ![t].pc = pc] /\ UNCHANGED faults

At(t, kind, pc) == task[t].kind = kind /\ task[t].pc = pc

-----------------------------------------------------------------------------
(***************************************************************************)
(* Executions: starting, retrying, and the per-tenant slots                *)
(***************************************************************************)
Working == (IngestSteps \union EmbedSteps) \union {"exhausted"}
Running(k) == {t \in Tasks : task[t].kind = k /\ task[t].pc \in Working}

(* TenantSlotLimiter.acquire answers False: the tenant already runs as     *)
(* many executions of this queue as it may.                                *)
Limited(k) == Cardinality(Running(k)) >= SlotCap

(* The task gives up its worker and sends a NEW message (retries 0).       *)
Defer(t) ==
  /\ task[t].pc = "queued"
  /\ Limited(task[t].kind)
  /\ Send(Released(t), task[t].kind, task[t].doc)
  /\ UNCHANGED <<doc, chunks, scanned>>

(* An exception on the way: Celery's retry, or, when the attempts are used *)
(* up, mark_retries_exhausted as the next step.                            *)
SeededRetry(t) ==                     \* seeded fault: no bound on the attempts
  /\ task' = [task EXCEPT ![t] = Message(@.kind, @.doc, @.retries + 1)]
  /\ UNCHANGED faults

Retry(t) ==
  /\ task' = [task EXCEPT ![t] =
       IF @.retries < MaxRetries THEN Message(@.kind, @.doc, @.retries + 1)
                                 ELSE [@ EXCEPT !.pc = "exhausted"]]
  /\ UNCHANGED faults

(* A worker execution takes its snapshot of the document, or finds it gone *)
(* (NotFoundError: logged, not retried).                                   *)
Start(t, pc) ==
  LET d == task[t].doc IN
  IF Visible(d)
  THEN /\ task' = [task EXCEPT ![t] = [@ EXCEPT !.pc = pc,
                                                !.ver = doc[d].version]]
       /\ UNCHANGED faults
  ELSE Done(t)

-----------------------------------------------------------------------------
(***************************************************************************)
(* ingest_document: extract, clean, chunk, hand over to the embed queue    *)
(***************************************************************************)
IngestStart(t) ==
  /\ At(t, "ingest", "queued")
  /\ ~Limited("ingest")
  /\ Start(t, "parse")
  /\ UNCHANGED <<doc, chunks, scanned>>

(* A status write of IngestionService._run: no expected status or version. *)
(* Extraction and cleaning come before SetCleaned; they touch no row of    *)
(* this model and are part of it.                                          *)
Advance(t, from, status, to) ==
  /\ At(t, "ingest", from)
  /\ SetStatusUnguarded(task[t].doc, status)
  /\ Goto(t, to)
  /\ UNCHANGED <<chunks, scanned>>

SetParsing(t) == Advance(t, "parse", "parsing", "clean")
SetCleaned(t) == Advance(t, "clean", "cleaned", "chunk")
SetChunked(t) == Advance(t, "chunked", "chunked", "handoff")

ChunkStage(t) ==
  LET d == task[t].doc
      v == task[t].ver IN
  /\ At(t, "ingest", "chunk")
  /\ IF Protected(d, v)
     THEN UNCHANGED chunks /\ Retry(t)
     ELSE /\ chunks' = Replaced(d, v)
          /\ task' = [Orphaned({<<d, v>>}) EXCEPT ![t].pc = "chunked"]
          /\ UNCHANGED faults
  /\ UNCHANGED <<doc, scanned>>

HandOff(t) ==
  /\ At(t, "ingest", "handoff")
  /\ Send(Released(t), "embed", task[t].doc)
  /\ UNCHANGED <<doc, chunks, scanned>>

(* Both write FAILED whatever the row says: _fail_permanently after a      *)
(* broken file or a missing object, mark_retries_exhausted after the last  *)
(* attempt.                                                                *)
FailIngest(t, pc) ==
  /\ At(t, "ingest", pc)
  /\ SetStatusUnguarded(task[t].doc, "failed")
  /\ Done(t)
  /\ UNCHANGED <<chunks, scanned>>

FailPermanently(t) == FailIngest(t, "clean")
MarkIngestExhausted(t) == FailIngest(t, "exhausted")

-----------------------------------------------------------------------------
(***************************************************************************)
(* embed_document: vectors for the pending chunks, then READY              *)
(***************************************************************************)
EmbedStart(t) ==
  /\ At(t, "embed", "queued")
  /\ ~Limited("embed")
  /\ IF Visible(task[t].doc) /\ doc[task[t].doc].status \notin Embeddable
     THEN Done(t)                     \* embedding_skipped_stale_task
     ELSE Start(t, "enter")
  /\ UNCHANGED <<doc, chunks, scanned>>

EnterEmbedding(t) ==
  LET d == task[t].doc
      mine == {task[t].ver} IN
  /\ At(t, "embed", "enter")
  /\ SetStatus(d, "embedding", Embeddable, mine)
  /\ IF Matches(d, Embeddable, mine) THEN Goto(t, "list") ELSE Done(t)
  /\ UNCHANGED <<chunks, scanned>>

SeededListPending(t) ==               \* seeded fault: an off-by-one of pending
  LET g == chunks[task[t].doc][task[t].ver] IN
  /\ At(t, "embed", "list")
  /\ task' = [task EXCEPT ![t] =
       IF g.state = "active" /\ g.vec + 1 < Batches
       THEN [@ EXCEPT !.pc = "embed", !.next = g.vec + 1]
       ELSE [@ EXCEPT !.pc = "promote"]]
  /\ UNCHANGED <<doc, chunks, scanned, faults>>

(* _pending_chunks: the active chunks of the snapshot's version that have  *)
(* no vector yet.  None is a success (an empty document, or all done).     *)
ListPending(t) ==
  LET g == chunks[task[t].doc][task[t].ver] IN
  /\ At(t, "embed", "list")
  /\ task' = [task EXCEPT ![t] =
       IF g.state = "active" /\ g.vec < Batches
       THEN [@ EXCEPT !.pc = "embed", !.next = g.vec + 1]
       ELSE [@ EXCEPT !.pc = "promote"]]
  /\ UNCHANGED <<doc, chunks, scanned, faults>>

(* One batch: the provider's answer is stored (upsert) in a transaction of *)
(* its own, superseded rows or not.                                        *)
EmbedBatch(t) ==
  LET d == task[t].doc
      v == task[t].ver
      n == task[t].next IN
  /\ At(t, "embed", "embed")
  /\ chunks' = [chunks EXCEPT ![d][v].vec = IF @ < n THEN n ELSE @]
  /\ task' = [task EXCEPT ![t] =
       IF n < Batches THEN [@ EXCEPT !.next = n + 1]
                      ELSE [@ EXCEPT !.next = 1, !.pc = "promote"]]
  /\ UNCHANGED <<doc, scanned, faults>>

(* The vectors of deleted chunks violate their foreign key.                *)
EmbedOrphaned(t) ==
  /\ At(t, "embed", "orphaned")
  /\ Retry(t)
  /\ UNCHANGED <<doc, chunks, scanned>>

(* A conditional write that ends the execution whether or not it matched.  *)
Conclude(t, pc, status, statuses, versions) ==
  /\ At(t, "embed", pc)
  /\ SetStatus(task[t].doc, status, statuses, versions)
  /\ Done(t)
  /\ UNCHANGED <<chunks, scanned>>

SeededPromote(t) ==                   \* seeded fault: no expected_doc_version
  Conclude(t, "promote", "ready", {"embedding"}, Versions)

Promote(t) == Conclude(t, "promote", "ready", {"embedding"}, {task[t].ver})
(* The provider refuses for good (quota, unknown model): any status of the *)
(* snapshot's version is overwritten.                                      *)
RefuseEmbed(t) ==
  \E pc \in {"embed", "orphaned"} :
    Conclude(t, pc, "failed", Statuses, {task[t].ver})
MarkEmbedExhausted(t) ==
  Conclude(t, "exhausted", "failed", {"chunked", "embedding"}, Versions)

-----------------------------------------------------------------------------
(* Any transaction, object-store or provider call of a working execution   *)
(* may raise something retryable.  Enqueueing never raises.                *)
TransientFailure(t) ==
  /\ task[t].pc \in Working \ {"handoff", "orphaned", "exhausted"}
  /\ Retry(t)
  /\ UNCHANGED <<doc, chunks, scanned>>

Ingest(t) ==
  \/ IngestStart(t) \/ SetParsing(t) \/ SetCleaned(t) \/ ChunkStage(t)
  \/ SetChunked(t) \/ HandOff(t) \/ FailPermanently(t) \/ MarkIngestExhausted(t)

Embed(t) ==
  \/ EmbedStart(t) \/ EnterEmbedding(t) \/ ListPending(t) \/ EmbedBatch(t)
  \/ EmbedOrphaned(t) \/ RefuseEmbed(t) \/ Promote(t) \/ MarkEmbedExhausted(t)

Execute(t) == Ingest(t) \/ Embed(t) \/ Defer(t) \/ TransientFailure(t)

-----------------------------------------------------------------------------
(***************************************************************************)
(* Requests of the user (DocumentService)                                  *)
(***************************************************************************)
Upload(d) ==
  /\ doc[d].life = "absent"
  /\ doc' = [doc EXCEPT ![d].life = "live"]
  /\ Send(task, "ingest", d)
  /\ UNCHANGED <<chunks, scanned>>

(* 409 while a job is at work, unless it has been silent for too long.     *)
Busy(d) == doc[d].status \in InProgress /\ ~doc[d].silent

Reingest(d) ==
  /\ Visible(d)
  /\ ~Busy(d)
  /\ doc[d].version < MaxVersion
  /\ chunks' = Superseded(d)
  /\ doc' = [doc EXCEPT ![d] = [@ EXCEPT !.version = doc[d].version + 1,
                                         !.status = "uploaded", !.silent = FALSE]]
  /\ Send(task, "ingest", d)
  /\ UNCHANGED scanned

Delete(d) ==
  /\ Visible(d)
  /\ chunks' = Superseded(d)
  /\ doc' = [doc EXCEPT ![d].life = "deleted"]
  /\ UNCHANGED <<task, scanned, faults>>

-----------------------------------------------------------------------------
(***************************************************************************)
(* Beat (single scheduler) and the clock                                   *)
(***************************************************************************)
(* StuckDocumentRescueService reads the silent documents in one            *)
(* transaction and sends their messages after it: by then a document may   *)
(* have moved on.  One scan at a time.                                     *)
QueueFor(status) == IF status = "uploaded" THEN "ingest" ELSE "embed"

Stuck == {d \in Docs : /\ Visible(d)
                       /\ doc[d].status \in Rescuable
                       /\ doc[d].silent}

ScanStuck ==
  /\ scanned = {} /\ Stuck # {}
  /\ scanned' = {<<d, QueueFor(doc[d].status)>> : d \in Stuck}
  /\ UNCHANGED <<doc, chunks, task, faults>>

SendRescued ==
  \E r \in scanned :
    /\ scanned' = scanned \ {r}
    /\ Send(task, r[2], r[1])
    /\ UNCHANGED <<doc, chunks>>

(* purge_superseded_of_ready: one pass deletes the superseded chunks, and  *)
(* their vectors, of the documents whose row says ready (deleted or not).  *)
SeededPurgeable(d, v) ==              \* seeded fault: not only ready documents
  chunks[d][v].state = "superseded"
Purgeable(d, v) == chunks[d][v].state = "superseded" /\ doc[d].status = "ready"

Cleanup ==
  LET purged == {g \in Docs \X Versions : Purgeable(g[1], g[2])} IN
  /\ purged # {}
  /\ chunks' = [d \in Docs |-> [v \in Versions |->
       IF <<d, v>> \in purged THEN NoRows ELSE chunks[d][v]]]
  /\ task' = Orphaned(purged)
  /\ UNCHANGED <<doc, scanned, faults>>

(* updated_at grows old while nobody writes the row.                       *)
Age(d) ==
  /\ Visible(d) /\ doc[d].status \notin Terminal /\ ~doc[d].silent
  /\ doc' = [doc EXCEPT ![d].silent = TRUE]
  /\ UNCHANGED <<chunks, task, scanned, faults>>

-----------------------------------------------------------------------------
(***************************************************************************)
(* Faults (at most MaxFaults)                                              *)
(***************************************************************************)
(* The worker process dies.  acks_late: the message is still in the broker *)
(* and is delivered again with the same retry count.                       *)
SeededRestored(t) == Idle             \* seeded fault: acknowledged on receipt
Restored(t) == Message(task[t].kind, task[t].doc, task[t].retries)

Crash(t) ==
  /\ task[t].pc \in Working
  /\ faults < MaxFaults
  /\ task' = [task EXCEPT ![t] = Restored(t)]
  /\ faults' = faults + 1
  /\ UNCHANGED <<doc, chunks, scanned>>

(* Redis redelivers a message that stays unacknowledged beyond its         *)
(* visibility timeout, although its execution is still at work.            *)
Redeliver(t) ==
  /\ task[t].pc \in Working
  /\ faults < MaxFaults
  /\ \E s \in Tasks : /\ task[s].kind = "none"
                      /\ task' = [task EXCEPT ![s] = Restored(t)]
  /\ faults' = faults + 1
  /\ UNCHANGED <<doc, chunks, scanned>>

(* The broker loses a message it had accepted (data loss, failover).       *)
LoseMessage(t) ==
  /\ LossyBroker
  /\ task[t].pc = "queued"
  /\ faults < MaxFaults
  /\ task' = Released(t)
  /\ faults' = faults + 1
  /\ UNCHANGED <<doc, chunks, scanned>>

-----------------------------------------------------------------------------
User(d) == Upload(d) \/ Reingest(d) \/ Delete(d)
Beat == ScanStuck \/ SendRescued \/ Cleanup
Fault(t) == Crash(t) \/ Redeliver(t) \/ LoseMessage(t)

Next ==
  \/ \E t \in Tasks : Execute(t) \/ Fault(t)
  \/ \E d \in Docs : User(d) \/ Age(d)
  \/ Beat

Spec == Init /\ [][Next]_vars

(* Workers keep consuming, time keeps passing and Beat keeps scanning;     *)
(* users and faults owe nothing.                                           *)
Fairness ==
  /\ \A t \in Tasks : WF_vars(Execute(t))
  /\ \A d \in Docs : WF_vars(Age(d))
  /\ WF_vars(ScanStuck)
  /\ WF_vars(SendRescued)

FairSpec == Spec /\ Fairness

-----------------------------------------------------------------------------
(***************************************************************************)
(* Properties that hold                                                    *)
(***************************************************************************)
(* A document that was never re-ingested and says ready can be found: its  *)
(* chunks are the active ones and every batch has its vectors, whatever    *)
(* duplicates, retries, crashes and rescues happened on the way            *)
(* (embedding.py: promote; knowledge.py: replace_for_version).             *)
FirstVersionReadyIsSearchable ==
  \A d \in Docs :
    (Visible(d) /\ doc[d].version = 1 /\ doc[d].status = "ready")
      => chunks[d][1].state = "active" /\ chunks[d][1].vec = Batches

(* The rescue scan leaves parsing, cleaned and embedding to acks_late and  *)
(* the retries (rescue.py:7): as long as no accepted message is lost, a    *)
(* document in one of them has a message that will move it on.             *)
WillIngest(t, d) ==
  task[t].kind = "ingest" /\ task[t].doc = d /\ task[t].pc # "handoff"

WillEmbed(t, d) ==
  /\ task[t].kind = "embed" /\ task[t].doc = d
  /\ task[t].pc \in EmbedSteps => task[t].ver = doc[d].version

InProgressHasTask ==
  \A d \in Docs :
    Visible(d) =>
      /\ doc[d].status \in {"parsing", "cleaned"} => \E t \in Tasks : WillIngest(t, d)
      /\ doc[d].status = "embedding" => \E t \in Tasks : WillEmbed(t, d)

(* Vectors cost money: they disappear only with rows that were superseded  *)
(* and only while the document says ready (knowledge.py:406-416); a re-run *)
(* of the chunk stage fails rather than drop them.                         *)
PaidVectorsSurvive ==
  [][\A d \in Docs, v \in Versions :
       chunks'[d][v].vec < chunks[d][v].vec =>
         chunks[d][v].state = "superseded" /\ doc[d].status = "ready"]_vars

(* An embedding execution whose snapshot is of an older version changes    *)
(* nothing of the row, unless it has run out of attempts (embedding.py:    *)
(* _skip_stale).                                                           *)
StaleEmbeddingChangesNothing ==
  [][\A t \in Tasks :
       (/\ task[t].kind = "embed"
        /\ task[t].pc \in EmbedSteps
        /\ task[t].ver # doc[task[t].doc].version
        /\ task'[t] # task[t]) => doc' = doc]_vars

(* Once the user stops asking (MaxVersion), every live document comes to   *)
(* rest for good: it can be found, or it failed with an error the user can *)
(* see.  No message sent best-effort and lost, no crash and no stale task  *)
(* leaves it hanging (rescue.py, celery_app.py: task_acks_late).           *)
EventuallySettles ==
  \A d \in Docs : <>[](Visible(d) => doc[d].status \in Terminal)

(***************************************************************************)
(* Claims of the sources that the code does not keep                       *)
(***************************************************************************)
(* knowledge.py:293-297: an old task's closing writes must miss, or a      *)
(* document without active chunks is marked ready and never rescued.       *)
ReadyIsSearchable ==
  \A d \in Docs :
    (Visible(d) /\ doc[d].status = "ready")
      => LET g == chunks[d][doc[d].version] IN
         g.state = "active" /\ g.vec = Batches

(* documents.py:280-285: no chunk of a deleted document stays active,      *)
(* because retrieval knows nothing of deleted_at.                          *)
DeletedIsNotSearchable ==
  \A d \in Docs : doc[d].life = "deleted" =>
    \A v \in Versions : chunks[d][v].state # "active"

(* embedding.py:251: a message sent again must not turn a finished         *)
(* document into a failed one.                                             *)
FinishedIsNotFailed ==
  [][\A d \in Docs : doc[d].status = "ready" => doc'[d].status # "failed"]_vars
=============================================================================
