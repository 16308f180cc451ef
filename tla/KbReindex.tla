------------------------------- MODULE KbReindex -------------------------------
(***************************************************************************)
(* Rebuilding the index of one knowledge base: the job row, the executions *)
(* of its Celery messages (KbReindexService.advance inside reindex_kb),    *)
(* the switch of the knowledge base to the rebuilt vectors, the Beat scans *)
(* that rescue a stalled job and delete the vectors of older versions, and *)
(* the documents of the knowledge base, which are uploaded, re-ingested    *)
(* and deleted meanwhile.                                                  *)
(*                                                                         *)
(* One action is one database transaction, or one embedding batch with the *)
(* transaction that stores it; a transaction whose statements each see the *)
(* commits of others (READ COMMITTED) and decide what the next one writes  *)
(* is one action per such statement.  A vector is found by retrieval under *)
(* the key <<model, embedding version>> the knowledge base holds.          *)
(*                                                                         *)
(* Data kept abstract: a document generation (doc_version) has one chunk;  *)
(* the document pipeline is the coarse life below (module DocumentPipeline *)
(* has its details), one execution per generation; the provider reports    *)
(* the model it was asked for; `silent' means updated_at is older than     *)
(* reindex_stuck_after_seconds.                                            *)
(***************************************************************************)
EXTENDS Naturals, FiniteSets

CONSTANTS
  NDocs,       \* bound on the documents of the knowledge base
  Present,     \* the documents that are ready when the story begins
  MaxJobs,     \* bound on the jobs
  Tasks,       \* message slots: bounds how many messages exist at once
  Models,      \* embedding models
  FirstModel,  \* the model of the knowledge base at first
  MaxKver,     \* bound on knowledge_version, i.e. on changes of the chunking
  MaxGen,      \* bound on doc_version for the users' re-ingests
  BatchSize,   \* RECHUNK_BATCH_SIZE
  MaxFaults,   \* bound on crashes, redeliveries, lost sends and failures
  Requests     \* what users ask for

AllRequests == {"upload", "reingest", "delete", "config", "model", "rechunk"}

ASSUME InstanceAssumption ==
  /\ NDocs \in Nat /\ Present \subseteq 1 .. NDocs
  /\ MaxJobs \in Nat /\ MaxKver \in Nat \ {0} /\ MaxGen \in Nat \ {0}
  /\ BatchSize \in Nat \ {0} /\ MaxFaults \in Nat
  /\ FirstModel \in Models /\ Requests \subseteq AllRequests

VARIABLES
  kb,      \* knowledge_bases row: key, knowledge_version, indexed_knowledge_version
  doc,     \* documents and the life of their current generation
  rows,    \* generations of each document whose chunk row exists
  vec,     \* stored vectors: <<generation, key>> of each document
  job,     \* kb_reindex_jobs rows in the order of their creation
  task,    \* messages and executions
  faults,  \* faults so far
  cleaner, \* what the cleanup in progress has read: <<job, current key>>
  overtaken \* history: what was decided on an answer no longer true

vars == <<kb, doc, rows, vec, job, task, faults, cleaner, overtaken>>

-----------------------------------------------------------------------------
Docs == 1 .. NDocs
Jobs == 1 .. MaxJobs
Versions == 1 .. (MaxJobs + 1)
Keys == Models \X Versions
(* doc_version.  A job re-ingests a document any number of times: of two   *)
(* executions of it the slower one takes the cursor back (Mark).           *)
Gens == Nat \ {0}

DocStatuses == {"uploaded", "parsing", "chunked", "embedding", "ready", "failed"}
StillProcessing == DocStatuses \ {"ready", "failed"}
InProgress == {"parsing", "embedding"}

ActiveStatuses == {"pending", "rechunking", "embedding"}
TerminalStatuses == {"completed", "failed"}

InTry == {"batch", "reingest", "mark", "wait", "list", "embed", "count", "match", "switch"}
Steps == {"idle", "queued", "load", "begin", "reload", "round"} \union InTry

NoJob == [status |-> "none", key |-> <<FirstModel, 1>>, kver |-> 1, rechunk |-> FALSE,
          cursor |-> 0, silent |-> FALSE, aged |-> FALSE, purged |-> FALSE]

Idle == [job |-> 0, pc |-> "idle", todo |-> {}, last |-> 0, total |-> 0]
Message(j) == [job |-> j, pc |-> "queued", todo |-> {}, last |-> 0, total |-> 0]

TypeOK ==
  /\ kb \in [key : Keys, kver : 1 .. MaxKver, indexed : 1 .. MaxKver]
  /\ doc \in [Docs -> [life : {"absent", "live", "deleted"}, status : DocStatuses,
                       gen : Gens, cut : 1 .. MaxKver, key : Keys]]
  /\ rows \in [Docs -> SUBSET Gens]
  /\ vec \in [Docs -> SUBSET (Gens \X Keys)]
  /\ job \in [Jobs -> [status : ActiveStatuses \union TerminalStatuses \union {"none"},
                       key : Keys, kver : 1 .. MaxKver, rechunk : BOOLEAN,
                       cursor : Docs \union {0}, silent : BOOLEAN, aged : BOOLEAN,
                       purged : BOOLEAN]]
  /\ task \in [Tasks -> [job : Jobs \union {0}, pc : Steps,
                         todo : SUBSET (Docs \X Gens), last : Docs \union {0}, total : Nat]]
  /\ faults \in 0 .. MaxFaults
  /\ cleaner \subseteq Jobs \X Keys
  /\ overtaken \subseteq {"count", "kept"}

Init ==
  /\ kb = [key |-> <<FirstModel, 1>>, kver |-> 1, indexed |-> 1]
  /\ doc = [d \in Docs |-> [life |-> IF d \in Present THEN "live" ELSE "absent",
                            status |-> IF d \in Present THEN "ready" ELSE "uploaded",
                            gen |-> 1, cut |-> 1, key |-> <<FirstModel, 1>>]]
  /\ rows = [d \in Docs |-> IF d \in Present THEN {1} ELSE {}]
  /\ vec = [d \in Docs |-> IF d \in Present THEN {<<1, <<FirstModel, 1>>>>} ELSE {}]
  /\ job = [j \in Jobs |-> NoJob]
  /\ task = [t \in Tasks |-> Idle]
  /\ faults = 0 /\ cleaner = {} /\ overtaken = {}

Live(d) == doc[d].life = "live"

(* Chunks in retrieval: the chunk of the current generation, unless the    *)
(* document was deleted; older generations are superseded.                 *)
Active(d) == Live(d) /\ doc[d].gen \in rows[d]
ActiveDocs == {d \in Docs : Active(d)}
Has(d, key) == <<doc[d].gen, key>> \in vec[d]

Fault == faults < MaxFaults /\ faults' = faults + 1

-----------------------------------------------------------------------------
(***************************************************************************)
(* Messages                                                                *)
(***************************************************************************)
(* enqueue_reindex is best-effort.                                         *)
Send(slots, j) ==
  \/ /\ \E s \in Tasks : slots[s].pc = "idle" /\ task' = [slots EXCEPT ![s] = Message(j)]
     /\ UNCHANGED faults
  \/ Fault /\ task' = slots

Released(t) == [task EXCEPT ![t] = Idle]
Done(t) == task' = Released(t) /\ UNCHANGED faults
Goto(t, pc) ==
  task' = [task EXCEPT ![t] = [@ EXCEPT !.pc = pc, !.todo = {}, !.last = 0, !.total = 0]]
  /\ UNCHANGED faults

(* KbReindexJobRepository.update: no expected status; always stamps        *)
(* updated_at.                                                             *)
Heartbeat(j) == job' = [job EXCEPT ![j].silent = FALSE]
SetJob(j, status) ==
  job' = [job EXCEPT ![j] = [@ EXCEPT !.status = status, !.silent = FALSE]]

(* uq_reindex_job_active_per_kb                                            *)
Violates(j) == \E i \in Jobs \ {j} : job[i].status \in ActiveStatuses

-----------------------------------------------------------------------------
(***************************************************************************)
(* KbReindexService.start                                                  *)
(***************************************************************************)
SeededPlanReindex(model, rechunk) ==  \* seeded fault: the version skips one
  [NoJob EXCEPT !.status = "pending", !.rechunk = rechunk,
                !.key = <<model, kb.key[2] + 2>>,
                !.kver = IF rechunk THEN kb.kver ELSE kb.indexed]

(* plan_reindex refuses to change the model and the chunking in one job.   *)
(* Re-chunking keeps the embedding version, re-embedding increments it.    *)
PlanReindex(model, rechunk) ==
  [NoJob EXCEPT !.status = "pending", !.rechunk = rechunk,
                !.key = <<model, IF rechunk THEN kb.key[2] ELSE kb.key[2] + 1>>,
                !.kver = IF rechunk THEN kb.kver ELSE kb.indexed]

(* The first unused job row: only when no job is active (409).             *)
Start(model, rechunk) ==
  /\ rechunk => model = kb.key[1]
  /\ \A i \in Jobs : job[i].status \notin ActiveStatuses
  /\ \E j \in Jobs :
       /\ job[j].status = "none" /\ \A i \in 1 .. (j - 1) : job[i].status # "none"
       /\ job' = [job EXCEPT ![j] = PlanReindex(model, rechunk)]
       /\ Send(task, j)
  /\ UNCHANGED <<kb, doc, rows, vec, cleaner, overtaken>>

(* The request may give `rechunk' either way, whatever needs_reindex would *)
(* have decided.                                                           *)
StartModel == "model" \in Requests /\ \E m \in Models : Start(m, FALSE)
StartRechunk == "rechunk" \in Requests /\ Start(kb.key[1], TRUE)

-----------------------------------------------------------------------------
(***************************************************************************)
(* KbReindexService.advance, one round; t executes for the job task[t].job *)
(***************************************************************************)
At(t, pc) == task[t].pc = pc
Row(t) == job[task[t].job]
First(t) == CHOOSE x \in task[t].todo : \A y \in task[t].todo : x[1] <= y[1]

Load(t) ==
  /\ task[t].pc \in {"queued", "load"}
  /\ CASE Row(t).status \in TerminalStatuses -> Done(t)
       [] Row(t).status = "pending" -> Goto(t, "begin")
       [] Row(t).status = "rechunking" -> Goto(t, "batch")
       [] Row(t).status = "embedding" -> Goto(t, "list")
  /\ UNCHANGED <<kb, doc, rows, vec, job, cleaner, overtaken>>

(* Outside the try: the constraint raises and the message is gone.         *)
Begin(t) ==
  /\ At(t, "begin")
  /\ IF Violates(task[t].job)
     THEN Done(t) /\ UNCHANGED job
     ELSE /\ SetJob(task[t].job, IF Row(t).rechunk THEN "rechunking" ELSE "embedding")
          /\ Goto(t, "reload")
  /\ UNCHANGED <<kb, doc, rows, vec, cleaner, overtaken>>

(* Anything but rechunking goes on to embedding.                           *)
Reload(t) ==
  /\ At(t, "reload")
  /\ IF Row(t).status = "rechunking" THEN Goto(t, "batch") ELSE Goto(t, "list")
  /\ UNCHANGED <<kb, doc, rows, vec, job, cleaner, overtaken>>

(* An exception inside the try: the job is marked failed whatever it says, *)
(* and the message is gone (no retry).                                     *)
FailJob(t) ==
  /\ SetJob(task[t].job, "failed")
  /\ Done(t)

(* The next documents after the cursor, in the order of their ids.         *)
After(cursor) ==
  LET later == {d \in Docs : Live(d) /\ d > cursor} IN
  {d \in later : Cardinality({e \in later : e <= d}) <= BatchSize}

Batch(t) ==
  /\ At(t, "batch")
  /\ LET next == After(Row(t).cursor) IN
     IF next = {} THEN Goto(t, "wait")
     ELSE /\ task' = [task EXCEPT ![t] =
               [@ EXCEPT !.pc = "reingest", !.last = 0, !.todo = {<<d, doc[d].gen>> : d \in next}]]
          /\ UNCHANGED faults
  /\ UNCHANGED <<kb, doc, rows, vec, job, cleaner, overtaken>>

(* DocumentService.reingest: the old chunk leaves retrieval at once.       *)
NewGeneration(d) ==
  doc' = [doc EXCEPT ![d] = [@ EXCEPT !.status = "uploaded", !.gen = doc[d].gen + 1]]

SeededNextDocument(t) ==              \* seeded fault: a busy document is skipped
  LET d == First(t)[1]
      rest == task[t].todo \ {First(t)} IN
  /\ At(t, "reingest")
  /\ IF ~Live(d) THEN FailJob(t) /\ UNCHANGED doc
     ELSE /\ IF doc[d].status \in InProgress THEN UNCHANGED doc ELSE NewGeneration(d)
          /\ task' = [task EXCEPT ![t] =
               [@ EXCEPT !.todo = rest, !.last = d,
                         !.pc = IF rest = {} THEN "mark" ELSE "reingest"]]
          /\ UNCHANGED <<job, faults>>
  /\ UNCHANGED <<kb, rows, vec, cleaner, overtaken>>

(* A busy document (409) ends the batch before it; a deleted one raises.   *)
NextDocument(t) ==
  LET d == First(t)[1]
      rest == task[t].todo \ {First(t)} IN
  /\ At(t, "reingest")
  /\ CASE ~Live(d) -> FailJob(t) /\ UNCHANGED doc
       [] Live(d) /\ doc[d].status \in InProgress ->
            /\ task' = [task EXCEPT ![t] = [@ EXCEPT !.todo = {}, !.pc = "mark"]]
            /\ UNCHANGED <<doc, job, faults>>
       [] Live(d) /\ doc[d].status \notin InProgress ->
            /\ NewGeneration(d)
            /\ task' = [task EXCEPT ![t] =
                 [@ EXCEPT !.todo = rest, !.last = d,
                           !.pc = IF rest = {} THEN "mark" ELSE "reingest"]]
            /\ UNCHANGED <<job, faults>>
  /\ UNCHANGED <<kb, rows, vec, cleaner, overtaken>>

(* The cursor names the last document that was sent.                       *)
Mark(t) ==
  /\ At(t, "mark")
  /\ job' = [job EXCEPT ![task[t].job] =
       [@ EXCEPT !.silent = FALSE, !.cursor = IF task[t].last = 0 THEN job[task[t].job].cursor ELSE task[t].last]]
  /\ Goto(t, "round")
  /\ UNCHANGED <<kb, doc, rows, vec, cleaner, overtaken>>

(* All documents are sent: embedding waits until none is processing.       *)
Wait(t) ==
  /\ At(t, "wait")
  /\ IF \E d \in Docs : Live(d) /\ doc[d].status \in StillProcessing
     THEN Heartbeat(task[t].job) /\ Goto(t, "round")
     ELSE IF Violates(task[t].job)
          THEN FailJob(t)
          ELSE SetJob(task[t].job, "embedding") /\ Goto(t, "list")
  /\ UNCHANGED <<kb, doc, rows, vec, cleaner, overtaken>>

(* Active chunks that have no vector of the target key.                    *)
List(t) ==
  LET missing == {d \in ActiveDocs : ~Has(d, Row(t).key)} IN
  /\ At(t, "list")
  /\ task' = [task EXCEPT ![t] =
       [@ EXCEPT !.pc = IF missing = {} THEN "count" ELSE "embed", !.last = 0,
                 !.todo = {<<d, doc[d].gen>> : d \in missing}]]
  /\ UNCHANGED <<kb, doc, rows, vec, job, faults, cleaner, overtaken>>

(* One batch; the vector of a chunk that was purged meanwhile violates its *)
(* foreign key.                                                            *)
Embed(t) ==
  LET c == First(t)
      rest == task[t].todo \ {c} IN
  /\ At(t, "embed")
  /\ IF c[2] \notin rows[c[1]]
     THEN FailJob(t) /\ UNCHANGED vec
     ELSE /\ vec' = [vec EXCEPT ![c[1]] = @ \union {<<c[2], Row(t).key>>}]
          /\ task' = [task EXCEPT ![t] =
               [@ EXCEPT !.todo = rest, !.pc = IF rest = {} THEN "count" ELSE "embed"]]
          /\ UNCHANGED <<job, faults>>
  /\ UNCHANGED <<kb, doc, rows, cleaner, overtaken>>

(* The last transaction of a round: the total of the active chunks, then   *)
(* the vectors of the target key, and at 100% the switch, committed later. *)
(* The second number counts the vectors of all chunk rows of the knowledge *)
(* base, cut down to the total by min.                                     *)
Total == Cardinality(ActiveDocs)
Embedded(key) ==
  Cardinality({x \in UNION {{d} \X rows[d] : d \in Docs} : <<x[2], key>> \in vec[x[1]]})
SeededComplete(key, total) == TRUE    \* seeded fault: switched after any round
Complete(key, total) == Embedded(key) >= total

Count(t) ==
  /\ At(t, "count")
  /\ task' = [task EXCEPT ![t] = [@ EXCEPT !.pc = "match", !.total = Total]]
  /\ UNCHANGED <<kb, doc, rows, vec, job, faults, cleaner, overtaken>>

Match(t) ==
  /\ At(t, "match")
  /\ IF Complete(Row(t).key, task[t].total)
     THEN Goto(t, "switch") /\ UNCHANGED job
     ELSE Goto(t, "round") /\ Heartbeat(task[t].job)
  /\ UNCHANGED <<kb, doc, rows, vec, cleaner, overtaken>>

(* Remembered for the properties: the numbers no longer say 100% when the  *)
(* switch commits, or the cleanup has read the key that is replaced.       *)
Overtakes(t) ==
  {x \in {"count"} : ~Complete(Row(t).key, Total)}
    \union {x \in {"kept"} : cleaner # {} /\ Row(t).key # kb.key}

(* KbReindexService._switch and the COMMIT.                                *)
Switch(t) ==
  /\ At(t, "switch")
  /\ kb' = [kb EXCEPT !.key = Row(t).key, !.indexed = Row(t).kver]
  /\ job' = [job EXCEPT ![task[t].job] =
       [@ EXCEPT !.status = "completed", !.silent = FALSE, !.aged = FALSE]]
  /\ overtaken' = overtaken \union Overtakes(t)
  /\ Goto(t, "round")
  /\ UNCHANGED <<doc, rows, vec, cleaner>>

(* reindex_kb: another round, or a message to itself for later.            *)
Round(t) ==
  /\ At(t, "round")
  /\ IF Row(t).status \in TerminalStatuses THEN Done(t)
     ELSE Goto(t, "load") \/ Send(Released(t), task[t].job)
  /\ UNCHANGED <<kb, doc, rows, vec, job, cleaner, overtaken>>

Execute(t) ==
  \/ Load(t) \/ Begin(t) \/ Reload(t) \/ Batch(t) \/ NextDocument(t) \/ Mark(t)
  \/ Wait(t) \/ List(t) \/ Embed(t) \/ Count(t) \/ Match(t)
  \/ Switch(t) \/ Round(t)

-----------------------------------------------------------------------------
(***************************************************************************)
(* Faults: an exception of the database or the provider, a worker that     *)
(* dies (acks_late: delivered again), a redelivery to a second worker      *)
(***************************************************************************)
Raise(t) ==
  /\ task[t].pc \notin {"idle", "queued", "round"}
  /\ Fault
  /\ task' = Released(t)
  /\ IF task[t].pc \in InTry THEN SetJob(task[t].job, "failed") ELSE UNCHANGED job
  /\ UNCHANGED <<kb, doc, rows, vec, cleaner, overtaken>>

Crash(t) ==
  /\ task[t].pc \notin {"idle", "queued"}
  /\ Fault
  /\ task' = [task EXCEPT ![t] = Message(@.job)]
  /\ UNCHANGED <<kb, doc, rows, vec, job, cleaner, overtaken>>

Redeliver(t) ==
  /\ task[t].pc \notin {"idle", "queued"}
  /\ Fault
  /\ \E s \in Tasks : /\ task[s].pc = "idle"
                      /\ task' = [task EXCEPT ![s] = Message(task[t].job)]
  /\ UNCHANGED <<kb, doc, rows, vec, job, cleaner, overtaken>>

-----------------------------------------------------------------------------
(***************************************************************************)
(* Users and the document pipeline                                         *)
(***************************************************************************)
SetDoc(d, status) == doc' = [doc EXCEPT ![d].status = status]

Upload(d) ==
  /\ "upload" \in Requests /\ doc[d].life = "absent"
  /\ doc' = [doc EXCEPT ![d].life = "live"]
  /\ UNCHANGED <<kb, rows, vec, job, task, faults, cleaner, overtaken>>

Reingest(d) ==
  /\ "reingest" \in Requests /\ Live(d) /\ doc[d].gen < MaxGen
  /\ doc[d].status \notin InProgress
  /\ NewGeneration(d)
  /\ UNCHANGED <<kb, rows, vec, job, task, faults, cleaner, overtaken>>

Delete(d) ==
  /\ "delete" \in Requests /\ Live(d)
  /\ doc' = [doc EXCEPT ![d].life = "deleted"]
  /\ UNCHANGED <<kb, rows, vec, job, task, faults, cleaner, overtaken>>

(* KnowledgeBaseService.update of the chunking parameters.                 *)
ChangeConfig ==
  /\ "config" \in Requests /\ kb.kver < MaxKver
  /\ kb' = [kb EXCEPT !.kver = @ + 1]
  /\ UNCHANGED <<doc, rows, vec, job, task, faults, cleaner, overtaken>>

(* An ingest execution cuts with the parameters of its snapshot.           *)
Parse(d) ==
  /\ Live(d) /\ doc[d].status = "uploaded"
  /\ doc' = [doc EXCEPT ![d] = [@ EXCEPT !.status = "parsing", !.cut = kb.kver]]
  /\ UNCHANGED <<kb, rows, vec, job, task, faults, cleaner, overtaken>>

Chunk(d) ==
  /\ Live(d) /\ doc[d].status = "parsing"
  /\ SetDoc(d, "chunked")
  /\ rows' = [rows EXCEPT ![d] = @ \union {doc[d].gen}]
  /\ UNCHANGED <<kb, vec, job, task, faults, cleaner, overtaken>>

(* An embedding execution stores under the key of its snapshot.            *)
EmbedStart(d) ==
  /\ Live(d) /\ doc[d].status = "chunked"
  /\ doc' = [doc EXCEPT ![d] = [@ EXCEPT !.status = "embedding", !.key = kb.key]]
  /\ UNCHANGED <<kb, rows, vec, job, task, faults, cleaner, overtaken>>

EmbedDone(d) ==
  /\ Live(d) /\ doc[d].status = "embedding"
  /\ SetDoc(d, "ready")
  /\ vec' = [vec EXCEPT ![d] = @ \union {<<doc[d].gen, doc[d].key>>}]
  /\ UNCHANGED <<kb, rows, job, task, faults, cleaner, overtaken>>

DocumentFails(d) ==
  /\ Live(d) /\ doc[d].status \in InProgress
  /\ SetDoc(d, "failed")
  /\ UNCHANGED <<kb, rows, vec, job, task, faults, cleaner, overtaken>>

Pipeline(d) == Parse(d) \/ Chunk(d) \/ EmbedStart(d) \/ EmbedDone(d)
User(d) == Upload(d) \/ Reingest(d) \/ Delete(d)

-----------------------------------------------------------------------------
(***************************************************************************)
(* Beat and the clock                                                      *)
(***************************************************************************)
(* A pending job gets its message again, a started one is given up.        *)
RescuePending(j) ==
  /\ job[j].status = "pending" /\ job[j].silent
  /\ Send(task, j)
  /\ UNCHANGED <<kb, doc, rows, vec, job, cleaner, overtaken>>

SeededRescueStalled(j) ==             \* seeded fault: only re-chunking jobs
  /\ job[j].status = "rechunking" /\ job[j].silent
  /\ SetJob(j, "failed")
  /\ UNCHANGED <<kb, doc, rows, vec, task, faults, cleaner, overtaken>>

RescueStalled(j) ==
  /\ job[j].status \in {"rechunking", "embedding"} /\ job[j].silent
  /\ SetJob(j, "failed")
  /\ UNCHANGED <<kb, doc, rows, vec, task, faults, cleaner, overtaken>>

(* OldEmbeddingCleanupService: the window of a completed job is over; the  *)
(* current key of the knowledge base is read, and then every other key     *)
(* goes.                                                                   *)
SeededKept(j) == job[j].key           \* seeded fault: the job's own target
Kept(j) == kb.key

ReadKept(j) ==
  /\ job[j].status = "completed" /\ job[j].aged /\ ~job[j].purged
  /\ \A r \in cleaner : r[1] # j
  /\ cleaner' = cleaner \union {<<j, Kept(j)>>}
  /\ UNCHANGED <<kb, doc, rows, vec, job, task, faults, overtaken>>

PurgeOld(j) ==
  /\ \E key \in Keys :
       /\ <<j, key>> \in cleaner
       /\ vec' = [d \in Docs |-> {x \in vec[d] : x[2] = key}]
       /\ cleaner' = cleaner \ {<<j, key>>}
  /\ job' = [job EXCEPT ![j] = [@ EXCEPT !.purged = TRUE, !.silent = FALSE]]
  /\ UNCHANGED <<kb, doc, rows, task, faults, overtaken>>

(* Its transaction is rolled back; the next night reads again.             *)
CleanerFails ==
  /\ cleaner # {} /\ Fault
  /\ cleaner' = {}
  /\ UNCHANGED <<kb, doc, rows, vec, job, task, overtaken>>

(* ChunkCleanupService: superseded chunks of ready documents.              *)
PurgeSuperseded ==
  LET kept(d) == IF doc[d].status # "ready" THEN rows[d]
                 ELSE IF Live(d) THEN rows[d] \intersect {doc[d].gen} ELSE {} IN
  /\ \E d \in Docs : kept(d) # rows[d]
  /\ rows' = [d \in Docs |-> kept(d)]
  /\ vec' = [d \in Docs |-> {x \in vec[d] : x[1] \in kept(d)}]
  /\ UNCHANGED <<kb, doc, job, task, faults, cleaner, overtaken>>

(* No half hour passes between the two transactions around "reload".       *)
Stall(j) ==
  /\ job[j].status \in ActiveStatuses /\ ~job[j].silent
  /\ \A t \in Tasks : task[t].job = j => task[t].pc # "reload"
  /\ job' = [job EXCEPT ![j].silent = TRUE]
  /\ UNCHANGED <<kb, doc, rows, vec, task, faults, cleaner, overtaken>>

WindowEnds(j) ==
  /\ job[j].status = "completed" /\ ~job[j].aged
  /\ job' = [job EXCEPT ![j].aged = TRUE]
  /\ UNCHANGED <<kb, doc, rows, vec, task, faults, cleaner, overtaken>>

Beat(j) == RescuePending(j) \/ RescueStalled(j) \/ ReadKept(j) \/ PurgeOld(j)

Next ==
  \/ \E t \in Tasks : Execute(t) \/ Raise(t) \/ Crash(t) \/ Redeliver(t)
  \/ \E d \in Docs : User(d) \/ Pipeline(d) \/ DocumentFails(d)
  \/ \E j \in Jobs : Beat(j) \/ Stall(j) \/ WindowEnds(j)
  \/ StartModel \/ StartRechunk \/ ChangeConfig \/ PurgeSuperseded \/ CleanerFails

Spec == Init /\ [][Next]_vars

(* Workers and the document pipeline keep going, time passes, Beat scans.  *)
Fairness ==
  /\ \A t \in Tasks : WF_vars(Execute(t))
  /\ \A d \in Docs : WF_vars(Pipeline(d))
  /\ \A j \in Jobs : WF_vars(Stall(j)) /\ WF_vars(Beat(j))

FairSpec == Spec /\ Fairness

-----------------------------------------------------------------------------
(***************************************************************************)
(* Properties that hold                                                    *)
(***************************************************************************)
(* While documents only come (no re-ingest, no deletion), a ready document *)
(* has its vector under the key retrieval uses, also when it was embedded  *)
(* during the rebuild under the old key: it is lost in no other way than a *)
(* switch that commits although its numbers became stale, or a cleanup     *)
(* that had read the key before it (reindex.py:359-370, _switch;           *)
(* cleanup.py:99-116).                                                     *)
ReadyIsFound ==
  overtaken = {} =>
    \A d \in Docs : Live(d) /\ doc[d].status = "ready" => Has(d, kb.key)

(* Whatever is purged, whichever execution switches and whoever fails: the *)
(* vectors retrieval is using are not deleted, unless a switch committed   *)
(* after the cleanup had read the key it keeps (cleanup.py:109-115).       *)
CurrentVectorsSurvive ==
  [][\A d \in Docs :
       Active(d) /\ Has(d, kb.key) /\ "kept" \notin overtaken
         => <<doc[d].gen, kb.key>> \in vec'[d]]_vars

(* indexed_knowledge_version is not claimed too early: every ready         *)
(* document is cut with parameters at least that new (reindex.py:437-439). *)
IndexedIsCut ==
  \A d \in Docs : Live(d) /\ doc[d].status = "ready" => doc[d].cut >= kb.indexed

(* A job never blocks its knowledge base for good: it completes or fails   *)
(* (rescue.py:103-106).                                                    *)
JobsEnd ==
  \A j \in Jobs : job[j].status \in ActiveStatuses ~> job[j].status \in TerminalStatuses

(***************************************************************************)
(* Claims of the sources that the code does not keep                       *)
(***************************************************************************)
(* reindex_plan.py:68-73: switched before 100%, the documents not yet done *)
(* leave retrieval until the next round; with the statement-by-statement   *)
(* numbers a late document can leave it for good.                          *)
SwitchLosesNothing ==
  \A d \in Docs : Live(d) /\ doc[d].status = "ready" => Has(d, kb.key)

(* reindex_plan.py:59-61: the numerator counts those of the active chunks  *)
(* that have a target vector; 68-73: or the switch comes too early.        *)
SwitchIsComplete ==
  [][kb'.key # kb.key => \A d \in ActiveDocs : Has(d, kb'.key)]_vars

(* rescue.py:112-117: failing a stalled job is final.                      *)
FailedIsFinal ==
  [][\A j \in Jobs : job[j].status = "failed" => job'[j].status = "failed"]_vars

(* cleanup.py:74-76, knowledge.py:811-813: vectors a job in progress has   *)
(* computed are never purged.                                              *)
RebuiltVectorsSurvive ==
  [][\A j \in Jobs, d \in Docs :
       job[j].status = "embedding" /\ Active(d) /\ Has(d, job[j].key)
         => <<doc[d].gen, job[j].key>> \in vec'[d]]_vars
=============================================================================
