-------------------------- MODULE KbReindexProofs --------------------------
(***************************************************************************)
(* Rebuilds of a knowledge base, for every number of documents, jobs,      *)
(* executions, models and faults: the vectors in use survive every purge   *)
(* no switch overtakes, while documents only come a rebuild loses none of  *)
(* them but by a switch whose numbers are stale, no chunking is claimed    *)
(* early, and every job gets one embedding version.                        *)
(***************************************************************************)
EXTENDS KbReindex, TLAPS, FiniteSetTheorems, WellFoundedInduction

-----------------------------------------------------------------------------
(* The vectors in use                                                      *)

VecShape == vec = [d \in Docs |-> vec[d]]
KbShape == "key" \in DOMAIN kb

(* A cleanup keeps the key retrieval uses, until a switch overtakes it.    *)
ReadInUse == "kept" \notin overtaken => \A r \in cleaner : r[2] = kb.key

Survives == \A d \in Docs :
  Active(d) /\ Has(d, kb.key) /\ "kept" \notin overtaken => <<doc[d].gen, kb.key>> \in vec'[d]

(* What the cleanup has read stays the key in use, or the switch that      *)
(* replaced it is remembered.                                              *)
LEMMA ReadStaysInUse ==
  ASSUME KbShape, ReadInUse, [Next]_vars
  PROVE  KbShape' /\ ReadInUse'
<1>1. ASSUME UNCHANGED <<kb, cleaner, overtaken>>
      PROVE  KbShape' /\ ReadInUse'
  BY <1>1 DEF KbShape, ReadInUse
<1>2. ASSUME NEW t \in Tasks, Execute(t)
      PROVE  KbShape' /\ ReadInUse'
  <2>1. CASE Switch(t)
    <3>1. kb' = [kb EXCEPT !.key = Row(t).key, !.indexed = Row(t).kver]
          /\ overtaken' = overtaken \union Overtakes(t) /\ cleaner' = cleaner
      BY <2>1 DEF Switch
    <3>2. KbShape' /\ kb'.key = Row(t).key
      BY <3>1 DEF KbShape
    <3>3. "kept" \notin overtaken' => "kept" \notin overtaken /\ (cleaner = {} \/ Row(t).key = kb.key)
      BY <3>1 DEF Overtakes
    <3>. QED  BY <3>1, <3>2, <3>3 DEF ReadInUse
  <2>2. CASE ~ Switch(t)
    BY <1>1, <1>2, <2>2 DEF Execute, Load, Begin, Reload, Batch, NextDocument, Mark, Wait, List, Embed,
                            Count, Match, Round
  <2>. QED  BY <2>1, <2>2
<1>3. ASSUME NEW t \in Tasks, Raise(t) \/ Crash(t) \/ Redeliver(t)
      PROVE  KbShape' /\ ReadInUse'
  BY <1>1, <1>3 DEF Raise, Crash, Redeliver
<1>4. ASSUME NEW d \in Docs, User(d) \/ Pipeline(d) \/ DocumentFails(d)
      PROVE  KbShape' /\ ReadInUse'
  BY <1>1, <1>4 DEF User, Upload, Reingest, Delete, Pipeline, Parse, Chunk, EmbedStart, EmbedDone,
                    DocumentFails
<1>5. ASSUME NEW j \in Jobs, Beat(j) \/ Stall(j) \/ WindowEnds(j)
      PROVE  KbShape' /\ ReadInUse'
  <2>1. CASE ReadKept(j)
    <3>1. UNCHANGED <<kb, overtaken>> /\ cleaner' = cleaner \union {<<j, kb.key>>}
      BY <2>1 DEF ReadKept, Kept
    <3>. QED  BY <3>1 DEF KbShape, ReadInUse
  <2>2. CASE PurgeOld(j)
    <3>1. UNCHANGED <<kb, overtaken>> /\ cleaner' \subseteq cleaner
      BY <2>2 DEF PurgeOld
    <3>. QED  BY <3>1 DEF KbShape, ReadInUse
  <2>3. CASE RescuePending(j) \/ RescueStalled(j) \/ Stall(j) \/ WindowEnds(j)
    BY <1>1, <2>3 DEF RescuePending, RescueStalled, Stall, WindowEnds
  <2>. QED  BY <1>5, <2>1, <2>2, <2>3 DEF Beat
<1>6. CASE StartModel \/ StartRechunk \/ PurgeSuperseded
  BY <1>1, <1>6 DEF StartModel, StartRechunk, Start, PurgeSuperseded
<1>7. CASE ChangeConfig
  BY <1>7 DEF ChangeConfig, KbShape, ReadInUse
<1>8. CASE CleanerFails
  BY <1>8 DEF CleanerFails, KbShape, ReadInUse
<1>9. CASE UNCHANGED vars
  BY <1>1, <1>9 DEF vars
<1>. QED  BY <1>2, <1>3, <1>4, <1>5, <1>6, <1>7, <1>8, <1>9 DEF Next

(* Nothing but the two purges takes a vector away.                         *)
LEMMA OnlyPurgesTake ==
  ASSUME VecShape, Next
  PROVE  \/ vec' = vec
         \/ \E d, x : vec' = [vec EXCEPT ![d] = @ \union {x}]
         \/ \E j \in Jobs : PurgeOld(j)
         \/ PurgeSuperseded
<1>1. ASSUME NEW t \in Tasks, Execute(t)
      PROVE  vec' = vec \/ \E d, x : vec' = [vec EXCEPT ![d] = @ \union {x}]
  BY <1>1 DEF Execute, Load, Begin, Reload, Batch, NextDocument, Mark, Wait, List, Embed, Count,
              Match, Switch, Round
<1>2. ASSUME NEW t \in Tasks, Raise(t) \/ Crash(t) \/ Redeliver(t)
      PROVE  vec' = vec
  BY <1>2 DEF Raise, Crash, Redeliver
<1>3. ASSUME NEW d \in Docs, User(d) \/ Pipeline(d) \/ DocumentFails(d)
      PROVE  vec' = vec \/ \E e, x : vec' = [vec EXCEPT ![e] = @ \union {x}]
  BY <1>3 DEF User, Upload, Reingest, Delete, Pipeline, Parse, Chunk, EmbedStart, EmbedDone,
              DocumentFails
<1>4. ASSUME NEW j \in Jobs,
             RescuePending(j) \/ RescueStalled(j) \/ ReadKept(j) \/ Stall(j) \/ WindowEnds(j)
      PROVE  vec' = vec
  BY <1>4 DEF RescuePending, RescueStalled, ReadKept, Stall, WindowEnds
<1>5. ASSUME StartModel \/ StartRechunk \/ ChangeConfig \/ CleanerFails
      PROVE  vec' = vec
  BY <1>5 DEF StartModel, StartRechunk, Start, ChangeConfig, CleanerFails
<1>. QED  BY <1>1, <1>2, <1>3, <1>4, <1>5 DEF Next, Beat

(* A purge keeps the key it has read, and the chunk that retrieval reads.  *)
LEMMA StepSurvives ==
  ASSUME VecShape, ReadInUse, [Next]_vars
  PROVE  VecShape' /\ Survives
<1>1. CASE vec' = vec
  BY <1>1 DEF VecShape, Survives, Has
<1>2. ASSUME NEW e, NEW x, vec' = [vec EXCEPT ![e] = @ \union {x}]
      PROVE  VecShape' /\ Survives
  <2>1. vec' = [d \in Docs |-> IF d = e THEN vec[d] \union {x} ELSE vec[d]]
    BY <1>2 DEF VecShape
  <2>. QED  BY <2>1 DEF VecShape, Survives, Has
<1>3. ASSUME NEW j \in Jobs, PurgeOld(j)
      PROVE  VecShape' /\ Survives
  <2>1. PICK key \in Keys :
          <<j, key>> \in cleaner /\ vec' = [d \in Docs |-> {x \in vec[d] : x[2] = key}]
    BY <1>3 DEF PurgeOld
  <2>2. "kept" \notin overtaken => key = kb.key
    BY <2>1 DEF ReadInUse
  <2>. QED  BY <2>1, <2>2 DEF VecShape, Survives, Has
<1>4. CASE PurgeSuperseded
  <2>. DEFINE kept(d) == IF doc[d].status # "ready" THEN rows[d]
                         ELSE IF Live(d) THEN rows[d] \intersect {doc[d].gen} ELSE {}
  <2>1. vec' = [d \in Docs |-> {x \in vec[d] : x[1] \in kept(d)}]
    BY <1>4 DEF PurgeSuperseded
  <2>2. \A d \in Docs : Active(d) => doc[d].gen \in kept(d)
    BY DEF Active
  <2>. HIDE DEF kept
  <2>. QED  BY <2>1, <2>2 DEF VecShape, Survives, Has
<1>5. CASE UNCHANGED vars
  BY <1>1, <1>5 DEF vars
<1>. QED  BY <1>1, <1>2, <1>3, <1>4, <1>5, OnlyPurgesTake

(* OldEmbeddingCleanupService and ChunkCleanupService: whatever is purged, *)
(* rebuilt, switched or re-ingested, the vector of a chunk in retrieval    *)
(* under the key of the knowledge base is not deleted, as long as no       *)
(* switch has overtaken a cleanup that had read the key it keeps.          *)
THEOREM VectorsInUseStay == Spec => CurrentVectorsSurvive
<1>. DEFINE Inv == VecShape /\ KbShape /\ ReadInUse
<1>1. Init => Inv
  BY DEF Init, VecShape, KbShape, ReadInUse
<1>2. Inv /\ [Next]_vars => Inv'
  BY StepSurvives, ReadStaysInUse
<1>3. Inv /\ [Next]_vars =>
        [\A d \in Docs :
           Active(d) /\ Has(d, kb.key) /\ "kept" \notin overtaken
             => <<doc[d].gen, kb.key>> \in vec'[d]]_vars
  BY StepSurvives DEF Survives
<1>. QED  BY <1>1, <1>2, <1>3, PTL DEF Spec, CurrentVectorsSurvive

-----------------------------------------------------------------------------
(* While documents only come                                               *)

OnlyUploads == Requests \subseteq {"upload", "model"}

AnyKey == Models \X Nat
KbRow == [key : AnyKey, kver : Nat, indexed : Nat]
DocRow == [life : {"absent", "live"}, status : DocStatuses, gen : {1}, cut : Nat, key : AnyKey]
JobRow == [status : {"none", "pending", "embedding", "completed", "failed"}, key : AnyKey,
           kver : Nat, rechunk : {FALSE}, cursor : Docs \union {0}, silent : BOOLEAN,
           aged : BOOLEAN, purged : BOOLEAN]
UploadSteps == {"idle", "queued", "load", "begin", "reload", "round", "list", "embed", "count",
                "match", "switch"}
Slot == [job : Jobs \union {0}, pc : UploadSteps, todo : SUBSET (Docs \X Nat),
         last : Docs \union {0}, total : Nat]

(* Messages and executions are about jobs that were opened.                *)
Fit(slots, jobs) ==
  /\ slots \in [Tasks -> Slot]
  /\ \A t \in Tasks : slots[t].pc # "idle" =>
       slots[t].job \in Jobs /\ jobs[slots[t].job].status # "none"

JobSide == job \in [Jobs -> JobRow] /\ Fit(task, job)

DocTypes ==
  /\ kb \in KbRow /\ doc \in [Docs -> DocRow] /\ rows \in [Docs -> SUBSET {1}] /\ VecShape

(* A document has its chunk from the cut on.                               *)
Grown == \A d \in Docs :
  /\ doc[d].life = "absent" => doc[d].status = "uploaded"
  /\ doc[d].status \in {"uploaded", "parsing"} => rows[d] = {}
  /\ doc[d].status \in {"chunked", "embedding", "ready"} => rows[d] = {1}

(* A document that is being embedded under an older key was counted by the *)
(* switch, which had its vector of the new key; unless a switch committed  *)
(* on stale numbers, or after a cleanup had read the key before.           *)
Found == overtaken = {} => \A d \in Docs :
  /\ doc[d].status = "embedding" => doc[d].key = kb.key \/ Has(d, kb.key)
  /\ doc[d].status = "ready" => Has(d, kb.key)

DocSide == DocTypes /\ Grown /\ Found

UploadInv == DocSide /\ JobSide /\ KbShape /\ ReadInUse

-----------------------------------------------------------------------------
(* Messages and executions                                                 *)

(* An execution that goes on.                                              *)
LEMMA GotoFits ==
  ASSUME NEW jobs, Fit(task, jobs), NEW t \in Tasks, task[t].pc # "idle",
         NEW pc \in UploadSteps, Goto(t, pc)
  PROVE  Fit(task', jobs)
<1>1. task' = [task EXCEPT ![t] = [@ EXCEPT !.pc = pc, !.todo = {}, !.last = 0, !.total = 0]]
  BY DEF Goto
<1>2. task[t] \in Slot
  BY DEF Fit
<1>3. [task[t] EXCEPT !.pc = pc, !.todo = {}, !.last = 0, !.total = 0] \in Slot
  BY <1>2 DEF Slot
<1>. QED  BY <1>1, <1>2, <1>3 DEF Fit, Slot

(* An execution that ends.                                                 *)
LEMMA ReleasedFits ==
  ASSUME NEW jobs, Fit(task, jobs), NEW t \in Tasks
  PROVE  Fit(Released(t), jobs)
<1>1. Idle \in Slot /\ Idle.pc = "idle"
  BY DEF Idle, Slot, UploadSteps
<1>. QED  BY <1>1 DEF Fit, Released

(* A new message about a job.                                              *)
LEMMA MessageFits ==
  ASSUME NEW jobs, NEW slots, Fit(slots, jobs), NEW s, NEW j \in Jobs, jobs[j].status # "none"
  PROVE  Fit([slots EXCEPT ![s] = Message(j)], jobs)
<1>1. Message(j) \in Slot /\ Message(j).job = j
  BY DEF Message, Slot, UploadSteps
<1>. QED  BY <1>1 DEF Fit

(* enqueue_reindex: the message is sent or lost.                           *)
LEMMA SendFits ==
  ASSUME NEW jobs, NEW slots, Fit(slots, jobs), NEW j \in Jobs, jobs[j].status # "none",
         Send(slots, j)
  PROVE  Fit(task', jobs)
<1>1. task' = slots \/ \E s \in Tasks : task' = [slots EXCEPT ![s] = Message(j)]
  BY DEF Send
<1>. QED  BY <1>1, MessageFits

(* A job that is written stays opened.                                     *)
LEMMA WrittenFits ==
  ASSUME JobSide, NEW j, NEW row, j \in Jobs => row \in JobRow /\ row.status # "none",
         job' = [job EXCEPT ![j] = row]
  PROVE  job' \in [Jobs -> JobRow] /\ Fit(task, job')
<1>1. job \in [Jobs -> JobRow] /\ Fit(task, job)
  BY DEF JobSide
<1>2. job' \in [Jobs -> JobRow]
  BY <1>1
<1>3. \A i \in Jobs : job[i].status # "none" => job'[i].status # "none"
  BY <1>1
<1>. QED  BY <1>1, <1>2, <1>3 DEF Fit

(* KbReindexJobRepository.update with a new status.                        *)
LEMMA SetJobFits ==
  ASSUME JobSide, NEW j \in Jobs,
         NEW status \in {"pending", "embedding", "completed", "failed"}, SetJob(j, status)
  PROVE  job' \in [Jobs -> JobRow] /\ Fit(task, job')
<1>. DEFINE row == [job[j] EXCEPT !.status = status, !.silent = FALSE]
<1>1. job' = [job EXCEPT ![j] = row]
  BY DEF SetJob
<1>2. job[j] \in JobRow
  BY DEF JobSide
<1>3. row \in JobRow /\ row.status = status
  BY <1>2 DEF JobRow
<1>4. row.status # "none"
  BY <1>3
<1>. HIDE DEF row
<1>. QED  BY <1>1, <1>3, <1>4, WrittenFits

(* Only the time of the last news, or of the window, of a job.             *)
LEMMA ClockFits ==
  ASSUME JobSide, NEW j \in Jobs, NEW row \in JobRow,
         row.status = job[j].status, job' = [job EXCEPT ![j] = row]
  PROVE  job' \in [Jobs -> JobRow] /\ Fit(task, job')
<1>1. job \in [Jobs -> JobRow] /\ Fit(task, job)
  BY DEF JobSide
<1>2. job' \in [Jobs -> JobRow]
  BY <1>1
<1>3. \A i \in Jobs : job'[i].status = job[i].status
  BY <1>1
<1>. QED  BY <1>1, <1>2, <1>3 DEF Fit

(* What an execution finds in the row of its job.                          *)
LEMMA RowFits ==
  ASSUME JobSide, NEW t \in Tasks, task[t].pc # "idle"
  PROVE  /\ task[t].job \in Jobs /\ Row(t) = job[task[t].job] /\ Row(t) \in JobRow
         /\ Row(t).status \in {"pending", "embedding", "completed", "failed"}
         /\ Row(t).rechunk = FALSE
<1>1. task[t].job \in Jobs /\ job[task[t].job].status # "none"
  BY DEF JobSide, Fit
<1>2. Row(t) \in JobRow /\ Row(t) = job[task[t].job]
  BY <1>1 DEF JobSide, Row
<1>. QED  BY <1>1, <1>2 DEF JobRow

-----------------------------------------------------------------------------
(* The executions keep messages and jobs in order                          *)

(* advance: what is done for the status it finds.                          *)
LEMMA LoadKeeps ==
  ASSUME JobSide, NEW t \in Tasks, Load(t)
  PROVE  JobSide'
<1>1. task[t].pc # "idle" /\ job' = job /\ Fit(task, job)
  BY DEF Load, JobSide
<1>2. Row(t).status \in {"pending", "embedding", "completed", "failed"}
  BY <1>1, RowFits
<1>3. Done(t) \/ Goto(t, "begin") \/ Goto(t, "list")
  BY <1>2 DEF Load, TerminalStatuses
<1>4. Fit(task', job)
  <2>1. CASE Done(t)
    BY <1>1, <2>1, ReleasedFits DEF Done
  <2>2. CASE Goto(t, "begin") \/ Goto(t, "list")
    BY <1>1, <2>2, GotoFits DEF UploadSteps
  <2>. QED  BY <1>3, <2>1, <2>2
<1>. QED  BY <1>1, <1>4 DEF JobSide

(* The first transaction of a job.                                         *)
LEMMA BeginKeeps ==
  ASSUME JobSide, NEW t \in Tasks, Begin(t)
  PROVE  JobSide'
<1>1. task[t].pc # "idle" /\ Fit(task, job)
  BY DEF Begin, At, JobSide
<1>2. task[t].job \in Jobs /\ Row(t).rechunk = FALSE
  BY <1>1, RowFits
<1>3. CASE Done(t) /\ job' = job
  BY <1>1, <1>3, ReleasedFits DEF Done, JobSide
<1>4. CASE SetJob(task[t].job, "embedding") /\ Goto(t, "reload")
  <2>1. job' \in [Jobs -> JobRow] /\ Fit(task, job')
    BY <1>2, <1>4, SetJobFits
  <2>2. Fit(task', job')
    BY <1>1, <1>4, <2>1, GotoFits DEF UploadSteps
  <2>. QED  BY <2>1, <2>2 DEF JobSide
<1>. QED  BY <1>2, <1>3, <1>4 DEF Begin

(* A rebuild goes on to embedding.                                         *)
LEMMA ReloadKeeps ==
  ASSUME JobSide, NEW t \in Tasks, Reload(t)
  PROVE  JobSide'
<1>1. task[t].pc # "idle" /\ job' = job /\ Fit(task, job)
  BY DEF Reload, At, JobSide
<1>2. Goto(t, "list")
  BY <1>1, RowFits DEF Reload
<1>3. Fit(task', job)
  BY <1>1, <1>2, GotoFits DEF UploadSteps
<1>. QED  BY <1>1, <1>3 DEF JobSide

(* The chunks without a vector of the target key.                          *)
LEMMA ListKeeps ==
  ASSUME JobSide, DocTypes, NEW t \in Tasks, List(t)
  PROVE  JobSide'
<1>1. task[t].pc # "idle" /\ job' = job /\ Fit(task, job) /\ task[t] \in Slot
  BY DEF List, At, JobSide, Fit
<1>2. PICK missing \in SUBSET Docs :
        task' = [task EXCEPT ![t] =
          [@ EXCEPT !.pc = IF missing = {} THEN "count" ELSE "embed", !.last = 0,
                    !.todo = {<<d, doc[d].gen>> : d \in missing}]]
  BY DEF List, ActiveDocs
<1>3. \A d \in Docs : doc[d].gen \in Nat
  BY DEF DocTypes, DocRow
<1>4. {<<d, doc[d].gen>> : d \in missing} \in SUBSET (Docs \X Nat)
  BY <1>3
<1>. DEFINE todo == {<<d, doc[d].gen>> : d \in missing}
            row == [task[t] EXCEPT !.pc = IF missing = {} THEN "count" ELSE "embed", !.last = 0,
                                   !.todo = todo]
<1>5. row \in Slot /\ row.job = task[t].job
  <2>. HIDE DEF todo
  <2>1. todo \in SUBSET (Docs \X Nat)
    BY <1>4 DEF todo
  <2>. QED  BY <1>1, <2>1 DEF Slot, UploadSteps
<1>6. task' = [task EXCEPT ![t] = row]
  BY <1>2
<1>7. Fit(task', job)
  <2>. HIDE DEF row
  <2>. QED  BY <1>1, <1>5, <1>6 DEF Fit
<1>. QED  BY <1>1, <1>7 DEF JobSide

(* One batch, or the end of the job.                                       *)
LEMMA EmbedKeeps ==
  ASSUME JobSide, NEW t \in Tasks, Embed(t)
  PROVE  JobSide'
<1>1. task[t].pc # "idle" /\ Fit(task, job) /\ task[t] \in Slot
  BY DEF Embed, At, JobSide, Fit
<1>2. task[t].job \in Jobs
  BY <1>1, RowFits
<1>3. CASE FailJob(t)
  <2>1. job' \in [Jobs -> JobRow] /\ Fit(task, job')
    BY <1>2, <1>3, SetJobFits DEF FailJob
  <2>2. Fit(task', job')
    BY <1>3, <2>1, ReleasedFits DEF FailJob, Done
  <2>. QED  BY <2>1, <2>2 DEF JobSide
<1>4. ASSUME NEW rest \in SUBSET task[t].todo, job' = job,
             task' = [task EXCEPT ![t] =
               [@ EXCEPT !.todo = rest, !.pc = IF rest = {} THEN "count" ELSE "embed"]]
      PROVE  JobSide'
  <2>. DEFINE row == [task[t] EXCEPT !.todo = rest, !.pc = IF rest = {} THEN "count" ELSE "embed"]
  <2>1. row \in Slot /\ row.job = task[t].job
    BY <1>1, <1>4 DEF Slot, UploadSteps
  <2>2. task' = [task EXCEPT ![t] = row]
    BY <1>4
  <2>3. Fit(task', job)
    <3>. HIDE DEF row
    <3>. QED  BY <1>1, <2>1, <2>2 DEF Fit
  <2>. QED  BY <1>4, <2>3 DEF JobSide
<1>5. FailJob(t) \/ \E rest \in SUBSET task[t].todo :
        /\ job' = job
        /\ task' = [task EXCEPT ![t] =
             [@ EXCEPT !.todo = rest, !.pc = IF rest = {} THEN "count" ELSE "embed"]]
  <2>1. task[t].todo \ {First(t)} \in SUBSET task[t].todo
    OBVIOUS
  <2>. QED  BY <2>1 DEF Embed
<1>. QED  BY <1>3, <1>4, <1>5

(* The chunks in retrieval can be counted.                                 *)
LEMMA TotalIsNumber == Total \in Nat /\ IsFiniteSet(ActiveDocs)
<1>1. IsFiniteSet(Docs)
  BY InstanceAssumption, FS_Interval DEF Docs
<1>2. IsFiniteSet(ActiveDocs)
  BY <1>1, FS_Subset DEF ActiveDocs
<1>. QED  BY <1>2, FS_CardinalityType DEF Total

(* The total, before the vectors are counted.                              *)
LEMMA CountKeeps ==
  ASSUME JobSide, NEW t \in Tasks, Count(t)
  PROVE  JobSide'
<1>1. task[t].pc # "idle" /\ job' = job /\ Fit(task, job) /\ task[t] \in Slot
  BY DEF Count, At, JobSide, Fit
<1>2. PICK total \in Nat : task' = [task EXCEPT ![t] = [@ EXCEPT !.pc = "match", !.total = total]]
  BY TotalIsNumber DEF Count
<1>. DEFINE row == [task[t] EXCEPT !.pc = "match", !.total = total]
<1>3. row \in Slot /\ row.job = task[t].job /\ task' = [task EXCEPT ![t] = row]
  BY <1>1, <1>2 DEF Slot, UploadSteps
<1>4. Fit(task', job)
  <2>. HIDE DEF row
  <2>. QED  BY <1>1, <1>3 DEF Fit
<1>. QED  BY <1>1, <1>4 DEF JobSide

(* On to the switch, or another round.                                     *)
LEMMA MatchKeeps ==
  ASSUME JobSide, NEW t \in Tasks, Match(t)
  PROVE  JobSide'
<1>1. task[t].pc # "idle" /\ Fit(task, job)
  BY DEF Match, At, JobSide
<1>2. task[t].job \in Jobs /\ Row(t) \in JobRow /\ job[task[t].job] \in JobRow
      /\ job[task[t].job].status # "none"
  BY <1>1, RowFits
<1>3. CASE Goto(t, "switch") /\ job' = job
  <2>1. Fit(task', job)
    BY <1>1, <1>3, GotoFits DEF UploadSteps
  <2>. QED  BY <1>3, <2>1 DEF JobSide
<1>4. CASE Goto(t, "round") /\ Heartbeat(task[t].job)
  <2>. DEFINE row == [job[task[t].job] EXCEPT !.silent = FALSE]
  <2>1. row \in JobRow /\ row.status = job[task[t].job].status
    BY <1>2 DEF JobRow
  <2>2. job' = [job EXCEPT ![task[t].job] = row]
    BY <1>2, <1>4 DEF Heartbeat, JobSide
  <2>. HIDE DEF row
  <2>3. job' \in [Jobs -> JobRow] /\ Fit(task, job')
    BY <1>2, <2>1, <2>2, ClockFits
  <2>4. Fit(task', job')
    BY <1>1, <1>4, <2>3, GotoFits DEF UploadSteps
  <2>. QED  BY <2>3, <2>4 DEF JobSide
<1>. QED  BY <1>3, <1>4 DEF Match

(* The switch completes the job.                                           *)
LEMMA SwitchFits ==
  ASSUME JobSide, NEW t \in Tasks, Switch(t)
  PROVE  JobSide'
<1>1. task[t].pc # "idle" /\ Goto(t, "round")
  BY DEF Switch, At
<1>2. task[t].job \in Jobs /\ Row(t) = job[task[t].job] /\ Row(t) \in JobRow
  BY <1>1, RowFits
<1>. DEFINE row == [job[task[t].job] EXCEPT !.status = "completed", !.silent = FALSE, !.aged = FALSE]
<1>3. row \in JobRow /\ row.status # "none" /\ job' = [job EXCEPT ![task[t].job] = row]
  BY <1>2 DEF JobRow, Switch
<1>4. job' \in [Jobs -> JobRow] /\ Fit(task, job')
  <2>. HIDE DEF row
  <2>. QED  BY <1>3, WrittenFits
<1>5. Fit(task', job')
  BY <1>1, <1>4, GotoFits DEF UploadSteps
<1>. QED  BY <1>4, <1>5 DEF JobSide

(* Another round, or a message to itself.                                  *)
LEMMA RoundKeeps ==
  ASSUME JobSide, NEW t \in Tasks, Round(t)
  PROVE  JobSide'
<1>1. task[t].pc # "idle" /\ job' = job /\ Fit(task, job)
  BY DEF Round, At, JobSide
<1>2. task[t].job \in Jobs /\ job[task[t].job].status # "none"
  BY <1>1 DEF Fit
<1>3. Fit(Released(t), job)
  BY <1>1, ReleasedFits
<1>4. CASE Done(t)
  BY <1>1, <1>3, <1>4 DEF Done, JobSide
<1>5. CASE Goto(t, "load")
  <2>1. Fit(task', job)
    BY <1>1, <1>5, GotoFits DEF UploadSteps
  <2>. QED  BY <1>1, <2>1 DEF JobSide
<1>6. CASE Send(Released(t), task[t].job)
  <2>1. Fit(task', job)
    BY <1>2, <1>3, <1>6, SendFits
  <2>. QED  BY <1>1, <2>1 DEF JobSide
<1>. QED  BY <1>4, <1>5, <1>6 DEF Round

(* Re-chunking is not asked for, so no execution gets to its steps.        *)
LEMMA NoRechunking ==
  ASSUME JobSide, NEW t \in Tasks, Batch(t) \/ NextDocument(t) \/ Mark(t) \/ Wait(t)
  PROVE  FALSE
<1>1. task[t].pc \in UploadSteps
  BY DEF JobSide, Fit, Slot
<1>. QED  BY <1>1 DEF Batch, NextDocument, Mark, Wait, At, UploadSteps

(* An exception, a death, a second delivery.                               *)
LEMMA FaultKeeps ==
  ASSUME JobSide, NEW t \in Tasks, Raise(t) \/ Crash(t) \/ Redeliver(t)
  PROVE  JobSide'
<1>1. task[t].pc # "idle" /\ Fit(task, job)
  BY DEF Raise, Crash, Redeliver, JobSide
<1>2. task[t].job \in Jobs /\ job[task[t].job].status # "none"
  BY <1>1 DEF Fit
<1>3. CASE Raise(t)
  <2>1. job' \in [Jobs -> JobRow] /\ Fit(task, job')
    <3>1. CASE SetJob(task[t].job, "failed")
      BY <1>2, <3>1, SetJobFits
    <3>2. CASE job' = job
      BY <3>2 DEF JobSide
    <3>. QED  BY <1>3, <3>1, <3>2 DEF Raise
  <2>2. Fit(task', job')
    BY <1>3, <2>1, ReleasedFits DEF Raise
  <2>. QED  BY <2>1, <2>2 DEF JobSide
<1>4. CASE Crash(t) \/ Redeliver(t)
  <2>1. job' = job
    BY <1>4 DEF Crash, Redeliver
  <2>2. PICK s \in Tasks : task' = [task EXCEPT ![s] = Message(task[t].job)]
    BY <1>4 DEF Crash, Redeliver
  <2>3. Fit(task', job)
    BY <1>1, <1>2, <2>2, MessageFits
  <2>. QED  BY <2>1, <2>3 DEF JobSide
<1>. QED  BY <1>3, <1>4

(* KbReindexService.start: the row of the new job is one for uploads.      *)
LEMMA StartKeeps ==
  ASSUME JobSide, DocTypes, NEW m \in Models, Start(m, FALSE)
  PROVE  JobSide'
<1>. DEFINE row == PlanReindex(m, FALSE)
<1>1. PICK j \in Jobs : job' = [job EXCEPT ![j] = row] /\ Send(task, j)
  BY DEF Start
<1>2. row \in JobRow /\ row.status = "pending"
  <2>1. kb.key[2] + 1 \in Nat /\ kb.indexed \in Nat
    BY DEF DocTypes, KbRow, AnyKey
  <2>. QED  BY <2>1 DEF PlanReindex, NoJob, JobRow, AnyKey
<1>. HIDE DEF row
<1>3. job' \in [Jobs -> JobRow] /\ Fit(task, job')
  BY <1>1, <1>2, WrittenFits
<1>4. job'[j].status # "none"
  BY <1>1, <1>2 DEF JobSide
<1>5. Fit(task', job')
  BY <1>1, <1>3, <1>4, SendFits
<1>. QED  BY <1>3, <1>5 DEF JobSide

(* Beat and the clock.                                                     *)
LEMMA BeatKeeps ==
  ASSUME JobSide, NEW j \in Jobs, Beat(j) \/ Stall(j) \/ WindowEnds(j)
  PROVE  JobSide'
<1>. job \in [Jobs -> JobRow] /\ Fit(task, job) /\ job[j] \in JobRow
  BY DEF JobSide
<1>1. CASE RescuePending(j)
  <2>1. job' = job /\ Send(task, j) /\ job[j].status # "none"
    BY <1>1 DEF RescuePending
  <2>2. Fit(task', job)
    BY <2>1, SendFits
  <2>. QED  BY <2>1, <2>2 DEF JobSide
<1>2. CASE RescueStalled(j)
  <2>1. job' \in [Jobs -> JobRow] /\ Fit(task, job') /\ task' = task
    BY <1>2, SetJobFits DEF RescueStalled
  <2>. QED  BY <2>1 DEF JobSide
<1>3. CASE PurgeOld(j) \/ Stall(j) \/ WindowEnds(j)
  <2>1. task' = task
    BY <1>3 DEF PurgeOld, Stall, WindowEnds
  <2>2. \E row \in JobRow : row.status = job[j].status /\ job' = [job EXCEPT ![j] = row]
    <3>1. CASE PurgeOld(j)
      <4>1. LET row == [job[j] EXCEPT !.purged = TRUE, !.silent = FALSE] IN
              row \in JobRow /\ row.status = job[j].status /\ job' = [job EXCEPT ![j] = row]
        BY <3>1 DEF PurgeOld, JobRow
      <4>. QED  BY <4>1
    <3>2. CASE Stall(j)
      <4>1. LET row == [job[j] EXCEPT !.silent = TRUE] IN
              row \in JobRow /\ row.status = job[j].status /\ job' = [job EXCEPT ![j] = row]
        BY <3>2 DEF Stall, JobRow
      <4>. QED  BY <4>1
    <3>3. CASE WindowEnds(j)
      <4>1. LET row == [job[j] EXCEPT !.aged = TRUE] IN
              row \in JobRow /\ row.status = job[j].status /\ job' = [job EXCEPT ![j] = row]
        BY <3>3 DEF WindowEnds, JobRow
      <4>. QED  BY <4>1
    <3>. QED  BY <1>3, <3>1, <3>2, <3>3
  <2>3. job' \in [Jobs -> JobRow] /\ Fit(task, job')
    BY <2>2, ClockFits
  <2>. QED  BY <2>1, <2>3 DEF JobSide
<1>4. CASE ReadKept(j)
  BY <1>4 DEF ReadKept, JobSide
<1>. QED  BY <1>1, <1>2, <1>3, <1>4 DEF Beat

-----------------------------------------------------------------------------
(* The documents                                                           *)

(* The step of an execution or of a job leaves the documents as they are.  *)
LEMMA DocsStay ==
  ASSUME DocSide, UNCHANGED <<kb, doc, rows, vec, overtaken>>
  PROVE  DocSide'
BY DEF DocSide, DocTypes, VecShape, Grown, Found, Has

(* A document that goes on from one status to the next, the others as they *)
(* were.                                                                   *)
LEMMA OneDocument ==
  ASSUME DocSide, NEW d \in Docs, NEW row \in DocRow, doc' = [doc EXCEPT ![d] = row],
         UNCHANGED kb, UNCHANGED overtaken, rows' \in [Docs -> SUBSET {1}], VecShape',
         \A e \in Docs \ {d} : rows'[e] = rows[e] /\ vec[e] \subseteq vec'[e],
         row.life = "absent" => row.status = "uploaded",
         row.status \in {"uploaded", "parsing"} => rows'[d] = {},
         row.status \in {"chunked", "embedding", "ready"} => rows'[d] = {1},
         overtaken = {} /\ row.status = "embedding" => row.key = kb.key \/ <<1, kb.key>> \in vec'[d],
         overtaken = {} /\ row.status = "ready" => <<1, kb.key>> \in vec'[d]
  PROVE  DocSide'
<1>1. doc \in [Docs -> DocRow] /\ DocTypes /\ Grown /\ Found
  BY DEF DocSide, DocTypes
<1>2. doc' \in [Docs -> DocRow] /\ doc'[d] = row /\ \A e \in Docs \ {d} : doc'[e] = doc[e]
  BY <1>1
<1>3. \A e \in Docs : doc[e].gen = 1 /\ doc'[e].gen = 1
  BY <1>1, <1>2 DEF DocRow
<1>4. DocTypes'
  BY <1>1, <1>2 DEF DocTypes
<1>5. Grown'
  BY <1>1, <1>2 DEF Grown
<1>6. Found'
  BY <1>1, <1>2, <1>3 DEF Found, Has
<1>. QED  BY <1>4, <1>5, <1>6 DEF DocSide

(* A document is added.                                                    *)
LEMMA UserKeeps ==
  ASSUME OnlyUploads, DocSide, NEW d \in Docs, User(d)
  PROVE  DocSide'
<1>1. Upload(d)
  BY DEF OnlyUploads, User, Reingest, Delete
<1>. DEFINE row == [doc[d] EXCEPT !.life = "live"]
<1>2. doc' = [doc EXCEPT ![d] = row] /\ UNCHANGED <<kb, rows, vec, overtaken>>
  BY <1>1 DEF Upload
<1>3. doc[d] \in DocRow /\ rows \in [Docs -> SUBSET {1}] /\ VecShape /\ doc[d].life = "absent"
  BY <1>1 DEF Upload, DocSide, DocTypes
<1>4. doc[d].status = "uploaded" /\ rows[d] = {}
  BY <1>3 DEF DocSide, Grown
<1>5. row \in DocRow /\ row.status = "uploaded" /\ row.life = "live"
  BY <1>3, <1>4 DEF DocRow
<1>6. VecShape'
  BY <1>2, <1>3 DEF VecShape
<1>. HIDE DEF row
<1>. QED  BY <1>2, <1>3, <1>4, <1>5, <1>6, OneDocument

(* Ingestion starts.                                                       *)
LEMMA ParseKeeps ==
  ASSUME DocSide, NEW d \in Docs, Parse(d)
  PROVE  DocSide'
<1>. DEFINE row == [doc[d] EXCEPT !.status = "parsing", !.cut = kb.kver]
<1>1. doc' = [doc EXCEPT ![d] = row] /\ UNCHANGED <<kb, rows, vec, overtaken>> /\ doc[d].life = "live"
      /\ doc[d].status = "uploaded"
  BY DEF Parse, Live
<1>2. doc[d] \in DocRow /\ rows \in [Docs -> SUBSET {1}] /\ VecShape /\ kb.kver \in Nat
  BY DEF DocSide, DocTypes, KbRow
<1>3. rows[d] = {}
  BY <1>1 DEF DocSide, Grown
<1>4. row \in DocRow /\ row.status = "parsing" /\ row.life = "live"
  BY <1>1, <1>2 DEF DocRow, DocStatuses
<1>5. VecShape'
  BY <1>1, <1>2 DEF VecShape
<1>. HIDE DEF row
<1>. QED  BY <1>1, <1>2, <1>3, <1>4, <1>5, OneDocument

(* The chunk is there.                                                     *)
LEMMA ChunkKeeps ==
  ASSUME DocSide, NEW d \in Docs, Chunk(d)
  PROVE  DocSide'
<1>. DEFINE row == [doc[d] EXCEPT !.status = "chunked"]
<1>1. doc' = [doc EXCEPT ![d] = row] /\ UNCHANGED <<kb, vec, overtaken>> /\ doc[d].life = "live"
      /\ rows' = [rows EXCEPT ![d] = @ \union {doc[d].gen}]
  BY DEF Chunk, Live, SetDoc
<1>2. doc[d] \in DocRow /\ rows \in [Docs -> SUBSET {1}] /\ VecShape /\ doc[d].gen = 1
  BY DEF DocSide, DocTypes, DocRow
<1>3. rows' \in [Docs -> SUBSET {1}] /\ rows'[d] = {1} /\ \A e \in Docs \ {d} : rows'[e] = rows[e]
  BY <1>1, <1>2
<1>4. row \in DocRow /\ row.status = "chunked" /\ row.life = "live"
  BY <1>1, <1>2 DEF DocRow, DocStatuses
<1>5. VecShape'
  BY <1>1, <1>2 DEF VecShape
<1>. HIDE DEF row
<1>. QED  BY <1>1, <1>3, <1>4, <1>5, OneDocument

(* An embedding execution takes the key of the moment.                     *)
LEMMA EmbedStartKeeps ==
  ASSUME DocSide, NEW d \in Docs, EmbedStart(d)
  PROVE  DocSide'
<1>. DEFINE row == [doc[d] EXCEPT !.status = "embedding", !.key = kb.key]
<1>1. doc' = [doc EXCEPT ![d] = row] /\ UNCHANGED <<kb, rows, vec, overtaken>> /\ doc[d].life = "live"
      /\ doc[d].status = "chunked"
  BY DEF EmbedStart, Live
<1>2. doc[d] \in DocRow /\ rows \in [Docs -> SUBSET {1}] /\ VecShape /\ kb.key \in AnyKey
  BY DEF DocSide, DocTypes, KbRow
<1>3. rows[d] = {1}
  BY <1>1 DEF DocSide, Grown
<1>4. row \in DocRow /\ row.status = "embedding" /\ row.life = "live" /\ row.key = kb.key
  BY <1>1, <1>2 DEF DocRow, DocStatuses
<1>5. VecShape'
  BY <1>1, <1>2 DEF VecShape
<1>. HIDE DEF row
<1>. QED  BY <1>1, <1>2, <1>3, <1>4, <1>5, OneDocument

(* Whichever key it was embedded under, the new one is there.              *)
LEMMA EmbedDoneKeeps ==
  ASSUME DocSide, NEW d \in Docs, EmbedDone(d)
  PROVE  DocSide'
<1>. DEFINE row == [doc[d] EXCEPT !.status = "ready"]
<1>1. doc' = [doc EXCEPT ![d] = row] /\ UNCHANGED <<kb, rows, overtaken>> /\ doc[d].life = "live"
      /\ doc[d].status = "embedding"
      /\ vec' = [vec EXCEPT ![d] = @ \union {<<doc[d].gen, doc[d].key>>}]
  BY DEF EmbedDone, Live, SetDoc
<1>2. doc[d] \in DocRow /\ rows \in [Docs -> SUBSET {1}] /\ VecShape /\ doc[d].gen = 1
  BY DEF DocSide, DocTypes, DocRow
<1>3. rows[d] = {1} /\ (overtaken = {} => doc[d].key = kb.key \/ <<1, kb.key>> \in vec[d])
  BY <1>1, <1>2 DEF DocSide, Grown, Found, Has
<1>4. row \in DocRow /\ row.status = "ready" /\ row.life = "live"
  BY <1>1, <1>2 DEF DocRow, DocStatuses
<1>5. vec' = [e \in Docs |-> IF e = d THEN vec[d] \union {<<1, doc[d].key>>} ELSE vec[e]]
  BY <1>1, <1>2 DEF VecShape
<1>6. VecShape' /\ (overtaken = {} => <<1, kb.key>> \in vec'[d]) /\ \A e \in Docs : vec[e] \subseteq vec'[e]
  BY <1>3, <1>5 DEF VecShape
<1>. HIDE DEF row
<1>. QED  BY <1>1, <1>2, <1>3, <1>4, <1>6, OneDocument

(* A document fails.                                                       *)
LEMMA DocumentFailsKeeps ==
  ASSUME DocSide, NEW d \in Docs, DocumentFails(d)
  PROVE  DocSide'
<1>. DEFINE row == [doc[d] EXCEPT !.status = "failed"]
<1>1. doc' = [doc EXCEPT ![d] = row] /\ UNCHANGED <<kb, rows, vec, overtaken>> /\ doc[d].life = "live"
  BY DEF DocumentFails, Live, SetDoc
<1>2. doc[d] \in DocRow /\ rows \in [Docs -> SUBSET {1}] /\ VecShape
  BY DEF DocSide, DocTypes
<1>3. row \in DocRow /\ row.status = "failed" /\ row.life = "live"
  BY <1>1, <1>2 DEF DocRow, DocStatuses
<1>4. VecShape'
  BY <1>1, <1>2 DEF VecShape
<1>. HIDE DEF row
<1>. QED  BY <1>1, <1>2, <1>3, <1>4, OneDocument

(* A rebuild that stores a vector, a purge of the older keys.              *)
LEMMA VectorsKeep ==
  ASSUME DocSide, UNCHANGED <<kb, doc, rows, overtaken>>, VecShape',
         overtaken = {} => \A d \in Docs : Has(d, kb.key) => <<doc[d].gen, kb.key>> \in vec'[d]
  PROVE  DocSide'
<1>1. overtaken = {} => \A d \in Docs : Has(d, kb.key) => Has(d, kb.key)'
  BY DEF Has
<1>2. DocTypes' /\ Grown'
  BY DEF DocSide, DocTypes, Grown
<1>3. Found'
  BY <1>1 DEF DocSide, Found
<1>. QED  BY <1>2, <1>3 DEF DocSide

(* A rebuild stores a vector.                                              *)
LEMMA StoredKeeps ==
  ASSUME DocSide, NEW t \in Tasks, Embed(t)
  PROVE  DocSide'
<1>1. UNCHANGED <<kb, doc, rows, overtaken>> /\ VecShape
  BY DEF Embed, DocSide, DocTypes
<1>2. CASE vec' = vec
  BY <1>1, <1>2, DocsStay
<1>3. ASSUME NEW e, NEW x, vec' = [vec EXCEPT ![e] = @ \union {x}]
      PROVE  DocSide'
  <2>1. vec' = [d \in Docs |-> IF d = e THEN vec[d] \union {x} ELSE vec[d]]
    BY <1>1, <1>3 DEF VecShape
  <2>2. VecShape' /\ \A d \in Docs : Has(d, kb.key) => <<doc[d].gen, kb.key>> \in vec'[d]
    BY <2>1 DEF VecShape, Has
  <2>. QED  BY <1>1, <2>2, VectorsKeep
<1>. QED  BY <1>2, <1>3 DEF Embed

(* A purge keeps the key of the knowledge base, unless it was overtaken.   *)
LEMMA PurgeOldKeeps ==
  ASSUME DocSide, ReadInUse, NEW j \in Jobs, PurgeOld(j)
  PROVE  DocSide'
<1>1. UNCHANGED <<kb, doc, rows, overtaken>>
  BY DEF PurgeOld
<1>2. PICK key \in Keys :
        <<j, key>> \in cleaner /\ vec' = [d \in Docs |-> {x \in vec[d] : x[2] = key}]
  BY DEF PurgeOld
<1>3. overtaken = {} => key = kb.key
  BY <1>2 DEF ReadInUse
<1>4. VecShape' /\ (overtaken = {} => \A d \in Docs : Has(d, kb.key) => <<doc[d].gen, kb.key>> \in vec'[d])
  BY <1>2, <1>3 DEF VecShape, Has
<1>. QED  BY <1>1, <1>4, VectorsKeep

(* Without re-ingests there is nothing superseded.                         *)
LEMMA PurgeSupersededKeeps ==
  ASSUME DocSide, PurgeSuperseded
  PROVE  DocSide'
<1>. DEFINE kept(d) == IF doc[d].status # "ready" THEN rows[d]
                       ELSE IF Live(d) THEN rows[d] \intersect {doc[d].gen} ELSE {}
<1>1. PICK d \in Docs : kept(d) # rows[d]
  BY DEF PurgeSuperseded
<1>2. doc[d] \in DocRow /\ Grown
  BY DEF DocSide, DocTypes
<1>3. doc[d].status = "ready"
  BY <1>1
<1>4. doc[d].gen = 1 /\ doc[d].life \in {"absent", "live"}
  BY <1>2 DEF DocRow
<1>5. doc[d].life = "live" /\ rows[d] = {1}
  BY <1>2, <1>3, <1>4 DEF Grown
<1>6. kept(d) = rows[d]
  BY <1>3, <1>4, <1>5 DEF Live
<1>. QED  BY <1>1, <1>6

-----------------------------------------------------------------------------
(* The switch                                                              *)

(* Without superseded chunks the numerator counts what it should: when it  *)
(* reaches the total, every chunk in retrieval has its vector.             *)
LEMMA CompleteIsWhole ==
  ASSUME DocSide, NEW key, Complete(key, Total)
  PROVE  \A d \in ActiveDocs : Has(d, key)
<1>1. doc \in [Docs -> DocRow] /\ rows \in [Docs -> SUBSET {1}] /\ Grown
  BY DEF DocSide, DocTypes
<1>. DEFINE E == {x \in UNION {{d} \X rows[d] : d \in Docs} : <<x[2], key>> \in vec[x[1]]}
            D == {d \in Docs : 1 \in rows[d] /\ <<1, key>> \in vec[d]}
            f == [d \in D |-> <<d, 1>>]
            P == {<<d, 1>> : d \in D}
<1>2. IsFiniteSet(Docs)
  BY InstanceAssumption, FS_Interval DEF Docs
<1>3. IsFiniteSet(D) /\ IsFiniteSet(ActiveDocs)
  BY <1>2, FS_Subset DEF ActiveDocs
<1>4. D \subseteq ActiveDocs
  <2>1. SUFFICES ASSUME NEW d \in D PROVE d \in ActiveDocs
    OBVIOUS
  <2>2. doc[d] \in DocRow /\ rows[d] # {}
    BY <1>1, <2>1
  <2>3. doc[d].status # "uploaded"
    BY <1>1, <2>2 DEF Grown
  <2>4. doc[d].life # "absent"
    BY <1>1, <2>3 DEF Grown
  <2>5. doc[d].life = "live" /\ doc[d].gen = 1
    BY <2>2, <2>4 DEF DocRow
  <2>. QED  BY <2>5 DEF ActiveDocs, Active, Live
<1>5. E \subseteq P
  <2>1. SUFFICES ASSUME NEW x \in E PROVE x \in P
    OBVIOUS
  <2>2. x[1] \in Docs /\ x[2] \in rows[x[1]] /\ <<x[2], key>> \in vec[x[1]] /\ x = <<x[1], x[2]>>
    OBVIOUS
  <2>3. x[2] = 1
    BY <1>1, <2>2
  <2>. QED  BY <2>2, <2>3
<1>6. IsFiniteSet(P) /\ Cardinality(P) <= Cardinality(D)
  <2>1. f \in Surjection(D, P)
    BY DEF Surjection
  <2>. HIDE DEF f, D, P
  <2>. QED  BY <1>3, <2>1, FS_Surjection
<1>7. Cardinality(E) <= Cardinality(P)
  <2>. HIDE DEF E, P
  <2>. QED  BY <1>5, <1>6, FS_Subset
<1>8. Cardinality(E) >= Cardinality(ActiveDocs)
  BY DEF Complete, Embedded, Total
<1>9. D = ActiveDocs
  <2>1. Cardinality(D) <= Cardinality(ActiveDocs)
    <3>. HIDE DEF D
    <3>. QED  BY <1>3, <1>4, FS_Subset
  <2>2. /\ Cardinality(D) \in Nat /\ Cardinality(ActiveDocs) \in Nat
        /\ Cardinality(P) \in Nat /\ Cardinality(E) \in Nat
    <3>1. IsFiniteSet(E)
      <4>. HIDE DEF E, P
      <4>. QED  BY <1>5, <1>6, FS_Subset
    <3>. HIDE DEF D, E, P
    <3>. QED  BY <1>3, <1>6, <3>1, FS_CardinalityType
  <2>3. Cardinality(D) = Cardinality(ActiveDocs)
    <3>. HIDE DEF D, E, P
    <3>. QED  BY <1>6, <1>7, <1>8, <2>1, <2>2
  <2>. HIDE DEF D
  <2>. QED  BY <1>3, <1>4, <2>3, FS_Subset
<1>10. \A d \in ActiveDocs : doc[d].gen = 1
  BY <1>1 DEF ActiveDocs, DocRow
<1>. QED  BY <1>9, <1>10 DEF Has

(* _switch: what is embedded under the old key meanwhile has the new       *)
(* vector, as its chunk was counted, while the numbers are not stale.      *)
LEMMA SwitchKeeps ==
  ASSUME DocSide, JobSide, NEW t \in Tasks, Switch(t)
  PROVE  DocSide'
<1>1. /\ UNCHANGED <<doc, rows, vec>> /\ task[t].pc # "idle"
      /\ kb' = [kb EXCEPT !.key = Row(t).key, !.indexed = Row(t).kver]
      /\ overtaken' = overtaken \union Overtakes(t)
  BY DEF Switch, At
<1>2. Row(t) \in JobRow /\ kb \in KbRow /\ doc \in [Docs -> DocRow] /\ Grown
  BY <1>1, RowFits DEF DocSide, DocTypes
<1>3. kb' \in KbRow /\ kb'.key = Row(t).key
  BY <1>1, <1>2 DEF KbRow, JobRow
<1>4. ASSUME overtaken' = {}  PROVE \A d \in ActiveDocs : Has(d, Row(t).key)
  <2>1. Complete(Row(t).key, Total)
    BY <1>1, <1>4 DEF Overtakes
  <2>. QED  BY <2>1, CompleteIsWhole
<1>5. \A d \in Docs : doc[d].status \in {"embedding", "ready"} => d \in ActiveDocs
  <2>1. SUFFICES ASSUME NEW d \in Docs, doc[d].status \in {"embedding", "ready"}
                 PROVE  d \in ActiveDocs
    OBVIOUS
  <2>2. doc[d].gen = 1 /\ doc[d].life \in {"absent", "live"}
    BY <1>2 DEF DocRow
  <2>3. rows[d] = {1} /\ doc[d].life = "live"
    BY <1>2, <2>1, <2>2 DEF Grown
  <2>. QED  BY <2>2, <2>3 DEF ActiveDocs, Active, Live
<1>6. DocTypes' /\ Grown'
  BY <1>1, <1>3 DEF DocSide, DocTypes, VecShape, Grown
<1>7. Found'
  BY <1>1, <1>3, <1>4, <1>5 DEF Found, Has
<1>. QED  BY <1>6, <1>7 DEF DocSide

-----------------------------------------------------------------------------
(* The knowledge base at first: the documents that are there are ready.    *)
LEMMA UploadsBegin ==
  ASSUME Init
  PROVE  UploadInv
<1>1. <<FirstModel, 1>> \in AnyKey
  BY InstanceAssumption DEF AnyKey
<1>2. kb \in KbRow /\ kb.key = <<FirstModel, 1>>
  BY <1>1 DEF Init, KbRow
<1>3. doc \in [Docs -> DocRow]
  <2>1. \A d \in Docs : [life |-> IF d \in Present THEN "live" ELSE "absent",
                         status |-> IF d \in Present THEN "ready" ELSE "uploaded",
                         gen |-> 1, cut |-> 1, key |-> <<FirstModel, 1>>] \in DocRow
    BY <1>1 DEF DocRow, DocStatuses
  <2>. QED  BY <2>1 DEF Init
<1>4. rows \in [Docs -> SUBSET {1}] /\ VecShape
  BY DEF Init, VecShape
<1>5. Grown
  BY DEF Init, Grown
<1>6. Found
  BY <1>2 DEF Init, Found, Has
<1>7. job \in [Jobs -> JobRow]
  <2>1. NoJob \in JobRow
    BY <1>1 DEF NoJob, JobRow
  <2>. QED  BY <2>1 DEF Init
<1>8. Fit(task, job)
  <2>1. Idle \in Slot /\ Idle.pc = "idle"
    BY DEF Idle, Slot, UploadSteps
  <2>. QED  BY <2>1 DEF Init, Fit
<1>9. KbShape /\ ReadInUse
  BY DEF Init, KbShape, ReadInUse
<1>. QED  BY <1>2, <1>3, <1>4, <1>5, <1>6, <1>7, <1>8, <1>9 DEF UploadInv, DocSide, DocTypes, JobSide

(* Every action that uploads and rebuilds can take keeps the invariant.    *)
LEMMA UploadStep ==
  ASSUME OnlyUploads, UploadInv, [Next]_vars
  PROVE  UploadInv'
<1>. DocSide /\ JobSide /\ DocTypes /\ KbShape /\ ReadInUse
  BY DEF UploadInv, DocSide
<1>. KbShape' /\ ReadInUse'
  BY ReadStaysInUse
<1>1. CASE UNCHANGED vars
  BY <1>1, DocsStay DEF vars, UploadInv, JobSide, Fit
<1>2. ASSUME NEW t \in Tasks, Load(t) \/ Begin(t) \/ Reload(t) \/ List(t) \/ Round(t)
      PROVE  UploadInv'
  <2>1. JobSide'
    BY <1>2, LoadKeeps, BeginKeeps, ReloadKeeps, ListKeeps, RoundKeeps
  <2>2. UNCHANGED <<kb, doc, rows, vec, overtaken>>
    BY <1>2 DEF Load, Begin, Reload, List, Round
  <2>. QED  BY <2>1, <2>2, DocsStay DEF UploadInv
<1>3. ASSUME NEW t \in Tasks, Embed(t) PROVE UploadInv'
  BY <1>3, EmbedKeeps, StoredKeeps DEF UploadInv
<1>4. ASSUME NEW t \in Tasks, Count(t) \/ Match(t) \/ Switch(t) PROVE UploadInv'
  <2>1. JobSide'
    BY <1>4, CountKeeps, MatchKeeps, SwitchFits
  <2>2. CASE Switch(t)
    BY <2>1, <2>2, SwitchKeeps DEF UploadInv
  <2>3. CASE Count(t) \/ Match(t)
    <3>1. UNCHANGED <<kb, doc, rows, vec, overtaken>>
      BY <2>3 DEF Count, Match
    <3>. QED  BY <2>1, <3>1, DocsStay DEF UploadInv
  <2>. QED  BY <1>4, <2>2, <2>3
<1>5. ASSUME NEW t \in Tasks, Raise(t) \/ Crash(t) \/ Redeliver(t) PROVE UploadInv'
  <2>1. UNCHANGED <<kb, doc, rows, vec, overtaken>>
    BY <1>5 DEF Raise, Crash, Redeliver
  <2>. QED  BY <1>5, <2>1, FaultKeeps, DocsStay DEF UploadInv
<1>6. ASSUME NEW d \in Docs, User(d) \/ Pipeline(d) \/ DocumentFails(d) PROVE UploadInv'
  <2>1. UNCHANGED <<job, task>>
    BY <1>6 DEF User, Upload, Reingest, Delete, Pipeline, Parse, Chunk, EmbedStart, EmbedDone,
                DocumentFails
  <2>2. JobSide'
    BY <2>1 DEF JobSide, Fit
  <2>3. DocSide'
    BY <1>6, UserKeeps, ParseKeeps, ChunkKeeps, EmbedStartKeeps, EmbedDoneKeeps,
       DocumentFailsKeeps DEF Pipeline
  <2>. QED  BY <2>2, <2>3 DEF UploadInv
<1>7. ASSUME NEW j \in Jobs, Beat(j) \/ Stall(j) \/ WindowEnds(j) PROVE UploadInv'
  <2>1. JobSide'
    BY <1>7, BeatKeeps
  <2>2. CASE PurgeOld(j)
    BY <2>1, <2>2, PurgeOldKeeps DEF UploadInv
  <2>3. CASE RescuePending(j) \/ RescueStalled(j) \/ ReadKept(j) \/ Stall(j) \/ WindowEnds(j)
    <3>1. UNCHANGED <<kb, doc, rows, vec, overtaken>>
      BY <2>3 DEF RescuePending, RescueStalled, ReadKept, Stall, WindowEnds
    <3>. QED  BY <2>1, <3>1, DocsStay DEF UploadInv
  <2>. QED  BY <1>7, <2>2, <2>3 DEF Beat
<1>8. CASE StartModel
  <2>1. PICK m \in Models : Start(m, FALSE)
    BY <1>8 DEF StartModel
  <2>2. UNCHANGED <<kb, doc, rows, vec, overtaken>>
    BY <2>1 DEF Start
  <2>. QED  BY <2>1, <2>2, StartKeeps, DocsStay DEF UploadInv
<1>9. CASE PurgeSuperseded
  <2>1. UNCHANGED <<job, task>>
    BY <1>9 DEF PurgeSuperseded
  <2>2. JobSide'
    BY <2>1 DEF JobSide, Fit
  <2>. QED  BY <1>9, <2>2, PurgeSupersededKeeps DEF UploadInv
<1>10. ~StartRechunk /\ ~ChangeConfig
  BY DEF OnlyUploads, StartRechunk, ChangeConfig
<1>11. ASSUME NEW t \in Tasks PROVE ~(Batch(t) \/ NextDocument(t) \/ Mark(t) \/ Wait(t))
  BY NoRechunking
<1>12. CASE CleanerFails
  <2>1. UNCHANGED <<job, task, kb, doc, rows, vec, overtaken>>
    BY <1>12 DEF CleanerFails
  <2>2. JobSide'
    BY <2>1 DEF JobSide, Fit
  <2>. QED  BY <2>1, <2>2, DocsStay DEF UploadInv
<1>. QED  BY <1>1, <1>2, <1>3, <1>4, <1>5, <1>6, <1>7, <1>8, <1>9, <1>10, <1>11, <1>12
          DEF Next, Execute

(* While users only upload and rebuild, a document that says ready is      *)
(* found under the key of the knowledge base: also when it was embedded    *)
(* during the rebuild under the key before, whichever execution crashes,   *)
(* is delivered twice or is given up, and whatever is purged; as long as   *)
(* no switch commits whose numbers have become stale, or after a cleanup   *)
(* had read the key before it (_advance_embedding, _switch).               *)
THEOREM UploadsAreFound == OnlyUploads => (Spec => []ReadyIsFound)
<1>. SUFFICES ASSUME OnlyUploads PROVE Spec => []ReadyIsFound
  OBVIOUS
<1>1. Init => UploadInv
  BY UploadsBegin
<1>2. UploadInv /\ [Next]_vars => UploadInv'
  BY UploadStep
<1>3. UploadInv => ReadyIsFound
  BY DEF UploadInv, DocSide, Found, ReadyIsFound
<1>. QED  BY <1>1, <1>2, <1>3, PTL DEF Spec

-----------------------------------------------------------------------------
(* Whatever users ask for: the chunking that is claimed                    *)

(* One execution at a time: what the retries of a message, a redelivery    *)
(* and the rescue leave of the others comes after it.                      *)
OneExecution == \A s, t \in Tasks : s = t

AnyDoc == [life : {"absent", "live", "deleted"}, status : DocStatuses, gen : Nat, cut : Nat, key : AnyKey]
AnyJob == [status : ActiveStatuses \union TerminalStatuses \union {"none"}, key : AnyKey, kver : Nat,
           rechunk : BOOLEAN, cursor : Docs \union {0}, silent : BOOLEAN, aged : BOOLEAN, purged : BOOLEAN]
AnySlot == [job : Jobs \union {0}, pc : Steps, todo : SUBSET (Docs \X Nat), last : Docs \union {0},
            total : Nat]
CutTypes ==
  kb \in KbRow /\ doc \in [Docs -> AnyDoc] /\ job \in [Jobs -> AnyJob] /\ task \in [Tasks -> AnySlot]

(* A document that is cut with parameters that new, or will be before it   *)
(* is ready again.                                                         *)
Fresh(x, v) == x.life = "live" /\ x.status \notin {"uploaded", "failed"} => x.cut >= v
AllFresh(v) == \A d \in Docs : Fresh(doc[d], v)
NotYetUploaded == \A d \in Docs : doc[d].life = "absent" => doc[d].status = "uploaded"

(* What a job has done: the documents up to its cursor, or all of them.    *)
JobFits(x) ==
  x.status # "none" =>
    /\ x.kver <= kb.kver
    /\ \A d \in Docs : d <= x.cursor => Fresh(doc[d], x.kver)
    /\ ~ x.rechunk \/ x.status \in {"embedding", "completed"} => AllFresh(x.kver)

(* What an execution has done of a batch: the documents it has left behind.*)
Listed(s, d) == \E y \in s.todo : y[1] = d
Behind(s, d) == d <= s.last \/ \E y \in s.todo : d < y[1]
BatchFits(s, v) ==
  /\ \A y \in s.todo : y[1] > s.last /\ \A z \in s.todo : y[1] = z[1] => y = z
  /\ \A d \in Docs : ~ Listed(s, d) /\ Behind(s, d) => Fresh(doc[d], v)
AfterTheBatches == {"wait", "list", "embed", "count", "match", "switch"}
SlotFits(s, x) ==
  /\ s.pc = "reload" => ~ x.silent /\ (x.rechunk => x.status = "rechunking")
  /\ s.pc \in AfterTheBatches => AllFresh(x.kver)
  /\ s.pc \in {"reingest", "mark"} => BatchFits(s, x.kver)
  /\ s.pc = "reingest" => s.todo # {}
TaskFits(t) ==
  task[t].pc # "idle" =>
    task[t].job \in Jobs /\ job[task[t].job].status # "none" /\ SlotFits(task[t], job[task[t].job])

Claim == kb.indexed <= kb.kver /\ AllFresh(kb.indexed) /\ NotYetUploaded
CutInv ==
  CutTypes /\ Claim /\ (\A j \in Jobs : JobFits(job[j])) /\ (\A t \in Tasks : TaskFits(t))

(* The least of some numbers: First finds one.                             *)
LessThan == {ss \in Nat \X Nat : ss[1] < ss[2]}
LEMMA LeastOf ==
  ASSUME NEW S \in SUBSET Nat, S # {}
  PROVE  \E x \in S : \A y \in S : x <= y
<1>1. IsWellFoundedOn(LessThan, Nat)
  BY NatLessThanWellFounded DEF OpToRel, LessThan
<1>2. \A x, y \in Nat : x < y => <<x, y>> \in LessThan
  BY DEF LessThan
<1>3. PICK x \in S : \A y \in S : ~ (<<y, x>> \in LessThan)
  BY <1>1, WFMin
<1>4. \A y \in S : ~ (y < x)
  BY <1>2, <1>3
<1>. QED  BY <1>4

LEMMA DocsAreNumbers == Docs \subseteq Nat \ {0} /\ IsFiniteSet(Docs)
<1>1. NDocs \in Nat
  BY InstanceAssumption
<1>. QED  BY <1>1, FS_Interval DEF Docs

LEMMA DocNumber == \A d \in Docs : d \in Nat /\ d > 0 /\ ~ (d <= 0)
<1>1. \A d \in Docs : d \in Nat \ {0}
  BY DocsAreNumbers
<1>. QED  BY <1>1

(* First(t): the entry of the least document.                              *)
LEMMA FirstIsLeast ==
  ASSUME CutTypes, NEW t \in Tasks, task[t].todo # {}
  PROVE  First(t) \in task[t].todo /\ \A y \in task[t].todo : First(t)[1] <= y[1]
<1>1. task[t].todo \in SUBSET (Docs \X Nat)
  BY DEF CutTypes, AnySlot
<1>. DEFINE S == {y[1] : y \in task[t].todo}
<1>2. S \in SUBSET Nat /\ S # {}
  BY <1>1, DocsAreNumbers
<1>3. PICK n \in S : \A m \in S : n <= m
  BY <1>2, LeastOf
<1>4. PICK x \in task[t].todo : x[1] = n
  BY <1>3
<1>5. \A y \in task[t].todo : x[1] <= y[1]
  BY <1>3, <1>4
<1>. QED  BY <1>4, <1>5 DEF First

(* After: what comes first among the documents after the cursor is taken.  *)
LEMMA AfterTakesTheFirst ==
  ASSUME CutTypes, NEW c \in Nat, NEW d \in Docs, Live(d), d > c
  PROVE  /\ After(c) # {}
         /\ \A e \in After(c) : d <= e => d \in After(c)
<1>. DEFINE later == {e \in Docs : Live(e) /\ e > c}
            upto(e) == {f \in later : f <= e}
<1>1. later \subseteq Nat /\ IsFiniteSet(later) /\ d \in later /\ BatchSize \in Nat \ {0}
  BY DocsAreNumbers, InstanceAssumption, FS_Subset
<1>2. After(c) = {e \in later : Cardinality(upto(e)) <= BatchSize}
  BY DEF After
<1>3. \A e : IsFiniteSet(upto(e)) /\ Cardinality(upto(e)) \in Nat
  BY <1>1, FS_Subset, FS_CardinalityType
<1>4. After(c) # {}
  <2>1. PICK n \in later : \A m \in later : n <= m
    BY <1>1, LeastOf
  <2>2. upto(n) = {n}
    BY <1>1, <2>1
  <2>3. Cardinality(upto(n)) = 1
    BY <2>2, FS_Singleton
  <2>. HIDE DEF later, upto
  <2>4. Cardinality(upto(n)) <= BatchSize
    BY <1>1, <2>3
  <2>. QED  BY <1>2, <2>1, <2>4
<1>5. ASSUME NEW e \in After(c), d <= e  PROVE d \in After(c)
  <2>1. e \in later /\ Cardinality(upto(e)) <= BatchSize
    BY <1>2
  <2>2. upto(d) \subseteq upto(e)
    BY <1>1, <1>5, <2>1
  <2>. HIDE DEF later, upto
  <2>3. Cardinality(upto(d)) <= Cardinality(upto(e))
    BY <1>3, <2>2, FS_Subset
  <2>4. Cardinality(upto(d)) <= BatchSize
    BY <1>1, <1>3, <2>1, <2>3
  <2>. QED  BY <1>1, <1>2, <2>4
<1>. QED  BY <1>4, <1>5

-----------------------------------------------------------------------------
(* A step of an execution or of a job; the documents stay.                 *)
LEMMA CutRow ==
  ASSUME CutInv, NEW t \in Tasks, task[t].pc # "idle"
  PROVE  /\ task[t].job \in Jobs /\ Row(t) = job[task[t].job] /\ Row(t) \in AnyJob /\ Row(t).status # "none"
         /\ JobFits(Row(t)) /\ SlotFits(task[t], Row(t)) /\ task[t] \in AnySlot /\ CutTypes
BY DEF CutInv, TaskFits, CutTypes, Row

(* Nothing about the documents changes: what was said of a row still holds.*)
LEMMA SameSaid ==
  ASSUME doc' = doc, kb'.kver = kb.kver, NEW x, NEW s
  PROVE  (JobFits(x) => JobFits(x)') /\ (SlotFits(s, x) => SlotFits(s, x)')
BY DEF JobFits, SlotFits, AfterTheBatches, BatchFits, AllFresh, Fresh, Listed, Behind

LEMMA ExecutionGoesOn ==
  ASSUME CutInv, OneExecution, doc' = doc, kb' \in KbRow, kb'.kver = kb.kver, kb'.indexed <= kb.kver,
         AllFresh(kb'.indexed), NEW t \in Tasks, task[t].pc # "idle",
         NEW x \in AnyJob, x.status # "none", JobFits(x), job' = [job EXCEPT ![task[t].job] = x],
         NEW s \in AnySlot, task' = [task EXCEPT ![t] = s],
         s.pc = "idle" \/ (s.job = task[t].job /\ SlotFits(s, x))
  PROVE  CutInv'
<1>. DEFINE j == task[t].job
<1>1. j \in Jobs /\ CutTypes /\ Claim
  BY CutRow DEF CutInv
<1>2. job'[j] = x /\ (\A i \in Jobs \ {j} : job'[i] = job[i]) /\ task'[t] = s /\ \A u \in Tasks : u = t
  BY <1>1 DEF CutTypes, OneExecution
<1>3. CutTypes'
  BY <1>1 DEF CutTypes
<1>4. Claim'
  BY <1>1 DEF Claim, AllFresh, NotYetUploaded
<1>5. ASSUME NEW i \in Jobs  PROVE JobFits(job[i])'
  <2>1. JobFits(job[i])
    BY DEF CutInv
  <2>2. PICK y : y = job'[i]
    OBVIOUS
  <2>3. JobFits(y)
    BY <1>2, <2>1, <2>2
  <2>4. JobFits(y)'
    BY <2>3, SameSaid
  <2>. QED  BY <2>2, <2>4 DEF JobFits
<1>6. ASSUME NEW u \in Tasks  PROVE TaskFits(u)'
  <2>1. CASE s.pc = "idle"
    BY <1>2, <2>1 DEF TaskFits
  <2>2. CASE s.job = task[t].job /\ SlotFits(s, x)
    <3>1. SlotFits(s, x)'
      BY <2>2, SameSaid
    <3>2. task'[u] = s /\ job'[s.job] = x /\ s.job \in Jobs
      BY <1>1, <1>2, <2>2
    <3>3. SlotFits(task[u], job[task[u].job])'
      BY <3>1, <3>2 DEF SlotFits, AfterTheBatches
    <3>. QED  BY <3>2, <3>3 DEF TaskFits
  <2>. QED  BY <2>1, <2>2
<1>. QED  BY <1>3, <1>4, <1>5, <1>6 DEF CutInv

(* The usual step: the knowledge base stays too.                           *)
LEMMA Executes ==
  ASSUME CutInv, OneExecution, UNCHANGED <<doc, kb>>, NEW t \in Tasks, task[t].pc # "idle",
         NEW x \in AnyJob, x.status # "none", JobFits(x), job' = [job EXCEPT ![task[t].job] = x],
         NEW s \in AnySlot, task' = [task EXCEPT ![t] = s],
         s.pc = "idle" \/ (s.job = task[t].job /\ SlotFits(s, x))
  PROVE  CutInv'
<1>1. kb \in KbRow /\ kb.indexed <= kb.kver /\ AllFresh(kb.indexed)
  BY DEF CutInv, CutTypes, Claim
<1>2. doc' = doc /\ kb' \in KbRow /\ kb'.kver = kb.kver /\ kb'.indexed <= kb.kver /\ AllFresh(kb'.indexed)
  BY <1>1
<1>. QED  BY <1>2, ExecutionGoesOn

(* Slots: a place to go to, a message, nothing.                            *)
LEMMA PlainSlots ==
  ASSUME CutTypes, NEW t \in Tasks, NEW pc \in Steps
  PROVE  /\ Idle \in AnySlot /\ Idle.pc = "idle"
         /\ task[t].job \in Jobs => /\ Message(task[t].job) \in AnySlot /\ Message(task[t].job).job = task[t].job
                                    /\ \A x : SlotFits(Message(task[t].job), x)
         /\ Goto(t, pc) => \E s \in AnySlot : /\ task' = [task EXCEPT ![t] = s] /\ s.pc = pc
                                              /\ s.job = task[t].job
<1>1. Idle \in AnySlot /\ Idle.pc = "idle"
  BY DEF Idle, AnySlot, Steps
<1>2. ASSUME task[t].job \in Jobs
      PROVE  /\ Message(task[t].job) \in AnySlot /\ Message(task[t].job).job = task[t].job
             /\ Message(task[t].job).pc = "queued"
  BY <1>2 DEF Message, AnySlot, Steps
<1>3. ASSUME task[t].job \in Jobs, NEW x  PROVE SlotFits(Message(task[t].job), x)
  BY <1>2, <1>3 DEF SlotFits, AfterTheBatches
<1>4. ASSUME Goto(t, pc)
      PROVE  \E s \in AnySlot : task' = [task EXCEPT ![t] = s] /\ s.pc = pc /\ s.job = task[t].job
  <2>. DEFINE none == {}
              zero == 0
              s == [task[t] EXCEPT !.pc = pc, !.todo = none, !.last = zero, !.total = zero]
  <2>1. task' = [task EXCEPT ![t] = s]
    BY <1>4 DEF Goto
  <2>2. none \in SUBSET (Docs \X Nat) /\ zero \in Docs \union {0} /\ zero \in Nat /\ task[t] \in AnySlot
    BY DEF CutTypes
  <2>. HIDE DEF none, zero
  <2>3. s \in AnySlot /\ s.pc = pc /\ s.job = task[t].job
    BY <2>2 DEF AnySlot
  <2>. HIDE DEF s
  <2>. QED  BY <2>1, <2>3
<1>. QED  BY <1>1, <1>2, <1>3, <1>4

(* The execution goes elsewhere, the job as it was.                        *)
LEMMA Moves ==
  ASSUME CutInv, OneExecution, UNCHANGED <<doc, kb, job>>, NEW t \in Tasks, task[t].pc # "idle",
         NEW pc \in Steps, Goto(t, pc), pc \notin {"reload", "reingest", "mark"},
         pc \in AfterTheBatches => AllFresh(Row(t).kver)
  PROVE  CutInv'
<1>1. /\ task[t].job \in Jobs /\ Row(t) = job[task[t].job] /\ Row(t) \in AnyJob /\ Row(t).status # "none"
      /\ JobFits(Row(t)) /\ CutTypes
  BY CutRow
<1>2. PICK s \in AnySlot : task' = [task EXCEPT ![t] = s] /\ s.pc = pc /\ s.job = task[t].job
  BY <1>1, PlainSlots
<1>3. SlotFits(s, Row(t))
  BY <1>2 DEF SlotFits, AfterTheBatches
<1>4. job' = [job EXCEPT ![task[t].job] = Row(t)]
  BY <1>1 DEF CutTypes
<1>. QED  BY <1>1, <1>2, <1>3, <1>4, Executes

(* The execution ends, or becomes a message, the job as it was.            *)
LEMMA Rests ==
  ASSUME CutInv, OneExecution, UNCHANGED <<doc, kb, job>>, NEW t \in Tasks, task[t].pc # "idle",
         task' = [task EXCEPT ![t] = Idle] \/ task' = [task EXCEPT ![t] = Message(task[t].job)]
  PROVE  CutInv'
<1>1. /\ task[t].job \in Jobs /\ Row(t) = job[task[t].job] /\ Row(t) \in AnyJob /\ Row(t).status # "none"
      /\ JobFits(Row(t)) /\ CutTypes
  BY CutRow
<1>2. "idle" \in Steps
  BY DEF Steps
<1>3. PICK s \in AnySlot : task' = [task EXCEPT ![t] = s] /\ (s.pc = "idle" \/ (s.job = task[t].job /\ SlotFits(s, Row(t))))
  BY <1>1, <1>2, PlainSlots
<1>4. job' = [job EXCEPT ![task[t].job] = Row(t)]
  BY <1>1 DEF CutTypes
<1>. QED  BY <1>1, <1>3, <1>4, Executes

(* A job whose row is written with a new status, or none.                  *)
LEMMA Written ==
  ASSUME CutTypes, NEW j \in Jobs, job[j].status # "none", JobFits(job[j]),
         NEW status \in ActiveStatuses \union TerminalStatuses, SetJob(j, status),
         job[j].rechunk /\ status \in {"embedding", "completed"} => AllFresh(job[j].kver)
  PROVE  \E x \in AnyJob : /\ job' = [job EXCEPT ![j] = x] /\ x.status = status /\ x.silent = FALSE
                           /\ x.rechunk = job[j].rechunk /\ x.kver = job[j].kver /\ x.cursor = job[j].cursor
                           /\ x.status # "none" /\ JobFits(x)
<1>. DEFINE no == FALSE
            x == [job[j] EXCEPT !.status = status, !.silent = no]
<1>1. job' = [job EXCEPT ![j] = x]
  BY DEF SetJob
<1>2. job[j] \in AnyJob /\ no \in BOOLEAN /\ no = FALSE
  BY DEF CutTypes
<1>. HIDE DEF no
<1>3. /\ x \in AnyJob /\ x.status = status /\ x.silent = no /\ x.rechunk = job[j].rechunk
      /\ x.kver = job[j].kver /\ x.cursor = job[j].cursor
  BY <1>2 DEF AnyJob
<1>4. status # "none"
  BY DEF ActiveStatuses, TerminalStatuses
<1>. HIDE DEF x
<1>5. JobFits(x)
  BY <1>3 DEF JobFits
<1>. QED  BY <1>1, <1>2, <1>3, <1>4, <1>5

(* The job fails, the execution ends.                                     *)
LEMMA GivesUp ==
  ASSUME CutInv, OneExecution, UNCHANGED <<doc, kb>>, NEW t \in Tasks, task[t].pc # "idle",
         SetJob(task[t].job, "failed"), task' = Released(t)
  PROVE  CutInv'
<1>1. /\ task[t].job \in Jobs /\ Row(t) = job[task[t].job] /\ Row(t) \in AnyJob /\ Row(t).status # "none"
      /\ JobFits(Row(t)) /\ CutTypes
  BY CutRow
<1>. DEFINE status == "failed"
<1>2. SetJob(task[t].job, status) /\ task' = [task EXCEPT ![t] = Idle] /\ status \in ActiveStatuses \union TerminalStatuses
      /\ status \notin {"embedding", "completed"}
  BY DEF Released, TerminalStatuses
<1>. HIDE DEF status
<1>3. PICK x \in AnyJob : job' = [job EXCEPT ![task[t].job] = x] /\ x.status # "none" /\ JobFits(x)
  BY <1>1, <1>2, Written
<1>4. Idle \in AnySlot /\ Idle.pc = "idle"
  BY DEF Idle, AnySlot, Steps
<1>. QED  BY <1>2, <1>3, <1>4, Executes

LEMMA Fails ==
  ASSUME CutInv, OneExecution, UNCHANGED <<doc, kb>>, NEW t \in Tasks, task[t].pc # "idle", FailJob(t)
  PROVE  CutInv'
BY GivesUp DEF FailJob, Done

LEMMA LoadCuts == ASSUME CutInv, OneExecution, NEW t \in Tasks, Load(t)  PROVE CutInv'
<1>1. task[t].pc # "idle" /\ UNCHANGED <<doc, kb, job>>
  BY DEF Load
<1>2. Row(t) \in AnyJob /\ Row(t).status # "none" /\ JobFits(Row(t))
  BY <1>1, CutRow
<1>3. \/ Done(t) \/ Goto(t, "begin") \/ Goto(t, "batch")
      \/ Goto(t, "list") /\ Row(t).status = "embedding"
  BY <1>2 DEF Load, AnyJob, ActiveStatuses, TerminalStatuses
<1>4. CASE Done(t)
  BY <1>1, <1>4, Rests DEF Done, Released
<1>5. CASE Goto(t, "begin") \/ Goto(t, "batch")
  <2>1. PICK pc \in {"begin", "batch"} : Goto(t, pc)
    BY <1>5
  <2>2. pc \in Steps /\ pc \notin AfterTheBatches
    BY DEF Steps, InTry, AfterTheBatches
  <2>. QED  BY <1>1, <2>1, <2>2, Moves
<1>6. CASE Goto(t, "list") /\ Row(t).status = "embedding"
  <2>. DEFINE pc == "list"
  <2>1. AllFresh(Row(t).kver)
    BY <1>2, <1>6 DEF JobFits
  <2>2. pc \in Steps /\ Goto(t, pc)
    BY <1>6 DEF Steps, InTry
  <2>. QED  BY <1>1, <2>1, <2>2, Moves
<1>. QED  BY <1>3, <1>4, <1>5, <1>6

LEMMA BeginCuts == ASSUME CutInv, OneExecution, NEW t \in Tasks, Begin(t)  PROVE CutInv'
<1>1. task[t].pc # "idle" /\ UNCHANGED <<doc, kb>>
  BY DEF Begin, At
<1>2. /\ task[t].job \in Jobs /\ Row(t) = job[task[t].job] /\ Row(t) \in AnyJob /\ Row(t).status # "none"
      /\ JobFits(Row(t)) /\ CutTypes
  BY <1>1, CutRow
<1>3. CASE Done(t) /\ job' = job
  BY <1>1, <1>3, Rests DEF Done, Released
<1>4. ASSUME NEW status \in {"rechunking", "embedding"}, SetJob(task[t].job, status), Goto(t, "reload"),
             Row(t).rechunk => status = "rechunking"
      PROVE  CutInv'
  <2>. DEFINE pc == "reload"
  <2>1. status \in ActiveStatuses \union TerminalStatuses /\ pc \in Steps /\ Goto(t, pc)
    BY <1>4 DEF ActiveStatuses, Steps
  <2>2. PICK x \in AnyJob : /\ job' = [job EXCEPT ![task[t].job] = x] /\ x.status = status /\ x.silent = FALSE
                            /\ x.rechunk = job[task[t].job].rechunk
                            /\ x.status # "none" /\ JobFits(x)
    BY <1>2, <1>4, <2>1, Written
  <2>3. PICK s \in AnySlot : task' = [task EXCEPT ![t] = s] /\ s.pc = pc /\ s.job = task[t].job
    BY <1>2, <2>1, PlainSlots
  <2>4. SlotFits(s, x)
    BY <1>2, <1>4, <2>2, <2>3 DEF SlotFits, AfterTheBatches
  <2>. QED  BY <1>1, <2>2, <2>3, <2>4, Executes
<1>. QED  BY <1>3, <1>4 DEF Begin

LEMMA ReloadCuts == ASSUME CutInv, OneExecution, NEW t \in Tasks, Reload(t)  PROVE CutInv'
<1>1. task[t].pc = "reload" /\ UNCHANGED <<doc, kb, job>>
  BY DEF Reload, At
<1>2. Row(t) \in AnyJob /\ Row(t).status # "none" /\ JobFits(Row(t)) /\ SlotFits(task[t], Row(t))
  BY <1>1, CutRow
<1>3. CASE Row(t).status = "rechunking"
  <2>. DEFINE pc == "batch"
  <2>1. pc \in Steps /\ Goto(t, pc) /\ pc \notin AfterTheBatches
    BY <1>3 DEF Reload, Steps, InTry, AfterTheBatches
  <2>. QED  BY <1>1, <2>1, Moves
<1>4. CASE Row(t).status # "rechunking"
  <2>. DEFINE pc == "list"
  <2>1. pc \in Steps /\ Goto(t, pc)
    BY <1>4 DEF Reload, Steps, InTry
  <2>2. AllFresh(Row(t).kver)
    BY <1>1, <1>2, <1>4 DEF SlotFits, AfterTheBatches, JobFits, AnyJob
  <2>. QED  BY <1>1, <2>1, <2>2, Moves
<1>. QED  BY <1>3, <1>4

LEMMA BatchCuts == ASSUME CutInv, OneExecution, NEW t \in Tasks, Batch(t)  PROVE CutInv'
<1>. DEFINE next == After(Row(t).cursor)
<1>1. task[t].pc # "idle" /\ UNCHANGED <<doc, kb, job>>
  BY DEF Batch, At
<1>2. /\ task[t].job \in Jobs /\ Row(t) = job[task[t].job] /\ Row(t) \in AnyJob /\ Row(t).status # "none"
      /\ JobFits(Row(t)) /\ CutTypes /\ task[t] \in AnySlot
  BY <1>1, CutRow
<1>3. Row(t).cursor \in Nat /\ next \subseteq Docs /\ \A d \in Docs : doc[d].gen \in Nat
  <2>1. Row(t).cursor \in Nat
    BY <1>2, DocNumber DEF AnyJob
  <2>2. next \subseteq Docs
    BY DEF After
  <2>3. \A d \in Docs : doc[d].gen \in Nat
    BY <1>2 DEF CutTypes, AnyDoc
  <2>. QED  BY <2>1, <2>2, <2>3
<1>4. \A d \in Docs : d <= Row(t).cursor \/ ~ Live(d) => Fresh(doc[d], Row(t).kver)
  BY <1>2 DEF JobFits, Fresh, Live
<1>5. \A d \in Docs : d > Row(t).cursor \/ d <= Row(t).cursor
  BY <1>3, DocsAreNumbers
<1>6. \A d \in Docs : Live(d) /\ d > Row(t).cursor => next # {} /\ \A e \in next : d <= e => d \in next
  BY <1>2, <1>3, AfterTakesTheFirst
<1>. HIDE DEF next
<1>7. CASE next = {}
  <2>. DEFINE pc == "wait"
  <2>1. AllFresh(Row(t).kver)
    BY <1>4, <1>5, <1>6, <1>7 DEF AllFresh
  <2>2. pc \in Steps /\ Goto(t, pc)
    BY <1>7 DEF Batch, Steps, InTry, next
  <2>. QED  BY <1>1, <2>1, <2>2, Moves
<1>8. CASE next # {}
  <2>. DEFINE pc == "reingest"
              zero == 0
              todo == {<<d, doc[d].gen>> : d \in next}
              s == [task[t] EXCEPT !.pc = pc, !.last = zero, !.todo = todo]
  <2>1. task' = [task EXCEPT ![t] = s]
    BY <1>8 DEF Batch, next
  <2>2. todo \in SUBSET (Docs \X Nat) /\ todo # {} /\ (\A y \in todo : y[1] \in next) /\ (\A d \in next : \E y \in todo : y[1] = d)
        /\ \A y, z \in todo : y[1] = z[1] => y = z
    <3>1. \A d \in next : <<d, doc[d].gen>> \in Docs \X Nat
      BY <1>3
    <3>2. todo \in SUBSET (Docs \X Nat)
      BY <3>1
    <3>3. \A y \in todo : y[1] \in next /\ y = <<y[1], doc[y[1]].gen>>
      OBVIOUS
    <3>4. \A d \in next : <<d, doc[d].gen>> \in todo /\ <<d, doc[d].gen>>[1] = d
      OBVIOUS
    <3>5. todo # {}
      BY <1>8
    <3>. HIDE DEF todo
    <3>6. \A y, z \in todo : y[1] = z[1] => y = z
      BY <3>3
    <3>. QED  BY <3>2, <3>3, <3>4, <3>5, <3>6
  <2>3. pc \in Steps /\ zero \in Docs \union {0} /\ zero = 0 /\ pc = "reingest"
    BY DEF Steps, InTry
  <2>. HIDE DEF pc, zero, todo
  <2>4. s \in AnySlot /\ s.pc = pc /\ s.todo = todo /\ s.last = zero /\ s.job = task[t].job
    BY <1>2, <2>2, <2>3 DEF AnySlot
  <2>. HIDE DEF s
  <2>5. \A y \in todo : y[1] > 0
    BY <2>2, <1>3, DocNumber
  <2>6. ASSUME NEW d \in Docs, ~ Listed(s, d), Behind(s, d)  PROVE Fresh(doc[d], Row(t).kver)
    <3>1. ~ (d <= 0)
      BY DocNumber
    <3>2. PICK y \in todo : d < y[1]
      BY <2>3, <2>4, <2>6, <3>1 DEF Behind
    <3>3. d \notin next /\ y[1] \in next
      BY <2>2, <2>4, <2>6, <3>2 DEF Listed
    <3>5. d <= y[1]
      BY <1>3, <3>2, <3>3, DocNumber
    <3>4. ~ Live(d) \/ d <= Row(t).cursor
      BY <1>5, <1>6, <3>3, <3>5
    <3>. QED  BY <1>4, <3>4
  <2>7. BatchFits(s, Row(t).kver)
    BY <2>2, <2>3, <2>4, <2>5, <2>6 DEF BatchFits
  <2>8. SlotFits(s, Row(t))
    BY <2>2, <2>3, <2>4, <2>7 DEF SlotFits, AfterTheBatches
  <2>9. job' = [job EXCEPT ![task[t].job] = Row(t)]
    BY <1>1, <1>2 DEF CutTypes
  <2>. QED  BY <1>1, <1>2, <2>1, <2>4, <2>8, <2>9, Executes
<1>. QED  BY <1>7, <1>8

-----------------------------------------------------------------------------
(* A step of the documents: nothing that was cut anew becomes old.         *)
Renews ==
  /\ kb' \in KbRow /\ kb.kver <= kb'.kver /\ kb'.indexed = kb.indexed
  /\ doc' \in [Docs -> AnyDoc] /\ NotYetUploaded'
  /\ \A d \in Docs, v \in Nat : v <= kb.kver /\ Fresh(doc[d], v) => Fresh(doc'[d], v)

LEMMA StaysCut ==
  ASSUME CutInv, Renews
  PROVE  /\ Claim'
         /\ \A x \in AnyJob : JobFits(x) /\ x.status # "none" =>
              JobFits(x)' /\ \A s \in AnySlot : SlotFits(s, x) => SlotFits(s, x)'
<1>1. kb \in KbRow /\ kb.indexed <= kb.kver /\ AllFresh(kb.indexed)
  BY DEF CutInv, CutTypes, Claim
<1>2. kb.indexed \in Nat /\ kb.kver \in Nat /\ kb'.kver \in Nat
  BY <1>1 DEF KbRow, Renews
<1>3. Claim'
  <2>1. kb'.indexed <= kb'.kver
    BY <1>1, <1>2 DEF Renews
  <2>2. AllFresh(kb.indexed)'
    BY <1>1, <1>2 DEF AllFresh, Renews
  <2>. QED  BY <2>1, <2>2 DEF Claim, Renews, AllFresh
<1>4. ASSUME NEW x \in AnyJob, JobFits(x), x.status # "none"
      PROVE  JobFits(x)' /\ \A s \in AnySlot : SlotFits(s, x) => SlotFits(s, x)'
  <2>1. x.kver \in Nat /\ x.kver <= kb.kver
    BY <1>4 DEF AnyJob, JobFits
  <2>2. \A d \in Docs : Fresh(doc[d], x.kver) => Fresh(doc'[d], x.kver)
    BY <2>1 DEF Renews
  <2>3. AllFresh(x.kver) => AllFresh(x.kver)'
    BY <2>2 DEF AllFresh
  <2>4. x.kver <= kb'.kver
    BY <1>2, <2>1 DEF Renews
  <2>5. JobFits(x)'
    BY <1>4, <2>2, <2>3, <2>4 DEF JobFits
  <2>6. ASSUME NEW s \in AnySlot, SlotFits(s, x)  PROVE SlotFits(s, x)'
    BY <2>2, <2>3, <2>6 DEF SlotFits, AfterTheBatches, BatchFits, Listed, Behind
  <2>. QED  BY <2>5, <2>6
<1>. QED  BY <1>3, <1>4

LEMMA DocumentsGoOn ==
  ASSUME CutInv, Renews, UNCHANGED <<job, task>>
  PROVE  CutInv'
<1>1. Claim'
  BY StaysCut
<1>2. CutTypes /\ CutTypes'
  BY DEF CutInv, CutTypes, Renews
<1>3. ASSUME NEW i \in Jobs  PROVE JobFits(job[i])'
  <2>1. PICK x \in AnyJob : x = job[i]
    BY <1>2 DEF CutTypes
  <2>2. x.status # "none" => JobFits(x)'
    BY <2>1, StaysCut DEF CutInv
  <2>3. JobFits(x)'
    BY <2>2 DEF JobFits
  <2>. QED  BY <2>1, <2>3 DEF JobFits
<1>4. ASSUME NEW t \in Tasks  PROVE TaskFits(t)'
  <2>1. CASE task[t].pc = "idle"
    BY <2>1 DEF TaskFits
  <2>2. CASE task[t].pc # "idle"
    <3>1. /\ task[t].job \in Jobs /\ Row(t) = job[task[t].job] /\ Row(t) \in AnyJob /\ Row(t).status # "none"
          /\ JobFits(Row(t)) /\ SlotFits(task[t], Row(t)) /\ task[t] \in AnySlot
      BY <2>2, CutRow
    <3>2. PICK x \in AnyJob, s \in AnySlot : x = Row(t) /\ s = task[t]
      BY <3>1
    <3>3. SlotFits(s, x)'
      BY <3>1, <3>2, StaysCut
    <3>4. task'[t] = s /\ job'[task[t].job] = x
      BY <3>1, <3>2
    <3>. QED  BY <3>1, <3>3, <3>4 DEF TaskFits, SlotFits, AfterTheBatches
  <2>. QED  BY <2>1, <2>2
<1>. QED  BY <1>1, <1>2, <1>3, <1>4 DEF CutInv

(* One document that goes on.                                              *)
LEMMA OneRenews ==
  ASSUME CutInv, kb' = kb, NEW d \in Docs, NEW row \in AnyDoc, doc' = [doc EXCEPT ![d] = row],
         row.life = "absent" => row.status = "uploaded",
         \/ row.life # "live" \/ row.status \in {"uploaded", "failed"} \/ row.cut = kb.kver
         \/ row.cut = doc[d].cut /\ doc[d].life = "live" /\ doc[d].status \notin {"uploaded", "failed"}
  PROVE  Renews
<1>1. CutTypes /\ NotYetUploaded
  BY DEF CutInv, Claim
<1>2. kb' \in KbRow /\ kb.kver <= kb'.kver /\ kb'.indexed = kb.indexed /\ kb.kver \in Nat
  BY <1>1 DEF CutTypes, KbRow
<1>3. doc' \in [Docs -> AnyDoc] /\ doc'[d] = row /\ \A e \in Docs \ {d} : doc'[e] = doc[e]
  BY <1>1 DEF CutTypes
<1>4. NotYetUploaded'
  BY <1>1, <1>3 DEF NotYetUploaded
<1>5. ASSUME NEW v \in Nat, v <= kb.kver, Fresh(doc[d], v)  PROVE Fresh(row, v)
  BY <1>2, <1>5 DEF Fresh
<1>. QED  BY <1>2, <1>3, <1>4, <1>5 DEF Renews

LEMMA NewGenerationIs ==
  ASSUME CutTypes, NEW d \in Docs, Live(d), NewGeneration(d)
  PROVE  \E row \in AnyDoc : doc' = [doc EXCEPT ![d] = row] /\ row.status = "uploaded" /\ row.life = "live"
<1>. DEFINE status == "uploaded"
            gen == doc[d].gen + 1
            row == [doc[d] EXCEPT !.status = status, !.gen = gen]
<1>1. doc[d] \in AnyDoc /\ status \in DocStatuses /\ gen \in Nat
  BY DEF CutTypes, AnyDoc, DocStatuses
<1>2. doc' = [doc EXCEPT ![d] = row]
  BY DEF NewGeneration
<1>. HIDE DEF status, gen
<1>3. row \in AnyDoc /\ row.status = status /\ row.life = doc[d].life
  BY <1>1 DEF AnyDoc
<1>. HIDE DEF row
<1>. QED  BY <1>2, <1>3 DEF status, Live

LEMMA UserCuts == ASSUME CutInv, NEW d \in Docs, User(d)  PROVE CutInv'
<1>1. CutTypes /\ doc[d] \in AnyDoc /\ UNCHANGED <<kb, job, task>> /\ NotYetUploaded
  BY DEF CutInv, CutTypes, Claim, User, Upload, Reingest, Delete
<1>2. CASE Reingest(d)
  <2>1. PICK row \in AnyDoc : doc' = [doc EXCEPT ![d] = row] /\ row.status = "uploaded" /\ row.life = "live"
    BY <1>1, <1>2, NewGenerationIs DEF Reingest
  <2>2. Renews
    BY <1>1, <2>1, OneRenews
  <2>. QED  BY <1>1, <2>2, DocumentsGoOn
<1>3. CASE Upload(d) \/ Delete(d)
  <2>1. PICK life \in {"live", "deleted"} :
           doc' = [doc EXCEPT ![d].life = life] /\ (life = "live" => doc[d].life = "absent")
    BY <1>3 DEF Upload, Delete
  <2>. DEFINE row == [doc[d] EXCEPT !.life = life]
  <2>2. row \in AnyDoc /\ row.life = life /\ row.status = doc[d].status /\ doc' = [doc EXCEPT ![d] = row]
    BY <1>1, <2>1 DEF AnyDoc, CutTypes
  <2>. HIDE DEF row
  <2>3. life = "live" => row.status = "uploaded"
    BY <1>1, <2>1, <2>2 DEF NotYetUploaded
  <2>4. Renews
    BY <1>1, <2>1, <2>2, <2>3, OneRenews
  <2>. QED  BY <1>1, <2>4, DocumentsGoOn
<1>. QED  BY <1>2, <1>3 DEF User

LEMMA PipelineCuts == ASSUME CutInv, NEW d \in Docs, Pipeline(d) \/ DocumentFails(d)  PROVE CutInv'
<1>1. /\ CutTypes /\ doc[d] \in AnyDoc /\ UNCHANGED <<kb, job, task>> /\ kb \in KbRow /\ kb.kver \in Nat /\ kb.key \in AnyKey
      /\ doc[d].life = "live"
  BY DEF CutInv, CutTypes, Pipeline, Parse, Chunk, EmbedStart, EmbedDone, DocumentFails, Live, KbRow
<1>2. CASE Parse(d)
  <2>. DEFINE status == "parsing"
              cut == kb.kver
              row == [doc[d] EXCEPT !.status = status, !.cut = cut]
  <2>1. doc' = [doc EXCEPT ![d] = row] /\ status \in DocStatuses /\ cut \in Nat
    BY <1>1, <1>2 DEF Parse, DocStatuses
  <2>. HIDE DEF status
  <2>2. row \in AnyDoc /\ row.cut = kb.kver /\ row.life = "live"
    BY <1>1, <2>1 DEF AnyDoc
  <2>. HIDE DEF row
  <2>3. Renews
    BY <1>1, <2>1, <2>2, OneRenews
  <2>. QED  BY <1>1, <2>3, DocumentsGoOn
<1>3. CASE EmbedStart(d)
  <2>. DEFINE status == "embedding"
              key == kb.key
              row == [doc[d] EXCEPT !.status = status, !.key = key]
  <2>1. doc' = [doc EXCEPT ![d] = row] /\ status \in DocStatuses /\ key \in AnyKey /\ doc[d].status = "chunked"
    BY <1>1, <1>3 DEF EmbedStart, DocStatuses
  <2>. HIDE DEF status
  <2>2. row \in AnyDoc /\ row.cut = doc[d].cut /\ row.life = "live"
    BY <1>1, <2>1 DEF AnyDoc
  <2>. HIDE DEF row
  <2>3. Renews
    BY <1>1, <2>1, <2>2, OneRenews
  <2>. QED  BY <1>1, <2>3, DocumentsGoOn
<1>4. CASE Chunk(d) \/ EmbedDone(d) \/ DocumentFails(d)
  <2>1. PICK status \in {"chunked", "ready", "failed"} : SetDoc(d, status) /\ doc[d].status \in {"parsing", "embedding"}
    BY <1>4 DEF Chunk, EmbedDone, DocumentFails, InProgress
  <2>. DEFINE row == [doc[d] EXCEPT !.status = status]
  <2>2. doc' = [doc EXCEPT ![d] = row] /\ status \in DocStatuses
    BY <1>1, <2>1 DEF SetDoc, CutTypes, DocStatuses
  <2>3. row \in AnyDoc /\ row.cut = doc[d].cut /\ row.life = "live"
    BY <1>1, <2>2 DEF AnyDoc
  <2>. HIDE DEF row
  <2>4. Renews
    BY <1>1, <2>1, <2>2, <2>3, OneRenews
  <2>. QED  BY <1>1, <2>4, DocumentsGoOn
<1>. QED  BY <1>2, <1>3, <1>4 DEF Pipeline

LEMMA ConfigCuts == ASSUME CutInv, ChangeConfig  PROVE CutInv'
<1>1. CutTypes /\ NotYetUploaded /\ UNCHANGED <<doc, job, task>> /\ kb' = [kb EXCEPT !.kver = kb.kver + 1]
  BY DEF CutInv, Claim, ChangeConfig
<1>2. kb' \in KbRow /\ kb.kver <= kb'.kver /\ kb'.indexed = kb.indexed
  <2>. DEFINE n == kb.kver + 1
  <2>1. n \in Nat /\ kb.kver <= n /\ kb \in KbRow
    BY <1>1 DEF CutTypes, KbRow
  <2>. HIDE DEF n
  <2>2. kb' = [kb EXCEPT !.kver = n]
    BY <1>1 DEF n
  <2>. QED  BY <2>1, <2>2 DEF KbRow
<1>3. Renews
  BY <1>1, <1>2 DEF Renews, CutTypes, NotYetUploaded
<1>. QED  BY <1>1, <1>3, DocumentsGoOn

-----------------------------------------------------------------------------
(* The batches of a re-chunking, and the rebuild after them.               *)
LEMMA NextDocumentCuts == ASSUME CutInv, OneExecution, NEW t \in Tasks, NextDocument(t)  PROVE CutInv'
<1>. DEFINE c == First(t)
            d == First(t)[1]
            rest == task[t].todo \ {First(t)}
<1>1. task[t].pc = "reingest" /\ UNCHANGED kb
  BY DEF NextDocument, At
<1>2. /\ task[t].job \in Jobs /\ Row(t) = job[task[t].job] /\ Row(t) \in AnyJob /\ Row(t).status # "none"
      /\ JobFits(Row(t)) /\ CutTypes /\ task[t] \in AnySlot /\ SlotFits(task[t], Row(t))
  BY <1>1, CutRow
<1>3. task[t].todo # {} /\ BatchFits(task[t], Row(t).kver) /\ task[t].todo \in SUBSET (Docs \X Nat)
      /\ task[t].last \in Nat
  BY <1>1, <1>2, DocNumber DEF SlotFits, AfterTheBatches, AnySlot
<1>4. c \in task[t].todo /\ (\A y \in task[t].todo : d <= y[1]) /\ d \in Docs /\ rest \in SUBSET (Docs \X Nat)
  BY <1>2, <1>3, FirstIsLeast
<1>5. CASE ~ Live(d)
  BY <1>1, <1>5, Fails DEF NextDocument
<1>6. CASE Live(d) /\ doc[d].status \in InProgress
  <2>. DEFINE none == {}
              pc == "mark"
              s == [task[t] EXCEPT !.todo = none, !.pc = pc]
  <2>1. task' = [task EXCEPT ![t] = s] /\ doc' = doc /\ job' = [job EXCEPT ![task[t].job] = Row(t)]
    BY <1>2, <1>6 DEF NextDocument, CutTypes
  <2>2. none \in SUBSET (Docs \X Nat) /\ pc \in Steps /\ none = {} /\ pc = "mark"
    BY DEF Steps, InTry
  <2>. HIDE DEF none, pc
  <2>3. s \in AnySlot /\ s.pc = pc /\ s.todo = none /\ s.last = task[t].last /\ s.job = task[t].job
    BY <1>2, <2>2 DEF AnySlot
  <2>. HIDE DEF s
  <2>4. ASSUME NEW e \in Docs, Behind(s, e)  PROVE Fresh(doc[e], Row(t).kver)
    <3>1. e <= task[t].last /\ Behind(task[t], e)
      BY <2>2, <2>3, <2>4 DEF Behind
    <3>2. ASSUME Listed(task[t], e)  PROVE FALSE
      <4>1. e > task[t].last
        BY <1>3, <3>2 DEF Listed, BatchFits
      <4>. QED  BY <3>1, <4>1, <1>3, DocNumber
    <3>. QED  BY <1>3, <3>1, <3>2 DEF BatchFits
  <2>5. SlotFits(s, Row(t))
    BY <2>2, <2>3, <2>4 DEF SlotFits, AfterTheBatches, BatchFits
  <2>. QED  BY <1>1, <1>2, <2>1, <2>3, <2>5, Executes
<1>7. CASE Live(d) /\ doc[d].status \notin InProgress
  <2>. DEFINE s == [task[t] EXCEPT !.todo = rest, !.last = d, !.pc = IF rest = {} THEN "mark" ELSE "reingest"]
  <2>1. task' = [task EXCEPT ![t] = s] /\ NewGeneration(d) /\ job' = job
    BY <1>7 DEF NextDocument
  <2>2. PICK row \in AnyDoc : doc' = [doc EXCEPT ![d] = row] /\ row.status = "uploaded" /\ row.life = "live"
    BY <1>2, <1>4, <1>7, <2>1, NewGenerationIs
  <2>3. Renews
    BY <1>1, <1>4, <2>2, OneRenews
  <2>4. s \in AnySlot /\ s.todo = rest /\ s.last = d /\ s.job = task[t].job
        /\ s.pc \in {"mark", "reingest"} /\ (s.pc = "reingest" => rest # {})
    <3>1. PICK pc \in {"mark", "reingest"} : pc = IF rest = {} THEN "mark" ELSE "reingest"
      OBVIOUS
    <3>2. pc \in Steps /\ (pc = "reingest" => rest # {})
      BY <3>1 DEF Steps, InTry
    <3>3. s = [task[t] EXCEPT !.todo = rest, !.last = d, !.pc = pc]
      BY <3>1
    <3>. HIDE DEF s, c, d, rest
    <3>. QED  BY <1>2, <1>4, <3>2, <3>3 DEF AnySlot
  <2>. HIDE DEF s
  <2>5. PICK x \in AnyJob, z \in AnySlot : x = Row(t) /\ z = s
    BY <1>2, <2>4
  <2>6. Claim' /\ JobFits(x)'
    BY <1>2, <2>3, <2>5, StaysCut
  <2>7. x.kver \in Nat /\ x.kver <= kb.kver
    BY <1>2, <2>5 DEF AnyJob, JobFits
  <2>8. ASSUME NEW e \in Docs, ~ Listed(z, e), Behind(z, e)  PROVE Fresh(doc'[e], x.kver)
    <3>1. CASE e = d
      BY <1>2, <2>2, <3>1 DEF Fresh, CutTypes
    <3>2. CASE e # d
      <4>1. ~ Listed(task[t], e)
        BY <2>4, <2>5, <2>8, <3>2 DEF Listed
      <4>2. Behind(task[t], e)
        <5>1. e <= d \/ \E y \in rest : e < y[1]
          BY <2>4, <2>5, <2>8 DEF Behind
        <5>2. e <= d => e < d
          BY <1>4, <3>2, DocNumber
        <5>. QED  BY <1>4, <5>1, <5>2 DEF Behind
      <4>3. Fresh(doc[e], x.kver)
        BY <1>3, <2>5, <4>1, <4>2 DEF BatchFits
      <4>. QED  BY <1>2, <2>2, <3>2, <4>3 DEF CutTypes
    <3>. QED  BY <3>1, <3>2
  <2>9. \A y \in rest : y[1] > d /\ \A y2 \in rest : y[1] = y2[1] => y = y2
    <3>1. \A y \in rest : d <= y[1] /\ y[1] # d /\ y[1] \in Nat /\ d \in Nat
      BY <1>3, <1>4, DocNumber DEF BatchFits
    <3>2. \A y \in rest : y[1] > d
      BY <3>1
    <3>. QED  BY <1>3, <3>2 DEF BatchFits
  <2>10. BatchFits(z, x.kver)'
    BY <2>4, <2>5, <2>8, <2>9 DEF BatchFits, Listed, Behind
  <2>11. SlotFits(z, x)'
    BY <2>4, <2>5, <2>10 DEF SlotFits, AfterTheBatches
  <2>12. CutTypes'
    BY <1>2, <2>1, <2>3, <2>4 DEF CutTypes, Renews
  <2>13. ASSUME NEW i \in Jobs  PROVE JobFits(job[i])'
    <3>1. PICK y \in AnyJob : y = job[i]
      BY <1>2 DEF CutTypes
    <3>2. y.status # "none" => JobFits(y)'
      BY <3>1, <2>3, StaysCut DEF CutInv
    <3>3. JobFits(y)'
      BY <3>2 DEF JobFits
    <3>. QED  BY <2>1, <3>1, <3>3 DEF JobFits
  <2>14. ASSUME NEW u \in Tasks  PROVE TaskFits(u)'
    <3>1. u = t /\ task'[u] = z /\ job'[task[t].job] = x
      BY <1>2, <2>1, <2>5 DEF OneExecution, CutTypes
    <3>2. task'[u].job = task[t].job
      BY <2>4, <2>5, <3>1
    <3>3. SlotFits(task[u], job[task[u].job])'
      BY <3>1, <3>2, <2>11 DEF SlotFits, AfterTheBatches
    <3>. QED  BY <1>2, <2>5, <3>1, <3>2, <3>3 DEF TaskFits
  <2>. QED  BY <2>6, <2>12, <2>13, <2>14 DEF CutInv
<1>. QED  BY <1>5, <1>6, <1>7

LEMMA MarkCuts == ASSUME CutInv, OneExecution, NEW t \in Tasks, Mark(t)  PROVE CutInv'
<1>1. task[t].pc = "mark" /\ UNCHANGED <<doc, kb>>
  BY DEF Mark, At
<1>2. /\ task[t].job \in Jobs /\ Row(t) = job[task[t].job] /\ Row(t) \in AnyJob /\ Row(t).status # "none"
      /\ JobFits(Row(t)) /\ CutTypes /\ task[t] \in AnySlot /\ SlotFits(task[t], Row(t))
  BY <1>1, CutRow
<1>. DEFINE no == FALSE
            cursor == IF task[t].last = 0 THEN job[task[t].job].cursor ELSE task[t].last
            x == [job[task[t].job] EXCEPT !.silent = no, !.cursor = cursor]
            pc == "round"
<1>3. job' = [job EXCEPT ![task[t].job] = x] /\ Goto(t, pc) /\ pc \in Steps
  BY DEF Mark, Steps
<1>4. cursor \in Docs \union {0} /\ no \in BOOLEAN
  BY <1>2 DEF AnyJob, AnySlot
<1>5. \A d \in Docs : d <= cursor => Fresh(doc[d], Row(t).kver)
  <2>1. CASE task[t].last = 0
    BY <1>2, <2>1 DEF JobFits
  <2>2. CASE task[t].last # 0
    <3>1. BatchFits(task[t], Row(t).kver) /\ task[t].last \in Nat /\ task[t].todo \in SUBSET (Docs \X Nat)
      BY <1>1, <1>2, DocNumber DEF SlotFits, AfterTheBatches, AnySlot
    <3>2. ASSUME NEW d \in Docs, d <= task[t].last, Listed(task[t], d)  PROVE FALSE
      <4>1. d > task[t].last
        BY <3>1, <3>2 DEF Listed, BatchFits
      <4>. QED  BY <3>1, <3>2, <4>1, DocNumber
    <3>. QED  BY <2>2, <3>1, <3>2 DEF BatchFits, Behind
  <2>. QED  BY <2>1, <2>2
<1>. HIDE DEF no, cursor
<1>6. x \in AnyJob /\ x.status = Row(t).status /\ x.kver = Row(t).kver /\ x.rechunk = Row(t).rechunk /\ x.cursor = cursor
  BY <1>2, <1>4 DEF AnyJob
<1>. HIDE DEF x
<1>7. JobFits(x)
  BY <1>2, <1>5, <1>6 DEF JobFits
<1>8. PICK s \in AnySlot : task' = [task EXCEPT ![t] = s] /\ s.pc = pc /\ s.job = task[t].job
  BY <1>2, <1>3, PlainSlots
<1>9. SlotFits(s, x)
  BY <1>8 DEF SlotFits, AfterTheBatches
<1>. QED  BY <1>1, <1>2, <1>3, <1>6, <1>7, <1>8, <1>9, Executes

(* The row of a job is written, and the execution goes on with it.         *)
LEMMA WritesAndMoves ==
  ASSUME CutInv, OneExecution, UNCHANGED <<doc, kb>>, NEW t \in Tasks, task[t].pc # "idle",
         NEW x \in AnyJob, x.status # "none", JobFits(x), job' = [job EXCEPT ![task[t].job] = x],
         NEW pc \in Steps, Goto(t, pc), pc \notin {"reload", "reingest", "mark"},
         pc \in AfterTheBatches => AllFresh(x.kver)
  PROVE  CutInv'
<1>1. task[t].job \in Jobs /\ CutTypes
  BY CutRow
<1>2. PICK s \in AnySlot : task' = [task EXCEPT ![t] = s] /\ s.pc = pc /\ s.job = task[t].job
  BY <1>1, PlainSlots
<1>3. SlotFits(s, x)
  BY <1>2 DEF SlotFits, AfterTheBatches
<1>. QED  BY <1>2, <1>3, Executes

LEMMA Beats ==
  ASSUME CutTypes, NEW j \in Jobs, job[j].status # "none", JobFits(job[j]), Heartbeat(j)
  PROVE  \E x \in AnyJob : /\ job' = [job EXCEPT ![j] = x] /\ x.status = job[j].status /\ x.silent = FALSE
                           /\ x.rechunk = job[j].rechunk /\ x.kver = job[j].kver /\ JobFits(x)
<1>. DEFINE no == FALSE
            x == [job[j] EXCEPT !.silent = no]
<1>1. job[j] \in AnyJob /\ no \in BOOLEAN /\ job' = [job EXCEPT ![j] = x] /\ no = FALSE
  BY DEF CutTypes, Heartbeat
<1>. HIDE DEF no
<1>2. /\ x \in AnyJob /\ x.status = job[j].status /\ x.silent = no /\ x.rechunk = job[j].rechunk
      /\ x.kver = job[j].kver /\ x.cursor = job[j].cursor
  BY <1>1 DEF AnyJob
<1>. HIDE DEF x
<1>3. JobFits(x)
  BY <1>2 DEF JobFits
<1>. QED  BY <1>1, <1>2, <1>3

LEMMA WaitCuts == ASSUME CutInv, OneExecution, NEW t \in Tasks, Wait(t)  PROVE CutInv'
<1>1. task[t].pc = "wait" /\ UNCHANGED <<doc, kb>>
  BY DEF Wait, At
<1>2. /\ task[t].job \in Jobs /\ Row(t) = job[task[t].job] /\ Row(t) \in AnyJob /\ Row(t).status # "none"
      /\ JobFits(Row(t)) /\ CutTypes /\ AllFresh(Row(t).kver)
  BY <1>1, CutRow DEF SlotFits, AfterTheBatches
<1>3. CASE Heartbeat(task[t].job) /\ Goto(t, "round")
  <2>. DEFINE pc == "round"
  <2>1. pc \in Steps /\ Goto(t, pc) /\ pc \notin AfterTheBatches
    BY <1>3 DEF Steps, AfterTheBatches
  <2>2. PICK x \in AnyJob : job' = [job EXCEPT ![task[t].job] = x] /\ x.status # "none" /\ JobFits(x)
    BY <1>2, <1>3, Beats
  <2>. QED  BY <1>1, <2>1, <2>2, WritesAndMoves
<1>4. CASE FailJob(t)
  BY <1>1, <1>4, Fails
<1>5. CASE SetJob(task[t].job, "embedding") /\ Goto(t, "list")
  <2>. DEFINE pc == "list"
              status == "embedding"
  <2>1. pc \in Steps /\ Goto(t, pc) /\ status \in ActiveStatuses \union TerminalStatuses /\ SetJob(task[t].job, status)
    BY <1>5 DEF Steps, InTry, ActiveStatuses
  <2>2. PICK x \in AnyJob : job' = [job EXCEPT ![task[t].job] = x] /\ x.status # "none" /\ JobFits(x) /\ x.kver = Row(t).kver
    <3>1. /\ CutTypes /\ task[t].job \in Jobs /\ job[task[t].job].status # "none" /\ JobFits(job[task[t].job])
          /\ AllFresh(job[task[t].job].kver) /\ job[task[t].job].kver = Row(t).kver
      BY <1>2
    <3>2. SetJob(task[t].job, status) /\ status \in ActiveStatuses \union TerminalStatuses
      BY <2>1
    <3>3. job[task[t].job].rechunk /\ status \in {"embedding", "completed"} => AllFresh(job[task[t].job].kver)
      BY <3>1
    <3>. HIDE DEF status
    <3>4. \E x \in AnyJob : /\ job' = [job EXCEPT ![task[t].job] = x] /\ x.kver = job[task[t].job].kver
                            /\ x.status # "none" /\ JobFits(x)
      BY <3>1, <3>2, <3>3, Written
    <3>. QED  BY <3>1, <3>4
  <2>3. AllFresh(x.kver) /\ task[t].pc # "idle" /\ pc \notin {"reload", "reingest", "mark"}
    BY <1>1, <1>2, <2>2
  <2>. HIDE DEF pc
  <2>. QED  BY <1>1, <2>1, <2>2, <2>3, WritesAndMoves
<1>. QED  BY <1>3, <1>4, <1>5 DEF Wait

(* What is found, embedded and counted: the documents of the new chunking. *)
LEMMA WorksOn ==
  ASSUME CutInv, OneExecution, UNCHANGED <<doc, kb, job>>, NEW t \in Tasks,
         task[t].pc \in {"list", "embed", "count"},
         NEW s \in AnySlot, task' = [task EXCEPT ![t] = s], s.pc \in {"embed", "count", "match"},
         s.job = task[t].job
  PROVE  CutInv'
<1>1. /\ task[t].job \in Jobs /\ Row(t) = job[task[t].job] /\ Row(t) \in AnyJob /\ Row(t).status # "none"
      /\ JobFits(Row(t)) /\ CutTypes /\ AllFresh(Row(t).kver)
  BY CutRow DEF SlotFits, AfterTheBatches
<1>2. SlotFits(s, Row(t)) /\ job' = [job EXCEPT ![task[t].job] = Row(t)]
  BY <1>1 DEF SlotFits, AfterTheBatches, CutTypes
<1>. QED  BY <1>1, <1>2, Executes

LEMMA ListCuts == ASSUME CutInv, OneExecution, NEW t \in Tasks, List(t)  PROVE CutInv'
<1>1. task[t].pc = "list" /\ UNCHANGED <<doc, kb, job>>
  BY DEF List, At
<1>2. task[t] \in AnySlot /\ CutTypes
  BY <1>1, CutRow
<1>3. PICK missing \in SUBSET Docs :
        task' = [task EXCEPT ![t] =
          [@ EXCEPT !.pc = IF missing = {} THEN "count" ELSE "embed", !.last = 0,
                    !.todo = {<<d, doc[d].gen>> : d \in missing}]]
  BY DEF List, ActiveDocs
<1>. DEFINE todo == {<<d, doc[d].gen>> : d \in missing}
            zero == 0
<1>4. PICK pc \in {"count", "embed"} : pc = IF missing = {} THEN "count" ELSE "embed"
  OBVIOUS
<1>5. todo \in SUBSET (Docs \X Nat) /\ zero \in Docs \union {0} /\ pc \in Steps
  <2>1. \A d \in missing : <<d, doc[d].gen>> \in Docs \X Nat
    BY <1>2 DEF CutTypes, AnyDoc
  <2>. QED  BY <2>1 DEF Steps, InTry
<1>. DEFINE s == [task[t] EXCEPT !.pc = pc, !.last = zero, !.todo = todo]
<1>6. task' = [task EXCEPT ![t] = s]
  BY <1>3, <1>4
<1>. HIDE DEF todo, zero
<1>7. s \in AnySlot /\ s.pc = pc /\ s.job = task[t].job
  BY <1>2, <1>5 DEF AnySlot
<1>. HIDE DEF s
<1>. QED  BY <1>1, <1>6, <1>7, WorksOn

LEMMA EmbedCuts == ASSUME CutInv, OneExecution, NEW t \in Tasks, Embed(t)  PROVE CutInv'
<1>. DEFINE rest == task[t].todo \ {First(t)}
<1>1. task[t].pc = "embed" /\ UNCHANGED <<doc, kb>>
  BY DEF Embed, At
<1>2. task[t] \in AnySlot
  BY <1>1, CutRow
<1>3. CASE FailJob(t)
  BY <1>1, <1>3, Fails
<1>4. CASE job' = job /\ task' = [task EXCEPT ![t] =
               [@ EXCEPT !.todo = rest, !.pc = IF rest = {} THEN "count" ELSE "embed"]]
  <2>1. PICK pc \in {"count", "embed"} : pc = IF rest = {} THEN "count" ELSE "embed"
    OBVIOUS
  <2>2. rest \in SUBSET (Docs \X Nat) /\ pc \in Steps
    BY <1>2 DEF AnySlot, Steps, InTry
  <2>. DEFINE s == [task[t] EXCEPT !.todo = rest, !.pc = pc]
  <2>3. task' = [task EXCEPT ![t] = s]
    BY <1>4, <2>1
  <2>. HIDE DEF rest
  <2>4. s \in AnySlot /\ s.pc = pc /\ s.job = task[t].job
    BY <1>2, <2>2 DEF AnySlot
  <2>. HIDE DEF s
  <2>. QED  BY <1>1, <1>4, <2>3, <2>4, WorksOn
<1>. QED  BY <1>3, <1>4 DEF Embed

(* The total, before the vectors are counted.                              *)
LEMMA CountCuts == ASSUME CutInv, OneExecution, NEW t \in Tasks, Count(t)  PROVE CutInv'
<1>. DEFINE pc == "match"
<1>1. task[t].pc = "count" /\ UNCHANGED <<doc, kb, job>> /\ pc \in Steps
  BY DEF Count, At, Steps, InTry
<1>2. task[t] \in AnySlot
  BY <1>1, CutRow
<1>3. PICK total \in Nat : task' = [task EXCEPT ![t] = [@ EXCEPT !.pc = pc, !.total = total]]
  BY TotalIsNumber DEF Count
<1>. DEFINE s == [task[t] EXCEPT !.pc = pc, !.total = total]
<1>4. task' = [task EXCEPT ![t] = s]
  BY <1>3
<1>5. s \in AnySlot /\ s.pc = pc /\ s.job = task[t].job
  BY <1>1, <1>2 DEF AnySlot
<1>. HIDE DEF s
<1>. QED  BY <1>1, <1>4, <1>5, WorksOn

(* On to the switch, or another round.                                     *)
LEMMA MatchCuts == ASSUME CutInv, OneExecution, NEW t \in Tasks, Match(t)  PROVE CutInv'
<1>1. task[t].pc = "match" /\ UNCHANGED <<doc, kb>>
  BY DEF Match, At
<1>2. /\ task[t].job \in Jobs /\ Row(t) = job[task[t].job] /\ Row(t) \in AnyJob /\ Row(t).status # "none"
      /\ JobFits(Row(t)) /\ CutTypes /\ AllFresh(Row(t).kver)
  BY <1>1, CutRow DEF SlotFits, AfterTheBatches
<1>3. CASE Goto(t, "switch") /\ job' = job
  <2>. DEFINE pc == "switch"
  <2>1. pc \in Steps /\ Goto(t, pc)
    BY <1>3 DEF Steps, InTry
  <2>. QED  BY <1>1, <1>2, <1>3, <2>1, Moves
<1>4. CASE Goto(t, "round") /\ Heartbeat(task[t].job)
  <2>. DEFINE pc == "round"
  <2>1. pc \in Steps /\ Goto(t, pc) /\ pc \notin AfterTheBatches
    BY <1>4 DEF Steps, AfterTheBatches
  <2>2. PICK x \in AnyJob : job' = [job EXCEPT ![task[t].job] = x] /\ x.status # "none" /\ JobFits(x)
    BY <1>2, <1>4, Beats
  <2>. QED  BY <1>1, <2>1, <2>2, WritesAndMoves
<1>. QED  BY <1>3, <1>4 DEF Match

(* The switch claims what the job was started with.                        *)
LEMMA SwitchCuts == ASSUME CutInv, OneExecution, NEW t \in Tasks, Switch(t)  PROVE CutInv'
<1>. DEFINE pc == "round"
<1>1. task[t].pc = "switch" /\ doc' = doc /\ Goto(t, pc) /\ pc \in Steps
  BY DEF Switch, At, Steps
<1>2. /\ task[t].job \in Jobs /\ Row(t) = job[task[t].job] /\ Row(t) \in AnyJob /\ Row(t).status # "none"
      /\ JobFits(Row(t)) /\ CutTypes /\ AllFresh(Row(t).kver)
  BY <1>1, CutRow DEF SlotFits, AfterTheBatches
<1>. DEFINE no == FALSE
            status == "completed"
            x == [job[task[t].job] EXCEPT !.status = status, !.silent = no, !.aged = no]
            key == Row(t).key
            indexed == Row(t).kver
<1>3. job' = [job EXCEPT ![task[t].job] = x] /\ kb' = [kb EXCEPT !.key = key, !.indexed = indexed]
  BY DEF Switch
<1>4. /\ no \in BOOLEAN /\ status \in ActiveStatuses \union TerminalStatuses /\ status # "none"
      /\ key \in AnyKey /\ indexed \in Nat
  BY <1>2 DEF TerminalStatuses, AnyJob
<1>5. PICK v \in Nat : v = indexed
  BY <1>4
<1>. HIDE DEF no, status, key
<1>6. x \in AnyJob /\ x.status = status /\ x.kver = Row(t).kver /\ x.cursor = Row(t).cursor /\ x.rechunk = Row(t).rechunk
  BY <1>2, <1>4 DEF AnyJob
<1>. HIDE DEF x
<1>7. JobFits(x)
  BY <1>2, <1>6 DEF JobFits
<1>8. kb' \in KbRow /\ kb'.kver = kb.kver /\ kb'.indexed = v
  BY <1>2, <1>3, <1>4, <1>5 DEF CutTypes, KbRow
<1>9. v <= kb.kver /\ AllFresh(v)
  BY <1>2, <1>5 DEF JobFits
<1>10. PICK s \in AnySlot : task' = [task EXCEPT ![t] = s] /\ s.pc = pc /\ s.job = task[t].job
  BY <1>1, <1>2, PlainSlots
<1>11. SlotFits(s, x)
  BY <1>10 DEF SlotFits, AfterTheBatches
<1>12. kb'.indexed <= kb.kver /\ AllFresh(kb'.indexed)
  BY <1>8, <1>9
<1>13. task[t].pc # "idle" /\ x.status # "none"
  BY <1>1, <1>4, <1>6
<1>. HIDE DEF pc, indexed
<1>. QED  BY <1>1, <1>3, <1>6, <1>7, <1>8, <1>10, <1>11, <1>12, <1>13, ExecutionGoesOn

LEMMA RoundCuts == ASSUME CutInv, OneExecution, NEW t \in Tasks, Round(t)  PROVE CutInv'
<1>1. task[t].pc = "round" /\ UNCHANGED <<doc, kb, job>>
  BY DEF Round, At
<1>2. task \in [Tasks -> AnySlot] /\ Idle \in AnySlot
  BY PlainSlots DEF CutInv, CutTypes, Idle, AnySlot, Steps
<1>3. CASE Done(t)
  BY <1>1, <1>3, Rests DEF Done, Released
<1>4. CASE Goto(t, "load")
  <2>. DEFINE pc == "load"
  <2>1. pc \in Steps /\ Goto(t, pc) /\ pc \notin AfterTheBatches
    BY <1>4 DEF Steps, AfterTheBatches
  <2>. QED  BY <1>1, <2>1, Moves
<1>5. CASE Send(Released(t), task[t].job)
  <2>1. CASE task' = Released(t)
    BY <1>1, <2>1, Rests DEF Released
  <2>2. ASSUME NEW s \in Tasks, task' = [Released(t) EXCEPT ![s] = Message(task[t].job)]
        PROVE  task' = [task EXCEPT ![t] = Message(task[t].job)]
    <3>1. s = t
      BY DEF OneExecution
    <3>. QED  BY <1>2, <2>2, <3>1 DEF Released
  <2>. QED  BY <1>1, <1>5, <2>1, <2>2, Rests DEF Send
<1>. QED  BY <1>3, <1>4, <1>5 DEF Round

LEMMA FaultCuts ==
  ASSUME CutInv, OneExecution, NEW t \in Tasks, Raise(t) \/ Crash(t) \/ Redeliver(t)
  PROVE  CutInv'
<1>1. task[t].pc # "idle" /\ UNCHANGED <<doc, kb>>
  BY DEF Raise, Crash, Redeliver
<1>2. CASE Raise(t)
  <2>1. CASE task[t].pc \in InTry
    BY <1>1, <1>2, <2>1, GivesUp DEF Raise
  <2>2. CASE task[t].pc \notin InTry
    BY <1>1, <1>2, <2>2, Rests DEF Raise, Released
  <2>. QED  BY <2>1, <2>2
<1>3. CASE Crash(t)
  BY <1>1, <1>3, Rests DEF Crash
<1>4. CASE Redeliver(t)
  BY <1>1, <1>4 DEF Redeliver, OneExecution
<1>. QED  BY <1>2, <1>3, <1>4

-----------------------------------------------------------------------------
(* Jobs are started, rescued and cleaned up after.                         *)
LEMMA SlotKept ==
  ASSUME NEW s, NEW x, NEW y, SlotFits(s, y), x.kver = y.kver,
         s.pc = "reload" => ~ x.silent /\ x.rechunk = y.rechunk /\ x.status = y.status
  PROVE  SlotFits(s, x)
BY DEF SlotFits, AfterTheBatches

LEMMA JobGoesOn ==
  ASSUME CutInv, UNCHANGED <<doc, kb, task>>, NEW j \in Jobs, NEW x \in AnyJob,
         x.status # "none" \/ x.status = job[j].status, JobFits(x), job' = [job EXCEPT ![j] = x],
         \A t \in Tasks : task[t].pc # "idle" /\ task[t].job = j => SlotFits(task[t], x)
  PROVE  CutInv'
<1>1. CutTypes /\ Claim
  BY DEF CutInv
<1>2. job'[j] = x /\ (\A i \in Jobs \ {j} : job'[i] = job[i])
  BY <1>1 DEF CutTypes
<1>3. CutTypes' /\ Claim'
  BY <1>1 DEF CutTypes, Claim, AllFresh, NotYetUploaded
<1>4. ASSUME NEW i \in Jobs  PROVE JobFits(job[i])'
  <2>1. PICK y : y = job'[i]
    OBVIOUS
  <2>2. JobFits(y)
    BY <1>2, <2>1 DEF CutInv
  <2>3. JobFits(y)'
    BY <2>2, SameSaid
  <2>. QED  BY <2>1, <2>3 DEF JobFits
<1>5. ASSUME NEW t \in Tasks  PROVE TaskFits(t)'
  <2>1. CASE task[t].pc = "idle"
    BY <2>1 DEF TaskFits
  <2>2. CASE task[t].pc # "idle"
    <3>1. task[t].job \in Jobs /\ job[task[t].job].status # "none" /\ SlotFits(task[t], job[task[t].job])
      BY <2>2 DEF CutInv, TaskFits
    <3>2. PICK y, s : y = job'[task[t].job] /\ s = task[t]
      OBVIOUS
    <3>3. SlotFits(s, y) /\ y.status # "none"
      BY <1>2, <2>2, <3>1, <3>2
    <3>4. SlotFits(s, y)'
      BY <3>3, SameSaid
    <3>. QED  BY <3>1, <3>2, <3>3, <3>4 DEF TaskFits, SlotFits, AfterTheBatches
  <2>. QED  BY <2>1, <2>2
<1>. QED  BY <1>3, <1>4, <1>5 DEF CutInv

LEMMA MessageComes ==
  ASSUME CutInv, OneExecution, UNCHANGED <<doc, kb>>, NEW j \in Jobs, NEW x \in AnyJob, x.status # "none", JobFits(x),
         job' = [job EXCEPT ![j] = x], NEW t \in Tasks, task' = [task EXCEPT ![t] = Message(j)]
  PROVE  CutInv'
<1>1. CutTypes /\ Claim
  BY DEF CutInv
<1>2. job'[j] = x /\ (\A i \in Jobs \ {j} : job'[i] = job[i]) /\ task'[t] = Message(j)
  BY <1>1 DEF CutTypes
<1>3. Message(j) \in AnySlot
  BY DEF Message, AnySlot, Steps
<1>4. CutTypes' /\ Claim'
  BY <1>1, <1>3 DEF CutTypes, Claim, AllFresh, NotYetUploaded
<1>5. ASSUME NEW i \in Jobs  PROVE JobFits(job[i])'
  <2>1. PICK y : y = job'[i]
    OBVIOUS
  <2>2. JobFits(y)
    BY <1>2, <2>1 DEF CutInv
  <2>3. JobFits(y)'
    BY <2>2, SameSaid
  <2>. QED  BY <2>1, <2>3 DEF JobFits
<1>6. ASSUME NEW u \in Tasks  PROVE TaskFits(u)'
  <2>1. task'[u] = Message(j)
    BY <1>2 DEF OneExecution
  <2>2. Message(j).pc = "queued" /\ Message(j).job = j
    BY DEF Message
  <2>. QED  BY <1>2, <2>1, <2>2 DEF TaskFits, SlotFits, AfterTheBatches
<1>. QED  BY <1>4, <1>5, <1>6 DEF CutInv

LEMMA StartCuts == ASSUME CutInv, OneExecution, StartModel \/ StartRechunk  PROVE CutInv'
<1>1. PICK model \in Models \union {kb.key[1]}, rechunk \in BOOLEAN : Start(model, rechunk)
  BY DEF StartModel, StartRechunk
<1>2. PICK j \in Jobs : /\ job[j].status = "none" /\ job' = [job EXCEPT ![j] = PlanReindex(model, rechunk)]
                        /\ Send(task, j)
  BY <1>1 DEF Start
<1>3. UNCHANGED <<doc, kb>> /\ CutTypes /\ kb \in KbRow /\ Claim
  BY <1>1 DEF Start, CutInv, CutTypes
<1>. DEFINE status == "pending"
            key == <<model, IF rechunk THEN kb.key[2] ELSE kb.key[2] + 1>>
            kver == IF rechunk THEN kb.kver ELSE kb.indexed
            x == PlanReindex(model, rechunk)
<1>4. key \in AnyKey
  <2>1. kb.key \in AnyKey
    BY <1>3 DEF KbRow
  <2>. QED  BY <2>1, InstanceAssumption DEF AnyKey
<1>5. kver \in Nat /\ kver <= kb.kver /\ (~ rechunk => AllFresh(kver))
  <2>1. kb.kver \in Nat /\ kb.indexed \in Nat /\ kb.indexed <= kb.kver /\ AllFresh(kb.indexed)
    BY <1>3 DEF KbRow, Claim
  <2>2. CASE rechunk
    BY <2>1, <2>2
  <2>3. CASE ~ rechunk
    <3>1. kver = kb.indexed
      BY <2>3
    <3>. HIDE DEF kver
    <3>. QED  BY <2>1, <3>1
  <2>. QED  BY <2>2, <2>3
<1>6. NoJob \in AnyJob /\ NoJob.cursor = 0
  <2>1. <<FirstModel, 1>> \in AnyKey
    BY InstanceAssumption DEF AnyKey
  <2>. QED  BY <2>1 DEF NoJob, AnyJob
<1>7. status \in ActiveStatuses /\ status \notin {"none", "embedding", "completed"}
  BY DEF ActiveStatuses
<1>8. x = [NoJob EXCEPT !.status = status, !.rechunk = rechunk, !.key = key, !.kver = kver]
  BY DEF PlanReindex
<1>. HIDE DEF status, key, kver, x
<1>9. x \in AnyJob /\ x.status = status /\ x.rechunk = rechunk /\ x.kver = kver /\ x.cursor = 0
  BY <1>4, <1>5, <1>6, <1>7, <1>8 DEF AnyJob
<1>10. JobFits(x) /\ x.status # "none"
  BY <1>5, <1>7, <1>9, DocNumber DEF JobFits
<1>11. job' = [job EXCEPT ![j] = x]
  BY <1>2 DEF x
<1>12. CASE task' = task
  <2>1. \A t \in Tasks : task[t].pc # "idle" => task[t].job # j
    BY <1>2 DEF CutInv, TaskFits
  <2>. QED  BY <1>3, <1>9, <1>10, <1>11, <1>12, <2>1, JobGoesOn
<1>13. ASSUME NEW t \in Tasks, task' = [task EXCEPT ![t] = Message(j)]  PROVE CutInv'
  BY <1>3, <1>9, <1>10, <1>11, <1>13, MessageComes
<1>. QED  BY <1>2, <1>12, <1>13 DEF Send

LEMMA CutStays == ASSUME CutInv, UNCHANGED <<kb, doc, job, task>>  PROVE CutInv'
BY DEF CutInv, CutTypes, Claim, AllFresh, NotYetUploaded, JobFits, TaskFits, SlotFits, AfterTheBatches, BatchFits, Fresh,
       Listed, Behind

LEMMA BeatCuts ==
  ASSUME CutInv, OneExecution, NEW j \in Jobs, Beat(j) \/ Stall(j) \/ WindowEnds(j)
  PROVE  CutInv'
<1>1. UNCHANGED <<doc, kb>> /\ CutTypes /\ job[j] \in AnyJob /\ JobFits(job[j])
  BY DEF CutInv, CutTypes, Beat, RescuePending, RescueStalled, ReadKept, PurgeOld, Stall, WindowEnds
<1>2. \A t \in Tasks : task[t].pc # "idle" /\ task[t].job = j => SlotFits(task[t], job[j])
  BY DEF CutInv, TaskFits
<1>3. CASE RescuePending(j)
  <2>1. job' = [job EXCEPT ![j] = job[j]] /\ Send(task, j) /\ job[j].status # "none"
    BY <1>1, <1>3 DEF RescuePending, CutTypes
  <2>2. CASE task' = task
    BY <1>1, <1>2, <2>1, <2>2, JobGoesOn
  <2>3. ASSUME NEW t \in Tasks, task' = [task EXCEPT ![t] = Message(j)]  PROVE CutInv'
    BY <1>1, <2>1, <2>3, MessageComes
  <2>. QED  BY <2>1, <2>2, <2>3 DEF Send
<1>4. CASE RescueStalled(j)
  <2>. DEFINE status == "failed"
  <2>1. SetJob(j, status) /\ task' = task /\ job[j].silent /\ job[j].status # "none"
    BY <1>4 DEF RescueStalled
  <2>2. status \in ActiveStatuses \union TerminalStatuses /\ ~ (status \in {"embedding", "completed"})
    BY DEF TerminalStatuses
  <2>. HIDE DEF status
  <2>3. PICK x \in AnyJob : /\ job' = [job EXCEPT ![j] = x] /\ x.kver = job[j].kver /\ x.status # "none" /\ JobFits(x)
    BY <1>1, <2>1, <2>2, Written
  <2>4. ASSUME NEW t \in Tasks, task[t].pc # "idle", task[t].job = j  PROVE SlotFits(task[t], x)
    <3>1. SlotFits(task[t], job[j]) /\ task[t].pc # "reload"
      BY <1>2, <2>1, <2>4 DEF SlotFits, AfterTheBatches
    <3>. QED  BY <2>3, <3>1, SlotKept
  <2>. QED  BY <1>1, <2>1, <2>3, <2>4, JobGoesOn
<1>5. ASSUME NEW silent \in BOOLEAN, NEW aged \in BOOLEAN, NEW purged \in BOOLEAN, task' = task,
             job' = [job EXCEPT ![j] = [job[j] EXCEPT !.silent = silent, !.aged = aged, !.purged = purged]],
             silent => job[j].silent \/ \A t \in Tasks : task[t].job = j => task[t].pc # "reload"
      PROVE  CutInv'
  <2>. DEFINE x == [job[j] EXCEPT !.silent = silent, !.aged = aged, !.purged = purged]
  <2>1. /\ x \in AnyJob /\ x.status = job[j].status /\ x.rechunk = job[j].rechunk /\ x.kver = job[j].kver
        /\ x.cursor = job[j].cursor /\ x.silent = silent
    BY <1>1 DEF AnyJob
  <2>2. job' = [job EXCEPT ![j] = x]
    BY <1>5
  <2>. HIDE DEF x
  <2>3. JobFits(x)
    BY <1>1, <2>1 DEF JobFits
  <2>4. ASSUME NEW t \in Tasks, task[t].pc # "idle", task[t].job = j  PROVE SlotFits(task[t], x)
    <3>1. SlotFits(task[t], job[j])
      BY <1>2, <2>4
    <3>2. task[t].pc = "reload" => ~ x.silent
      BY <1>5, <2>1, <2>4, <3>1 DEF SlotFits, AfterTheBatches
    <3>. QED  BY <2>1, <3>1, <3>2, SlotKept
  <2>. QED  BY <1>1, <1>5, <2>1, <2>2, <2>3, <2>4, JobGoesOn
<1>6. job[j].silent \in BOOLEAN /\ job[j].aged \in BOOLEAN /\ job[j].purged \in BOOLEAN
      /\ job[j] = [job[j] EXCEPT !.silent = job[j].silent, !.aged = job[j].aged, !.purged = job[j].purged]
  BY <1>1 DEF AnyJob
<1>7. CASE PurgeOld(j)
  <2>1. task' = task /\ job' = [job EXCEPT ![j] = [job[j] EXCEPT !.silent = FALSE, !.aged = job[j].aged, !.purged = TRUE]]
    BY <1>1, <1>7 DEF PurgeOld, AnyJob
  <2>. QED  BY <1>5, <1>6, <2>1
<1>8. CASE Stall(j)
  <2>1. task' = task /\ job' = [job EXCEPT ![j] = [job[j] EXCEPT !.silent = TRUE, !.aged = job[j].aged, !.purged = job[j].purged]]
    BY <1>1, <1>8 DEF Stall, AnyJob, CutTypes
  <2>2. \A t \in Tasks : task[t].job = j => task[t].pc # "reload"
    BY <1>8 DEF Stall
  <2>. QED  BY <1>5, <1>6, <2>1, <2>2
<1>9. CASE WindowEnds(j)
  <2>1. task' = task /\ job' = [job EXCEPT ![j] = [job[j] EXCEPT !.silent = job[j].silent, !.aged = TRUE, !.purged = job[j].purged]]
    BY <1>1, <1>9 DEF WindowEnds, AnyJob, CutTypes
  <2>. QED  BY <1>5, <1>6, <2>1
<1>10. CASE ReadKept(j)
  BY <1>1, <1>10, CutStays DEF ReadKept
<1>. QED  BY <1>3, <1>4, <1>7, <1>8, <1>9, <1>10 DEF Beat

LEMMA CutStart == Init => CutInv
<1>. SUFFICES ASSUME Init  PROVE CutInv
  OBVIOUS
<1>1. <<FirstModel, 1>> \in AnyKey
  BY InstanceAssumption DEF AnyKey
<1>2. kb \in KbRow /\ kb.indexed = 1 /\ kb.kver = 1
  BY <1>1 DEF Init, KbRow
<1>3. doc \in [Docs -> AnyDoc]
  BY <1>1 DEF Init, AnyDoc, DocStatuses
<1>4. NoJob \in AnyJob /\ NoJob.status = "none"
  BY <1>1 DEF NoJob, AnyJob
<1>5. job \in [Jobs -> AnyJob] /\ \A j \in Jobs : job[j].status = "none"
  BY <1>4 DEF Init
<1>6. Idle \in AnySlot /\ Idle.pc = "idle"
  BY DEF Idle, AnySlot, Steps
<1>7. task \in [Tasks -> AnySlot] /\ \A t \in Tasks : task[t].pc = "idle"
  BY <1>6 DEF Init
<1>8. (\A d \in Docs : Fresh(doc[d], 1)) /\ NotYetUploaded
  BY DEF Init, Fresh, NotYetUploaded
<1>9. Claim
  BY <1>2, <1>8 DEF Claim, AllFresh
<1>. QED  BY <1>2, <1>3, <1>5, <1>7, <1>9 DEF CutInv, CutTypes, JobFits, TaskFits

LEMMA CutStep == OneExecution /\ CutInv /\ [Next]_vars => CutInv'
<1>. SUFFICES ASSUME OneExecution, CutInv, [Next]_vars  PROVE CutInv'
  OBVIOUS
<1>1. ASSUME NEW t \in Tasks, Execute(t)  PROVE CutInv'
  BY <1>1, LoadCuts, BeginCuts, ReloadCuts, BatchCuts, NextDocumentCuts, MarkCuts, WaitCuts, ListCuts, EmbedCuts,
     CountCuts, MatchCuts, SwitchCuts, RoundCuts DEF Execute
<1>2. ASSUME NEW t \in Tasks, Raise(t) \/ Crash(t) \/ Redeliver(t)  PROVE CutInv'
  BY <1>2, FaultCuts
<1>3. ASSUME NEW d \in Docs, User(d) \/ Pipeline(d) \/ DocumentFails(d)  PROVE CutInv'
  BY <1>3, UserCuts, PipelineCuts
<1>4. ASSUME NEW j \in Jobs, Beat(j) \/ Stall(j) \/ WindowEnds(j)  PROVE CutInv'
  BY <1>4, BeatCuts
<1>5. CASE StartModel \/ StartRechunk
  BY <1>5, StartCuts
<1>6. CASE ChangeConfig
  BY <1>6, ConfigCuts
<1>7. CASE UNCHANGED <<kb, doc, job, task>>
  BY <1>7, CutStays
<1>. QED  BY <1>1, <1>2, <1>3, <1>4, <1>5, <1>6, <1>7 DEF Next, PurgeSuperseded, CleanerFails, vars

(* IndexedIsCut: the chunking the knowledge base says it is indexed with is *)
(* the one its ready documents were cut with, or an older one, whatever     *)
(* users ask for and whatever fails meanwhile (reindex.py: _send_batch,     *)
(* _advance_rechunking, _switch).  With two executions at a time it does    *)
(* not hold.                                                                *)
THEOREM ChunkingIsNotClaimedEarly == OneExecution => (Spec => []IndexedIsCut)
<1>. SUFFICES ASSUME OneExecution  PROVE Spec => []IndexedIsCut
  OBVIOUS
<1>1. CutInv => IndexedIsCut
  BY DEF CutInv, Claim, AllFresh, Fresh, IndexedIsCut, Live
<1>2. CutInv /\ [Next]_vars => CutInv'
  BY CutStep
<1>. QED  BY <1>1, <1>2, CutStart, PTL DEF Spec

-----------------------------------------------------------------------------
(***************************************************************************)
(* Whatever users ask for, with any number of executions: the types, and   *)
(* no embedding version beyond one for each job                            *)
(***************************************************************************)
TypedDoc == [life : {"absent", "live", "deleted"}, status : DocStatuses,
             gen : Gens, cut : 1 .. MaxKver, key : Keys]
TypedJob == [status : ActiveStatuses \union TerminalStatuses \union {"none"},
             key : Keys, kver : 1 .. MaxKver, rechunk : BOOLEAN,
             cursor : Docs \union {0}, silent : BOOLEAN, aged : BOOLEAN, purged : BOOLEAN]
TypedSlot == [job : Jobs \union {0}, pc : Steps, todo : SUBSET (Docs \X Gens), last : Docs \union {0},
              total : Nat]

DocsTyped ==
  doc \in [Docs -> TypedDoc] /\ rows \in [Docs -> SUBSET Gens] /\ vec \in [Docs -> SUBSET (Gens \X Keys)]
KbTyped == kb \in [key : Keys, kver : 1 .. MaxKver, indexed : 1 .. MaxKver]

(* Jobs are opened in order, each one version above the knowledge base.    *)
VersionsFit(key, jobs) == \A j \in Jobs :
  /\ jobs[j].key[2] <= j + 1
  /\ jobs[j].status = "none" =>
       key[2] <= j /\ \A i \in Jobs : i > j => jobs[i].status = "none"

(* An execution is about a job that was opened, and a batch is not empty.  *)
Runs(s, jobs) ==
  /\ s \in TypedSlot
  /\ s.pc # "idle" => s.job \in Jobs /\ jobs[s.job].status # "none"
  /\ s.pc \in {"reingest", "embed"} => s.todo # {}
Running(slots, jobs) == slots \in [Tasks -> TypedSlot] /\ \A t \in Tasks : Runs(slots[t], jobs)

ReindexTypes ==
  /\ DocsTyped /\ KbTyped /\ job \in [Jobs -> TypedJob] /\ faults \in 0 .. MaxFaults
  /\ VersionsFit(kb.key, job) /\ Running(task, job)

(* What the cleanup has read, and what was overtaken.                      *)
ReadTyped == cleaner \subseteq Jobs \X Keys /\ overtaken \subseteq {"count", "kept"}

LEMMA TypesAreTypes == ReindexTypes => (ReadTyped => TypeOK) /\ CutTypes
<1>. SUFFICES ASSUME ReindexTypes PROVE (ReadTyped => TypeOK) /\ CutTypes
  OBVIOUS
<1>1. ReadTyped => TypeOK
  BY DEF ReindexTypes, ReadTyped, DocsTyped, KbTyped, Running, TypeOK, TypedDoc, TypedJob, TypedSlot
<1>2. Keys \subseteq AnyKey /\ 1 .. MaxKver \subseteq Nat /\ Gens \subseteq Nat
  BY InstanceAssumption DEF Keys, AnyKey, Versions, Gens
<1>3. TypedDoc \subseteq AnyDoc /\ TypedJob \subseteq AnyJob
  BY <1>2 DEF TypedDoc, AnyDoc, TypedJob, AnyJob
<1>4. SUBSET (Docs \X Gens) \subseteq SUBSET (Docs \X Nat)
  BY <1>2
<1>5. TypedSlot \subseteq AnySlot
  BY <1>4 DEF TypedSlot, AnySlot
<1>6. kb \in KbRow
  BY <1>2 DEF ReindexTypes, KbTyped, KbRow
<1>. QED  BY <1>1, <1>3, <1>5, <1>6 DEF CutTypes, ReindexTypes, DocsTyped, Running

(* Slots.                                                                  *)
LEMMA SlotWritten ==
  ASSUME NEW slots, NEW jobs, Running(slots, jobs), NEW t \in Tasks, NEW s, Runs(s, jobs)
  PROVE  Running([slots EXCEPT ![t] = s], jobs)
BY DEF Running, Runs

LEMMA OpenedStay ==
  ASSUME NEW slots, NEW jobs, Running(slots, jobs), NEW new,
         \A j \in Jobs : jobs[j].status # "none" => new[j].status # "none"
  PROVE  Running(slots, new)
BY DEF Running, Runs

LEMMA NewSlots ==
  ASSUME NEW jobs
  PROVE  Runs(Idle, jobs) /\ \A j \in Jobs : jobs[j].status # "none" => Runs(Message(j), jobs)
<1>1. Idle \in TypedSlot /\ Idle.pc = "idle"
  BY DEF Idle, TypedSlot, Steps
<1>2. ASSUME NEW j \in Jobs
      PROVE  Message(j) \in TypedSlot /\ Message(j).pc = "queued" /\ Message(j).job = j
  BY DEF Message, TypedSlot, Steps
<1>. QED  BY <1>1, <1>2 DEF Runs

(* An execution goes on, without a batch.                                  *)
LEMMA GoneTo ==
  ASSUME Running(task, job), NEW t \in Tasks, task[t].pc # "idle", NEW pc \in Steps \ {"reingest", "embed"},
         Goto(t, pc)
  PROVE  \E s : task' = [task EXCEPT ![t] = s] /\ Runs(s, job) /\ s.job = task[t].job
<1>. DEFINE none == {}
            zero == 0
            s == [task[t] EXCEPT !.pc = pc, !.todo = none, !.last = zero, !.total = zero]
<1>1. task' = [task EXCEPT ![t] = s]
  BY DEF Goto
<1>2. none \in SUBSET (Docs \X Gens) /\ zero \in Docs \union {0} /\ zero \in Nat /\ Runs(task[t], job)
  BY DEF Running
<1>. HIDE DEF none, zero
<1>3. s \in TypedSlot /\ s.pc = pc /\ s.job = task[t].job
  BY <1>2 DEF TypedSlot, Runs
<1>. HIDE DEF s
<1>. QED  BY <1>1, <1>2, <1>3 DEF Runs

(* enqueue_reindex.                                                        *)
LEMMA SentRuns ==
  ASSUME NEW slots, NEW jobs, Running(slots, jobs), NEW j \in Jobs, jobs[j].status # "none",
         Send(slots, j), faults \in 0 .. MaxFaults
  PROVE  Running(task', jobs) /\ faults' \in 0 .. MaxFaults
<1>1. Runs(Message(j), jobs)
  BY NewSlots
<1>2. task' = slots \/ \E s \in Tasks : task' = [slots EXCEPT ![s] = Message(j)]
  BY DEF Send
<1>3. faults' \in 0 .. MaxFaults
  BY InstanceAssumption DEF Send, Fault
<1>. QED  BY <1>1, <1>2, <1>3, SlotWritten

(* What an execution finds.                                                *)
LEMMA FoundRow ==
  ASSUME ReindexTypes, NEW t \in Tasks, task[t].pc # "idle"
  PROVE  /\ task[t].job \in Jobs /\ Row(t) = job[task[t].job] /\ Row(t) \in TypedJob /\ Row(t).status # "none"
         /\ task[t] \in TypedSlot /\ Runs(task[t], job) /\ Running(task, job)
BY DEF ReindexTypes, Running, Runs, Row

(* A job is written, its target and its opening stay.                      *)
LEMMA JobWritten ==
  ASSUME ReindexTypes, NEW j \in Jobs, NEW x \in TypedJob, x.key = job[j].key,
         x.status = "none" <=> job[j].status = "none", job' = [job EXCEPT ![j] = x]
  PROVE  /\ job' \in [Jobs -> TypedJob] /\ Running(task, job')
         /\ \A key : VersionsFit(key, job) => VersionsFit(key, job')
<1>1. job \in [Jobs -> TypedJob] /\ Running(task, job)
  BY DEF ReindexTypes
<1>2. job' \in [Jobs -> TypedJob] /\ job'[j] = x /\ \A i \in Jobs : i # j => job'[i] = job[i]
  BY <1>1
<1>3. /\ \A i \in Jobs : job'[i].key = job[i].key
      /\ \A i \in Jobs : job'[i].status = "none" <=> job[i].status = "none"
  BY <1>2
<1>4. Running(task, job')
  <2>1. \A i \in Jobs : job[i].status # "none" => job'[i].status # "none"
    BY <1>3
  <2>. QED  BY <1>1, <2>1, OpenedStay
<1>5. ASSUME NEW key, VersionsFit(key, job) PROVE VersionsFit(key, job')
  BY <1>3, <1>5 DEF VersionsFit
<1>. QED  BY <1>2, <1>4, <1>5

(* KbReindexJobRepository.update with a status.                            *)
LEMMA StatusWritten ==
  ASSUME ReindexTypes, NEW j \in Jobs, job[j].status # "none",
         NEW status \in ActiveStatuses \union TerminalStatuses, SetJob(j, status)
  PROVE  /\ job' \in [Jobs -> TypedJob] /\ Running(task, job')
         /\ \A key : VersionsFit(key, job) => VersionsFit(key, job')
<1>. DEFINE no == FALSE
            x == [job[j] EXCEPT !.status = status, !.silent = no]
<1>1. job' = [job EXCEPT ![j] = x]
  BY DEF SetJob
<1>2. job[j] \in TypedJob /\ no \in BOOLEAN /\ status # "none"
  BY DEF ReindexTypes, ActiveStatuses, TerminalStatuses
<1>. HIDE DEF no
<1>3. x \in TypedJob /\ x.key = job[j].key /\ x.status = status
  BY <1>2 DEF TypedJob
<1>. HIDE DEF x
<1>. QED  BY <1>1, <1>2, <1>3, JobWritten

(* One that only notes that it is alive.                                   *)
LEMMA HeartbeatWritten ==
  ASSUME ReindexTypes, NEW j \in Jobs, job[j].status # "none", Heartbeat(j)
  PROVE  /\ job' \in [Jobs -> TypedJob] /\ Running(task, job')
         /\ \A key : VersionsFit(key, job) => VersionsFit(key, job')
<1>. DEFINE no == FALSE
            x == [job[j] EXCEPT !.silent = no]
<1>1. job' = [job EXCEPT ![j] = x]
  BY DEF Heartbeat
<1>2. job[j] \in TypedJob /\ no \in BOOLEAN
  BY DEF ReindexTypes
<1>. HIDE DEF no
<1>3. x \in TypedJob /\ x.key = job[j].key /\ x.status = job[j].status
  BY <1>2 DEF TypedJob
<1>. HIDE DEF x
<1>. QED  BY <1>1, <1>3, JobWritten

(* The job side of a step: documents and knowledge base stay.              *)
LEMMA JobSideMoves ==
  ASSUME ReindexTypes, UNCHANGED <<kb, doc, rows>>, DocsTyped',
         job' \in [Jobs -> TypedJob], Running(task', job'), VersionsFit(kb.key, job'),
         faults' \in 0 .. MaxFaults
  PROVE  ReindexTypes'
<1>1. KbTyped' /\ VersionsFit(kb.key, job)'
  BY DEF ReindexTypes, KbTyped
<1>2. Running(task, job)' /\ (job \in [Jobs -> TypedJob])' /\ (faults \in 0 .. MaxFaults)'
  OBVIOUS
<1>. QED  BY <1>1, <1>2 DEF ReindexTypes

(* Only messages and executions move.                                      *)
LEMMA TasksMove ==
  ASSUME ReindexTypes, UNCHANGED <<kb, doc, rows, vec, job>>, Running(task', job), faults' \in 0 .. MaxFaults
  PROVE  ReindexTypes'
<1>1. DocsTyped'
  BY DEF ReindexTypes, DocsTyped
<1>. QED  BY <1>1, JobSideMoves DEF ReindexTypes

LEMMA ExecutionMoves ==
  ASSUME ReindexTypes, UNCHANGED <<kb, doc, rows, vec, job, faults>>, NEW t \in Tasks, NEW s, Runs(s, job),
         task' = [task EXCEPT ![t] = s]
  PROVE  ReindexTypes'
<1>1. Running(task', job) /\ faults' \in 0 .. MaxFaults
  BY SlotWritten DEF ReindexTypes
<1>. QED  BY <1>1, TasksMove

(* An execution that ends, or goes elsewhere.                              *)
LEMMA ExecutionEnds ==
  ASSUME ReindexTypes, UNCHANGED <<kb, doc, rows, vec, job>>, NEW t \in Tasks, Done(t)
  PROVE  ReindexTypes'
<1>1. Runs(Idle, job)
  BY NewSlots
<1>. QED  BY <1>1, ExecutionMoves DEF Done, Released

LEMMA ExecutionGoes ==
  ASSUME ReindexTypes, UNCHANGED <<kb, doc, rows, vec, job>>, NEW t \in Tasks, task[t].pc # "idle",
         NEW pc \in Steps \ {"reingest", "embed"}, Goto(t, pc)
  PROVE  ReindexTypes'
<1>1. PICK s : task' = [task EXCEPT ![t] = s] /\ Runs(s, job)
  BY GoneTo DEF ReindexTypes
<1>. QED  BY <1>1, ExecutionMoves DEF Goto

(* One that also writes its job.                                           *)
LEMMA WritesAndGoes ==
  ASSUME ReindexTypes, UNCHANGED <<kb, doc, rows, vec>>, NEW t \in Tasks, task[t].pc # "idle",
         job' \in [Jobs -> TypedJob], Running(task, job'), \A key : VersionsFit(key, job) => VersionsFit(key, job'),
         Done(t) \/ \E pc \in Steps \ {"reingest", "embed"} : Goto(t, pc)
  PROVE  ReindexTypes'
<1>1. task[t].job \in Jobs /\ job'[task[t].job].status # "none"
  BY DEF Running, Runs
<1>2. Running(task', job') /\ faults' = faults
  <2>1. CASE Done(t)
    BY <2>1, NewSlots, SlotWritten DEF Done, Released
  <2>2. ASSUME NEW pc \in Steps \ {"reingest", "embed"}, Goto(t, pc) PROVE Running(task', job') /\ faults' = faults
    <3>1. PICK s : task' = [task EXCEPT ![t] = s] /\ Runs(s, job) /\ s.job = task[t].job
      BY <2>2, GoneTo DEF ReindexTypes
    <3>2. Runs(s, job')
      BY <1>1, <3>1 DEF Runs
    <3>3. faults' = faults
      BY <2>2 DEF Goto
    <3>. QED  BY <3>1, <3>2, <3>3, SlotWritten
  <2>3. Done(t) \/ \E pc \in Steps \ {"reingest", "embed"} : Goto(t, pc)
    OBVIOUS
  <2>. QED  BY <2>1, <2>2, <2>3
<1>3. DocsTyped' /\ faults' \in 0 .. MaxFaults /\ VersionsFit(kb.key, job')
  BY <1>2 DEF ReindexTypes, DocsTyped
<1>. QED  BY <1>2, <1>3, JobSideMoves

(* An exception inside the try.                                            *)
LEMMA FailedTyped ==
  ASSUME ReindexTypes, UNCHANGED <<kb, doc, rows, vec>>, NEW t \in Tasks, task[t].pc # "idle", FailJob(t)
  PROVE  ReindexTypes'
<1>1. task[t].job \in Jobs /\ job[task[t].job].status # "none"
  BY FoundRow
<1>. DEFINE status == "failed"
<1>2. status \in ActiveStatuses \union TerminalStatuses /\ SetJob(task[t].job, status) /\ Done(t)
  BY DEF TerminalStatuses, FailJob
<1>. HIDE DEF status
<1>3. /\ job' \in [Jobs -> TypedJob] /\ Running(task, job')
      /\ \A key : VersionsFit(key, job) => VersionsFit(key, job')
  BY <1>1, <1>2, StatusWritten
<1>. QED  BY <1>2, <1>3, WritesAndGoes

-----------------------------------------------------------------------------
(* One round of advance.                                                   *)

LEMMA LoadTyped == ASSUME ReindexTypes, NEW t \in Tasks, Load(t)  PROVE ReindexTypes'
<1>1. task[t].pc # "idle" /\ UNCHANGED <<kb, doc, rows, vec, job>>
  BY DEF Load
<1>2. Row(t) \in TypedJob /\ Row(t).status # "none"
  BY <1>1, FoundRow
<1>3. Done(t) \/ \E pc \in {"begin", "batch", "list"} : Goto(t, pc)
  BY <1>2 DEF Load, TypedJob, ActiveStatuses, TerminalStatuses
<1>4. {"begin", "batch", "list"} \subseteq Steps \ {"reingest", "embed"}
  BY DEF Steps, InTry
<1>. QED  BY <1>1, <1>3, <1>4, ExecutionEnds, ExecutionGoes

LEMMA BeginTyped == ASSUME ReindexTypes, NEW t \in Tasks, Begin(t)  PROVE ReindexTypes'
<1>1. task[t].pc # "idle" /\ UNCHANGED <<kb, doc, rows, vec>>
  BY DEF Begin, At
<1>2. task[t].job \in Jobs /\ job[task[t].job].status # "none"
  BY <1>1, FoundRow
<1>3. CASE Done(t) /\ job' = job
  BY <1>1, <1>3, ExecutionEnds
<1>4. ASSUME NEW status \in {"rechunking", "embedding"}, SetJob(task[t].job, status), Goto(t, "reload")
      PROVE  ReindexTypes'
  <2>1. status \in ActiveStatuses \union TerminalStatuses /\ "reload" \in Steps \ {"reingest", "embed"}
    BY DEF ActiveStatuses, Steps
  <2>2. /\ job' \in [Jobs -> TypedJob] /\ Running(task, job')
        /\ \A key : VersionsFit(key, job) => VersionsFit(key, job')
    BY <1>2, <1>4, <2>1, StatusWritten
  <2>. QED  BY <1>1, <1>4, <2>1, <2>2, WritesAndGoes
<1>. QED  BY <1>3, <1>4 DEF Begin

LEMMA ReloadTyped == ASSUME ReindexTypes, NEW t \in Tasks, Reload(t)  PROVE ReindexTypes'
<1>1. task[t].pc # "idle" /\ UNCHANGED <<kb, doc, rows, vec, job>> /\ \E pc \in {"batch", "list"} : Goto(t, pc)
  BY DEF Reload, At
<1>2. {"batch", "list"} \subseteq Steps \ {"reingest", "embed"}
  BY DEF Steps, InTry
<1>. QED  BY <1>1, <1>2, ExecutionGoes

(* The next documents are read.                                            *)
LEMMA BatchTyped == ASSUME ReindexTypes, NEW t \in Tasks, Batch(t)  PROVE ReindexTypes'
<1>. DEFINE next == After(Row(t).cursor)
            todo == {<<d, doc[d].gen>> : d \in next}
            pc == "reingest"
            zero == 0
            s == [task[t] EXCEPT !.pc = pc, !.last = zero, !.todo = todo]
<1>1. task[t].pc # "idle" /\ UNCHANGED <<kb, doc, rows, vec, job>>
  BY DEF Batch, At
<1>2. CASE next = {}
  <2>1. Goto(t, "wait") /\ "wait" \in Steps \ {"reingest", "embed"}
    BY <1>2 DEF Batch, Steps, InTry
  <2>. QED  BY <1>1, <2>1, ExecutionGoes
<1>3. CASE next # {}
  <2>1. task' = [task EXCEPT ![t] = s] /\ faults' = faults
    BY <1>3 DEF Batch
  <2>2. next \subseteq Docs /\ \A d \in Docs : doc[d].gen \in Gens
    BY DEF After, ReindexTypes, DocsTyped, TypedDoc
  <2>. HIDE DEF next
  <2>3. todo \in SUBSET (Docs \X Gens) /\ todo # {}
    <3>1. PICK d : d \in next
      BY <1>3
    <3>2. <<d, doc[d].gen>> \in todo
      BY <3>1
    <3>3. \A e \in next : <<e, doc[e].gen>> \in Docs \X Gens
      BY <2>2
    <3>. QED  BY <3>2, <3>3
  <2>4. zero \in Docs \union {0} /\ pc \in Steps /\ pc # "idle" /\ Runs(task[t], job)
    BY <1>1, FoundRow DEF Steps, InTry
  <2>. HIDE DEF todo, zero, pc
  <2>5. s \in TypedSlot /\ s.pc = pc /\ s.todo = todo /\ s.job = task[t].job
    BY <2>3, <2>4 DEF TypedSlot, Runs
  <2>. HIDE DEF s
  <2>6. Runs(s, job)
    BY <1>1, <2>3, <2>4, <2>5 DEF Runs
  <2>. QED  BY <1>1, <2>1, <2>6, ExecutionMoves
<1>. QED  BY <1>2, <1>3

(* DocumentService.reingest.                                               *)
LEMMA GenerationTyped ==
  ASSUME DocsTyped, NEW d \in Docs, NewGeneration(d), UNCHANGED <<rows, vec>>
  PROVE  DocsTyped'
<1>. DEFINE gen == doc[d].gen + 1
            status == "uploaded"
            x == [doc[d] EXCEPT !.status = status, !.gen = gen]
<1>1. doc' = [doc EXCEPT ![d] = x]
  BY DEF NewGeneration
<1>2. doc[d] \in TypedDoc
  BY DEF DocsTyped
<1>3. gen \in Gens /\ status \in DocStatuses
  BY <1>2 DEF TypedDoc, Gens, DocStatuses
<1>. HIDE DEF gen, status
<1>4. x \in TypedDoc
  BY <1>2, <1>3 DEF TypedDoc
<1>. HIDE DEF x
<1>. QED  BY <1>1, <1>4 DEF DocsTyped

(* First(t) is one of what is left of a batch.                             *)
LEMMA FirstOfBatch ==
  ASSUME ReindexTypes, NEW t \in Tasks, task[t].pc \in {"reingest", "embed"}
  PROVE  First(t) \in task[t].todo /\ First(t)[1] \in Docs /\ First(t)[2] \in Gens
<1>1. task[t] \in TypedSlot /\ task[t].todo # {}
  BY FoundRow DEF Runs
<1>2. First(t) \in task[t].todo
  BY <1>1, TypesAreTypes, FirstIsLeast
<1>. QED  BY <1>1, <1>2 DEF TypedSlot

LEMMA NextDocumentTyped == ASSUME ReindexTypes, NEW t \in Tasks, NextDocument(t)  PROVE ReindexTypes'
<1>. DEFINE d == First(t)[1]
            rest == task[t].todo \ {First(t)}
            none == {}
<1>1. task[t].pc = "reingest" /\ task[t].pc # "idle" /\ UNCHANGED <<kb, rows, vec>>
  BY DEF NextDocument, At
<1>2. d \in Docs /\ task[t] \in TypedSlot /\ Runs(task[t], job) /\ Running(task, job)
  BY <1>1, FirstOfBatch, FoundRow
<1>3. rest \in SUBSET (Docs \X Gens) /\ none \in SUBSET (Docs \X Gens)
  BY <1>2 DEF TypedSlot
<1>4. CASE ~Live(d)
  <2>1. FailJob(t) /\ doc' = doc
    BY <1>4 DEF NextDocument
  <2>. QED  BY <1>1, <2>1, FailedTyped
<1>5. CASE Live(d) /\ doc[d].status \in InProgress
  <2>. DEFINE pc == "mark"
              s == [task[t] EXCEPT !.todo = none, !.pc = pc]
  <2>1. task' = [task EXCEPT ![t] = s] /\ UNCHANGED <<doc, job, faults>>
    BY <1>5 DEF NextDocument
  <2>2. pc \in Steps /\ pc \notin {"reingest", "embed", "idle"}
    BY DEF Steps, InTry
  <2>. HIDE DEF none, pc
  <2>3. s \in TypedSlot /\ s.pc = pc /\ s.job = task[t].job
    BY <1>2, <1>3, <2>2 DEF TypedSlot
  <2>. HIDE DEF s
  <2>4. Runs(s, job)
    BY <1>1, <1>2, <2>2, <2>3 DEF Runs
  <2>. QED  BY <1>1, <2>1, <2>4, ExecutionMoves
<1>6. CASE Live(d) /\ doc[d].status \notin InProgress
  <2>. DEFINE pc == IF rest = {} THEN "mark" ELSE "reingest"
              s == [task[t] EXCEPT !.todo = rest, !.last = d, !.pc = pc]
  <2>1. task' = [task EXCEPT ![t] = s] /\ NewGeneration(d) /\ UNCHANGED <<job, faults>>
    BY <1>6 DEF NextDocument
  <2>2. pc \in Steps /\ pc \notin {"embed", "idle"} /\ (pc = "reingest" => rest # {})
    BY DEF Steps, InTry
  <2>3. DocsTyped'
    BY <1>1, <1>2, <2>1, GenerationTyped DEF ReindexTypes
  <2>. HIDE DEF d, rest, pc
  <2>4. s \in TypedSlot /\ s.pc = pc /\ s.todo = rest /\ s.job = task[t].job
    BY <1>2, <1>3, <2>2 DEF TypedSlot
  <2>. HIDE DEF s
  <2>5. Runs(s, job)
    BY <1>1, <1>2, <2>2, <2>4 DEF Runs
  <2>6. Running(task', job) /\ faults' \in 0 .. MaxFaults
    BY <1>2, <2>1, <2>5, SlotWritten DEF ReindexTypes
  <2>7. KbTyped' /\ (job \in [Jobs -> TypedJob])' /\ VersionsFit(kb.key, job)' /\ Running(task, job)' /\ (faults \in 0 .. MaxFaults)'
    BY <1>1, <2>1, <2>6 DEF ReindexTypes, KbTyped
  <2>. QED  BY <2>3, <2>7 DEF ReindexTypes
<1>. QED  BY <1>4, <1>5, <1>6

(* The cursor.                                                             *)
LEMMA MarkTyped == ASSUME ReindexTypes, NEW t \in Tasks, Mark(t)  PROVE ReindexTypes'
<1>. DEFINE j == task[t].job
            cursor == IF task[t].last = 0 THEN job[j].cursor ELSE task[t].last
            no == FALSE
            x == [job[j] EXCEPT !.silent = no, !.cursor = cursor]
<1>1. task[t].pc # "idle" /\ UNCHANGED <<kb, doc, rows, vec>> /\ Goto(t, "round") /\ job' = [job EXCEPT ![j] = x]
  BY DEF Mark, At
<1>2. j \in Jobs /\ job[j].status # "none" /\ job[j] \in TypedJob /\ task[t] \in TypedSlot
  BY <1>1, FoundRow
<1>3. cursor \in Docs \union {0} /\ no \in BOOLEAN
  BY <1>2 DEF TypedJob, TypedSlot
<1>. HIDE DEF cursor, no
<1>4. x \in TypedJob /\ x.key = job[j].key /\ x.status = job[j].status
  BY <1>2, <1>3 DEF TypedJob
<1>. HIDE DEF x, j
<1>5. /\ job' \in [Jobs -> TypedJob] /\ Running(task, job')
      /\ \A key : VersionsFit(key, job) => VersionsFit(key, job')
  BY <1>1, <1>2, <1>4, JobWritten
<1>6. "round" \in Steps \ {"reingest", "embed"}
  BY DEF Steps
<1>. QED  BY <1>1, <1>5, <1>6, WritesAndGoes

(* The documents are processed, or not yet.                                *)
LEMMA WaitTyped == ASSUME ReindexTypes, NEW t \in Tasks, Wait(t)  PROVE ReindexTypes'
<1>1. task[t].pc # "idle" /\ UNCHANGED <<kb, doc, rows, vec>>
  BY DEF Wait, At
<1>2. task[t].job \in Jobs /\ job[task[t].job].status # "none"
  BY <1>1, FoundRow
<1>3. "round" \in Steps \ {"reingest", "embed"} /\ "list" \in Steps \ {"reingest", "embed"}
  BY DEF Steps, InTry
<1>4. CASE Heartbeat(task[t].job) /\ Goto(t, "round")
  <2>1. /\ job' \in [Jobs -> TypedJob] /\ Running(task, job')
        /\ \A key : VersionsFit(key, job) => VersionsFit(key, job')
    BY <1>2, <1>4, HeartbeatWritten
  <2>. QED  BY <1>1, <1>3, <1>4, <2>1, WritesAndGoes
<1>5. CASE FailJob(t)
  BY <1>1, <1>5, FailedTyped
<1>6. CASE SetJob(task[t].job, "embedding") /\ Goto(t, "list")
  <2>. DEFINE status == "embedding"
  <2>1. status \in ActiveStatuses \union TerminalStatuses /\ SetJob(task[t].job, status)
    BY <1>6 DEF ActiveStatuses
  <2>. HIDE DEF status
  <2>2. /\ job' \in [Jobs -> TypedJob] /\ Running(task, job')
        /\ \A key : VersionsFit(key, job) => VersionsFit(key, job')
    BY <1>2, <2>1, StatusWritten
  <2>. QED  BY <1>1, <1>3, <1>6, <2>2, WritesAndGoes
<1>. QED  BY <1>4, <1>5, <1>6 DEF Wait

(* The chunks without a vector of the target.                              *)
LEMMA ListTyped == ASSUME ReindexTypes, NEW t \in Tasks, List(t)  PROVE ReindexTypes'
<1>. DEFINE missing == {d \in ActiveDocs : ~Has(d, Row(t).key)}
            todo == {<<d, doc[d].gen>> : d \in missing}
            pc == IF missing = {} THEN "count" ELSE "embed"
            zero == 0
            s == [task[t] EXCEPT !.pc = pc, !.last = zero, !.todo = todo]
<1>1. task[t].pc # "idle" /\ UNCHANGED <<kb, doc, rows, vec, job, faults>> /\ task' = [task EXCEPT ![t] = s]
  BY DEF List, At
<1>2. missing \subseteq Docs /\ \A d \in Docs : doc[d].gen \in Gens
  BY DEF ActiveDocs, ReindexTypes, DocsTyped, TypedDoc
<1>3. pc \in Steps /\ pc \notin {"reingest", "idle"} /\ (pc = "embed" => missing # {})
  BY DEF Steps, InTry
<1>. HIDE DEF missing
<1>4. todo \in SUBSET (Docs \X Gens) /\ (missing # {} => todo # {})
  <2>1. \A d \in missing : <<d, doc[d].gen>> \in Docs \X Gens /\ <<d, doc[d].gen>> \in todo
    BY <1>2
  <2>. QED  BY <2>1
<1>5. zero \in Docs \union {0} /\ Runs(task[t], job)
  BY <1>1, FoundRow
<1>. HIDE DEF todo, zero, pc
<1>6. s \in TypedSlot /\ s.pc = pc /\ s.todo = todo /\ s.job = task[t].job
  BY <1>3, <1>4, <1>5 DEF TypedSlot, Runs
<1>. HIDE DEF s
<1>7. Runs(s, job)
  BY <1>1, <1>3, <1>4, <1>5, <1>6 DEF Runs
<1>. QED  BY <1>1, <1>7, ExecutionMoves

(* One batch of embeddings.                                                *)
LEMMA EmbedTyped == ASSUME ReindexTypes, NEW t \in Tasks, Embed(t)  PROVE ReindexTypes'
<1>. DEFINE c == First(t)
            rest == task[t].todo \ {c}
            pc == IF rest = {} THEN "count" ELSE "embed"
            s == [task[t] EXCEPT !.todo = rest, !.pc = pc]
            key == Row(t).key
<1>1. task[t].pc = "embed" /\ task[t].pc # "idle" /\ UNCHANGED <<kb, doc, rows>>
  BY DEF Embed, At
<1>2. /\ c[1] \in Docs /\ c[2] \in Gens /\ task[t] \in TypedSlot /\ Runs(task[t], job) /\ Running(task, job)
      /\ key \in Keys
  BY <1>1, FirstOfBatch, FoundRow DEF TypedJob
<1>3. CASE FailJob(t) /\ vec' = vec
  BY <1>1, <1>3, FailedTyped
<1>4. CASE /\ vec' = [vec EXCEPT ![c[1]] = @ \union {<<c[2], key>>}]
           /\ task' = [task EXCEPT ![t] = s] /\ UNCHANGED <<job, faults>>
  <2>1. <<c[2], key>> \in Gens \X Keys
    BY <1>2
  <2>2. rest \in SUBSET (Docs \X Gens) /\ pc \in Steps /\ pc \notin {"reingest", "idle"} /\ (pc = "embed" => rest # {})
    BY <1>2 DEF TypedSlot, Steps, InTry
  <2>. HIDE DEF c, key, rest, pc
  <2>3. vec' \in [Docs -> SUBSET (Gens \X Keys)]
    BY <1>2, <1>4, <2>1 DEF ReindexTypes, DocsTyped
  <2>4. DocsTyped'
    BY <1>1, <2>3 DEF ReindexTypes, DocsTyped
  <2>5. s \in TypedSlot /\ s.pc = pc /\ s.todo = rest /\ s.job = task[t].job
    BY <1>2, <2>2 DEF TypedSlot
  <2>. HIDE DEF s
  <2>6. Runs(s, job)
    BY <1>1, <1>2, <2>2, <2>5 DEF Runs
  <2>7. Running(task', job') /\ faults' \in 0 .. MaxFaults /\ job' \in [Jobs -> TypedJob] /\ VersionsFit(kb.key, job')
    BY <1>2, <1>4, <2>6, SlotWritten DEF ReindexTypes
  <2>. QED  BY <1>1, <2>4, <2>7, JobSideMoves
<1>. QED  BY <1>3, <1>4 DEF Embed

(* The total, before the vectors are counted.                              *)
LEMMA CountTyped == ASSUME ReindexTypes, NEW t \in Tasks, Count(t)  PROVE ReindexTypes'
<1>. DEFINE pc == "match"
<1>1. task[t].pc # "idle" /\ UNCHANGED <<kb, doc, rows, vec, job, faults>> /\ pc \in Steps
      /\ pc \notin {"idle", "reingest", "embed"}
  BY DEF Count, At, Steps, InTry
<1>2. PICK total \in Nat : task' = [task EXCEPT ![t] = [@ EXCEPT !.pc = pc, !.total = total]]
  BY TotalIsNumber DEF Count
<1>3. Runs(task[t], job)
  BY <1>1, FoundRow
<1>. DEFINE s == [task[t] EXCEPT !.pc = pc, !.total = total]
<1>4. s \in TypedSlot /\ s.pc = pc /\ s.job = task[t].job /\ task' = [task EXCEPT ![t] = s]
  BY <1>1, <1>2, <1>3 DEF TypedSlot, Runs
<1>. HIDE DEF s
<1>5. Runs(s, job)
  BY <1>1, <1>3, <1>4 DEF Runs
<1>. QED  BY <1>1, <1>4, <1>5, ExecutionMoves

(* On to the switch, or another round.                                     *)
LEMMA MatchTyped == ASSUME ReindexTypes, NEW t \in Tasks, Match(t)  PROVE ReindexTypes'
<1>1. task[t].pc # "idle" /\ UNCHANGED <<kb, doc, rows, vec>>
  BY DEF Match, At
<1>2. task[t].job \in Jobs /\ job[task[t].job].status # "none"
  BY <1>1, FoundRow
<1>3. "round" \in Steps \ {"reingest", "embed"} /\ "switch" \in Steps \ {"reingest", "embed"}
  BY DEF Steps, InTry
<1>4. CASE Goto(t, "switch") /\ job' = job
  BY <1>1, <1>3, <1>4, ExecutionGoes
<1>5. CASE Goto(t, "round") /\ Heartbeat(task[t].job)
  <2>1. /\ job' \in [Jobs -> TypedJob] /\ Running(task, job')
        /\ \A key : VersionsFit(key, job) => VersionsFit(key, job')
    BY <1>2, <1>5, HeartbeatWritten
  <2>. QED  BY <1>1, <1>3, <1>5, <2>1, WritesAndGoes
<1>. QED  BY <1>4, <1>5 DEF Match

(* The switch: the target of an opened job is below what the next may get. *)
LEMMA SwitchTyped == ASSUME ReindexTypes, NEW t \in Tasks, Switch(t)  PROVE ReindexTypes'
<1>. DEFINE j == task[t].job
            round == "round"
<1>1. task[t].pc # "idle" /\ UNCHANGED <<doc, rows, vec>> /\ Goto(t, round)
  BY DEF Switch, At
<1>2. j \in Jobs /\ job[j].status # "none" /\ Row(t) \in TypedJob /\ Row(t) = job[j]
  BY <1>1, FoundRow
<1>3. round \in Steps \ {"reingest", "embed"}
  BY DEF Steps
<1>. HIDE DEF round
<1>4. /\ kb' = [kb EXCEPT !.key = Row(t).key, !.indexed = Row(t).kver]
      /\ job' = [job EXCEPT ![j] = [@ EXCEPT !.status = "completed", !.silent = FALSE, !.aged = FALSE]]
  BY DEF Switch
<1>. DEFINE no == FALSE
            completed == "completed"
            x == [job[j] EXCEPT !.status = completed, !.silent = no, !.aged = no]
<1>5. job' = [job EXCEPT ![j] = x]
  BY <1>4
<1>6. no \in BOOLEAN /\ completed \in TerminalStatuses /\ completed # "none" /\ job[j] \in TypedJob
  BY <1>2 DEF TerminalStatuses
<1>. HIDE DEF no, completed
<1>7. x \in TypedJob /\ x.key = job[j].key /\ x.status = completed
  BY <1>6 DEF TypedJob
<1>. HIDE DEF x
<1>8. /\ job' \in [Jobs -> TypedJob] /\ Running(task, job')
      /\ \A key : VersionsFit(key, job) => VersionsFit(key, job')
  BY <1>2, <1>5, <1>6, <1>7, JobWritten
<1>9. KbTyped' /\ kb'.key = job[j].key
  BY <1>2, <1>4 DEF ReindexTypes, KbTyped, TypedJob
<1>10. VersionsFit(job[j].key, job)
  <2>1. job[j].key[2] \in Nat /\ job[j].key[2] <= j + 1
    BY <1>2, InstanceAssumption DEF ReindexTypes, VersionsFit, TypedJob, Keys, Versions
  <2>2. ASSUME NEW i \in Jobs, job[i].status = "none"
        PROVE  job[j].key[2] <= i /\ \A k \in Jobs : k > i => job[k].status = "none"
    <3>1. \A k \in Jobs : k > i => job[k].status = "none"
      BY <2>2 DEF ReindexTypes, VersionsFit
    <3>2. i \in Nat /\ j \in Nat /\ ~(j > i) /\ j # i
      BY <1>2, <2>2, <3>1, InstanceAssumption DEF Jobs
    <3>. QED  BY <2>1, <3>1, <3>2
  <2>. QED  BY <2>2 DEF ReindexTypes, VersionsFit
<1>11. VersionsFit(kb.key, job)'
  BY <1>8, <1>9, <1>10
<1>12. PICK s : task' = [task EXCEPT ![t] = s] /\ Runs(s, job) /\ s.job = j
  BY <1>1, <1>3, GoneTo DEF ReindexTypes
<1>13. Runs(s, job')
  <2>1. job'[j].status # "none"
    BY <1>1, <1>8 DEF Running, Runs
  <2>. QED  BY <1>12, <2>1 DEF Runs
<1>14. Running(task', job')
  BY <1>8, <1>12, <1>13, SlotWritten
<1>15. (faults \in 0 .. MaxFaults)' /\ DocsTyped'
  BY <1>1 DEF ReindexTypes, DocsTyped, Goto
<1>16. Running(task, job)' /\ (job \in [Jobs -> TypedJob])'
  BY <1>8, <1>14
<1>. QED  BY <1>9, <1>11, <1>15, <1>16 DEF ReindexTypes

LEMMA RoundTyped == ASSUME ReindexTypes, NEW t \in Tasks, Round(t)  PROVE ReindexTypes'
<1>1. task[t].pc # "idle" /\ UNCHANGED <<kb, doc, rows, vec, job>>
  BY DEF Round, At
<1>2. task[t].job \in Jobs /\ job[task[t].job].status # "none" /\ Running(task, job)
  BY <1>1, FoundRow
<1>3. CASE Done(t)
  BY <1>1, <1>3, ExecutionEnds
<1>4. CASE Goto(t, "load")
  <2>1. "load" \in Steps \ {"reingest", "embed"}
    BY DEF Steps
  <2>. QED  BY <1>1, <1>4, <2>1, ExecutionGoes
<1>5. CASE Send(Released(t), task[t].job)
  <2>1. Running(Released(t), job)
    BY <1>2, NewSlots, SlotWritten DEF Released
  <2>2. Running(task', job) /\ faults' \in 0 .. MaxFaults
    BY <1>2, <1>5, <2>1, SentRuns DEF ReindexTypes
  <2>. QED  BY <1>1, <2>2, TasksMove
<1>. QED  BY <1>3, <1>4, <1>5 DEF Round

(* Exceptions, crashes, redeliveries.                                      *)
LEMMA FaultTyped ==
  ASSUME ReindexTypes, NEW t \in Tasks, Raise(t) \/ Crash(t) \/ Redeliver(t)
  PROVE  ReindexTypes'
<1>1. task[t].pc # "idle" /\ UNCHANGED <<kb, doc, rows, vec>> /\ faults' \in 0 .. MaxFaults
  BY InstanceAssumption DEF Raise, Crash, Redeliver, Fault, ReindexTypes
<1>2. task[t].job \in Jobs /\ job[task[t].job].status # "none" /\ Running(task, job)
  BY <1>1, FoundRow
<1>. DEFINE again == Message(task[t].job)
<1>3. Runs(Idle, job) /\ Runs(again, job)
  BY <1>2, NewSlots
<1>4. CASE Raise(t)
  <2>1. task' = [task EXCEPT ![t] = Idle]
    BY <1>4 DEF Raise, Released
  <2>2. CASE job' = job
    <3>1. Running(task', job)
      BY <1>2, <1>3, <2>1, SlotWritten
    <3>. QED  BY <1>1, <2>2, <3>1, TasksMove
  <2>3. CASE SetJob(task[t].job, "failed")
    <3>. DEFINE status == "failed"
    <3>1. status \in ActiveStatuses \union TerminalStatuses /\ SetJob(task[t].job, status)
      BY <2>3 DEF TerminalStatuses
    <3>. HIDE DEF status
    <3>2. /\ job' \in [Jobs -> TypedJob] /\ Running(task, job')
          /\ \A key : VersionsFit(key, job) => VersionsFit(key, job')
      BY <1>2, <3>1, StatusWritten
    <3>3. Running(task', job')
      BY <2>1, <3>2, NewSlots, SlotWritten
    <3>4. DocsTyped' /\ VersionsFit(kb.key, job')
      BY <1>1, <3>2 DEF ReindexTypes, DocsTyped
    <3>. QED  BY <1>1, <3>2, <3>3, <3>4, JobSideMoves
  <2>. QED  BY <1>4, <2>2, <2>3 DEF Raise
<1>5. CASE Crash(t)
  <2>1. task' = [task EXCEPT ![t] = again] /\ job' = job
    BY <1>5 DEF Crash
  <2>. HIDE DEF again
  <2>2. Running(task', job)
    BY <1>2, <1>3, <2>1, SlotWritten
  <2>. QED  BY <1>1, <2>1, <2>2, TasksMove
<1>6. CASE Redeliver(t)
  <2>1. job' = job /\ \E s \in Tasks : task' = [task EXCEPT ![s] = again]
    BY <1>6 DEF Redeliver
  <2>. HIDE DEF again
  <2>. PICK s \in Tasks : task' = [task EXCEPT ![s] = again]
    BY <2>1
  <2>2. Running(task', job)
    BY <1>2, <1>3, SlotWritten
  <2>. QED  BY <1>1, <2>1, <2>2, TasksMove
<1>. QED  BY <1>4, <1>5, <1>6

-----------------------------------------------------------------------------
(* Users, the pipeline and the purges move the documents.                  *)
LEMMA DocsMove ==
  ASSUME ReindexTypes, UNCHANGED <<kb, job, task, faults>>, DocsTyped'
  PROVE  ReindexTypes'
<1>1. Running(task', job') /\ job' \in [Jobs -> TypedJob] /\ VersionsFit(kb.key, job')
  BY DEF ReindexTypes
<1>2. KbTyped' /\ VersionsFit(kb.key, job)' /\ (faults \in 0 .. MaxFaults)'
  BY <1>1 DEF ReindexTypes, KbTyped
<1>3. Running(task, job)' /\ (job \in [Jobs -> TypedJob])'
  BY <1>1
<1>. QED  BY <1>2, <1>3 DEF ReindexTypes

LEMMA DocStep ==
  ASSUME ReindexTypes, NEW d \in Docs, User(d) \/ Pipeline(d) \/ DocumentFails(d)
  PROVE  ReindexTypes'
<1>0. /\ doc[d] \in TypedDoc /\ doc \in [Docs -> TypedDoc] /\ kb.key \in Keys /\ kb.kver \in 1 .. MaxKver
      /\ rows \in [Docs -> SUBSET Gens] /\ vec \in [Docs -> SUBSET (Gens \X Keys)]
  BY DEF ReindexTypes, DocsTyped, KbTyped
<1>1. UNCHANGED <<kb, job, task, faults>>
  BY DEF User, Upload, Reingest, Delete, Pipeline, Parse, Chunk, EmbedStart, EmbedDone, DocumentFails
<1>2. rows' \in [Docs -> SUBSET Gens] /\ vec' \in [Docs -> SUBSET (Gens \X Keys)]
  <2>1. rows' = rows \/ rows' = [rows EXCEPT ![d] = @ \union {doc[d].gen}]
    BY DEF User, Upload, Reingest, Delete, Pipeline, Parse, Chunk, EmbedStart, EmbedDone, DocumentFails
  <2>2. vec' = vec \/ vec' = [vec EXCEPT ![d] = @ \union {<<doc[d].gen, doc[d].key>>}]
    BY DEF User, Upload, Reingest, Delete, Pipeline, Parse, Chunk, EmbedStart, EmbedDone, DocumentFails
  <2>3. doc[d].gen \in Gens /\ doc[d].key \in Keys
    BY <1>0 DEF TypedDoc
  <2>. QED  BY <1>0, <2>1, <2>2, <2>3
<1>3. \/ NewGeneration(d) /\ UNCHANGED <<rows, vec>>
      \/ \E life \in {"live", "deleted"} : doc' = [doc EXCEPT ![d].life = life]
      \/ \E status \in DocStatuses : doc' = [doc EXCEPT ![d].status = status]
      \/ doc' = [doc EXCEPT ![d] = [@ EXCEPT !.status = "parsing", !.cut = kb.kver]]
      \/ doc' = [doc EXCEPT ![d] = [@ EXCEPT !.status = "embedding", !.key = kb.key]]
  BY DEF User, Upload, Reingest, Delete, Pipeline, Parse, Chunk, EmbedStart, EmbedDone, DocumentFails,
         SetDoc, DocStatuses
<1>4. CASE NewGeneration(d) /\ UNCHANGED <<rows, vec>>
  BY <1>1, <1>4, GenerationTyped, DocsMove DEF ReindexTypes
<1>5. ASSUME NEW x \in TypedDoc, doc' = [doc EXCEPT ![d] = x] PROVE ReindexTypes'
  <2>1. DocsTyped'
    BY <1>0, <1>2, <1>5 DEF DocsTyped
  <2>. QED  BY <1>1, <2>1, DocsMove
<1>6. ASSUME NEW life \in {"live", "deleted"}, doc' = [doc EXCEPT ![d].life = life] PROVE ReindexTypes'
  <2>. DEFINE x == [doc[d] EXCEPT !.life = life]
  <2>1. x \in TypedDoc /\ doc' = [doc EXCEPT ![d] = x]
    BY <1>0, <1>6 DEF TypedDoc
  <2>. HIDE DEF x
  <2>. QED  BY <1>5, <2>1
<1>7. ASSUME NEW status \in DocStatuses, doc' = [doc EXCEPT ![d].status = status] PROVE ReindexTypes'
  <2>. DEFINE x == [doc[d] EXCEPT !.status = status]
  <2>1. x \in TypedDoc /\ doc' = [doc EXCEPT ![d] = x]
    BY <1>0, <1>7 DEF TypedDoc
  <2>. HIDE DEF x
  <2>. QED  BY <1>5, <2>1
<1>8. CASE doc' = [doc EXCEPT ![d] = [@ EXCEPT !.status = "parsing", !.cut = kb.kver]]
  <2>. DEFINE status == "parsing"
              x == [doc[d] EXCEPT !.status = status, !.cut = kb.kver]
  <2>1. doc' = [doc EXCEPT ![d] = x]
    BY <1>8
  <2>2. status \in DocStatuses
    BY DEF DocStatuses
  <2>. HIDE DEF status
  <2>3. x \in TypedDoc
    BY <1>0, <2>2 DEF TypedDoc
  <2>. HIDE DEF x
  <2>. QED  BY <1>5, <2>1, <2>3
<1>9. CASE doc' = [doc EXCEPT ![d] = [@ EXCEPT !.status = "embedding", !.key = kb.key]]
  <2>. DEFINE status == "embedding"
              x == [doc[d] EXCEPT !.status = status, !.key = kb.key]
  <2>1. doc' = [doc EXCEPT ![d] = x]
    BY <1>9
  <2>2. status \in DocStatuses
    BY DEF DocStatuses
  <2>. HIDE DEF status
  <2>3. x \in TypedDoc
    BY <1>0, <2>2 DEF TypedDoc
  <2>. HIDE DEF x
  <2>. QED  BY <1>5, <2>1, <2>3
<1>. QED  BY <1>3, <1>4, <1>6, <1>7, <1>8, <1>9

(* Beat and the clock.                                                     *)
LEMMA BeatTyped ==
  ASSUME ReindexTypes, NEW j \in Jobs, Beat(j) \/ Stall(j) \/ WindowEnds(j)
  PROVE  ReindexTypes'
<1>0. UNCHANGED <<kb, doc, rows>> /\ job[j] \in TypedJob
  BY DEF Beat, RescuePending, RescueStalled, ReadKept, PurgeOld, Stall, WindowEnds, ReindexTypes
<1>1. CASE RescuePending(j)
  <2>1. Running(task', job) /\ faults' \in 0 .. MaxFaults
    BY <1>0, <1>1, SentRuns DEF RescuePending, ReindexTypes
  <2>. QED  BY <1>1, <2>1, TasksMove DEF RescuePending
<1>2. ASSUME UNCHANGED <<task, faults>>, DocsTyped',
             job' \in [Jobs -> TypedJob], Running(task, job'), \A key : VersionsFit(key, job) => VersionsFit(key, job')
      PROVE  ReindexTypes'
  <2>1. Running(task', job') /\ faults' \in 0 .. MaxFaults /\ VersionsFit(kb.key, job')
    BY <1>2 DEF ReindexTypes
  <2>. QED  BY <1>0, <1>2, <2>1, JobSideMoves
<1>3. vec' = vec => DocsTyped'
  BY <1>0 DEF ReindexTypes, DocsTyped
<1>4. CASE RescueStalled(j)
  <2>. DEFINE status == "failed"
  <2>1. status \in ActiveStatuses \union TerminalStatuses /\ SetJob(j, status) /\ UNCHANGED <<vec, task, faults>>
        /\ job[j].status # "none"
    BY <1>4 DEF TerminalStatuses, RescueStalled
  <2>. HIDE DEF status
  <2>2. /\ job' \in [Jobs -> TypedJob] /\ Running(task, job')
        /\ \A key : VersionsFit(key, job) => VersionsFit(key, job')
    BY <1>0, <2>1, StatusWritten
  <2>. QED  BY <1>2, <1>3, <2>1, <2>2
<1>5. ASSUME NEW x \in TypedJob, x.key = job[j].key, x.status = job[j].status, job' = [job EXCEPT ![j] = x]
      PROVE  /\ job' \in [Jobs -> TypedJob] /\ Running(task, job')
             /\ \A key : VersionsFit(key, job) => VersionsFit(key, job')
  BY <1>0, <1>5, JobWritten
<1>6. CASE PurgeOld(j)
  <2>. DEFINE yes == TRUE
              no == FALSE
              x == [job[j] EXCEPT !.purged = yes, !.silent = no]
  <2>1. job' = [job EXCEPT ![j] = x] /\ UNCHANGED <<task, faults>>
    BY <1>6 DEF PurgeOld
  <2>2. PICK key : vec' = [d \in Docs |-> {v \in vec[d] : v[2] = key}]
    BY <1>6 DEF PurgeOld
  <2>3. DocsTyped'
    BY <1>0, <2>2 DEF ReindexTypes, DocsTyped
  <2>4. yes \in BOOLEAN /\ no \in BOOLEAN
    OBVIOUS
  <2>. HIDE DEF yes, no
  <2>5. x \in TypedJob /\ x.key = job[j].key /\ x.status = job[j].status
    BY <1>0, <2>4 DEF TypedJob
  <2>. HIDE DEF x
  <2>. QED  BY <1>2, <1>5, <2>1, <2>3, <2>5
<1>7. CASE Stall(j)
  <2>. DEFINE yes == TRUE
              x == [job[j] EXCEPT !.silent = yes]
  <2>1. job' = [job EXCEPT ![j] = x] /\ UNCHANGED <<vec, task, faults>> /\ yes \in BOOLEAN
    BY <1>7 DEF Stall
  <2>. HIDE DEF yes
  <2>2. x \in TypedJob /\ x.key = job[j].key /\ x.status = job[j].status
    BY <1>0, <2>1 DEF TypedJob
  <2>. HIDE DEF x
  <2>. QED  BY <1>2, <1>3, <1>5, <2>1, <2>2
<1>8. CASE WindowEnds(j)
  <2>. DEFINE yes == TRUE
              x == [job[j] EXCEPT !.aged = yes]
  <2>1. job' = [job EXCEPT ![j] = x] /\ UNCHANGED <<vec, task, faults>> /\ yes \in BOOLEAN
    BY <1>8 DEF WindowEnds
  <2>. HIDE DEF yes
  <2>2. x \in TypedJob /\ x.key = job[j].key /\ x.status = job[j].status
    BY <1>0, <2>1 DEF TypedJob
  <2>. HIDE DEF x
  <2>. QED  BY <1>2, <1>3, <1>5, <2>1, <2>2
<1>9. CASE ReadKept(j)
  <2>1. UNCHANGED <<vec, job, task, faults>>
    BY <1>9 DEF ReadKept
  <2>. QED  BY <1>0, <1>3, <2>1, DocsMove
<1>. QED  BY <1>1, <1>4, <1>6, <1>7, <1>8, <1>9 DEF Beat

(* start: the next job aims one version above the knowledge base.          *)
LEMMA StartTyped == ASSUME ReindexTypes, StartModel \/ StartRechunk  PROVE ReindexTypes'
<1>0. kb.key \in Keys /\ kb.kver \in 1 .. MaxKver /\ kb.indexed \in 1 .. MaxKver /\ MaxJobs \in Nat
  BY InstanceAssumption DEF ReindexTypes, KbTyped
<1>1. PICK model \in Models, rechunk \in BOOLEAN : Start(model, rechunk)
  BY <1>0 DEF StartModel, StartRechunk, Keys
<1>2. PICK j \in Jobs : /\ job[j].status = "none" /\ \A i \in 1 .. (j - 1) : job[i].status # "none"
                        /\ job' = [job EXCEPT ![j] = PlanReindex(model, rechunk)]
                        /\ Send(task, j)
  BY <1>1 DEF Start
<1>. DEFINE version == IF rechunk THEN kb.key[2] ELSE kb.key[2] + 1
            kver == IF rechunk THEN kb.kver ELSE kb.indexed
            target == <<model, version>>
            pending == "pending"
            x == [NoJob EXCEPT !.status = pending, !.rechunk = rechunk, !.key = target, !.kver = kver]
<1>3. UNCHANGED <<kb, doc, rows, vec>> /\ job' = [job EXCEPT ![j] = x]
  BY <1>1, <1>2 DEF Start, PlanReindex
<1>4. kb.key[2] <= j /\ kb.key[2] \in Nat /\ kb.key[2] >= 1 /\ j \in Nat /\ j >= 1 /\ j <= MaxJobs
  BY <1>0, <1>2 DEF ReindexTypes, VersionsFit, Keys, Versions, Jobs
<1>5. version <= j + 1 /\ version >= 1 /\ version \in Nat
  BY <1>4
<1>6. target \in Keys /\ target[2] = version
  BY <1>0, <1>4, <1>5 DEF Keys, Versions
<1>7. pending \in ActiveStatuses \union TerminalStatuses \union {"none"} /\ pending # "none"
  BY DEF ActiveStatuses
<1>8. kver \in 1 .. MaxKver
  BY <1>0
<1>9. NoJob \in [status : {"none"}, key : Models \X {1}, kver : {1}, rechunk : {FALSE}, cursor : {0}, silent : {FALSE},
                 aged : {FALSE}, purged : {FALSE}]
  BY InstanceAssumption DEF NoJob
<1>. HIDE DEF version, target, pending, kver
<1>10. x \in TypedJob /\ x.key = target /\ x.status = pending
  BY <1>6, <1>7, <1>8, <1>9 DEF TypedJob
<1>. HIDE DEF x
<1>11. job \in [Jobs -> TypedJob] /\ Running(task, job)
  BY DEF ReindexTypes
<1>12. job' \in [Jobs -> TypedJob] /\ job'[j] = x /\ \A i \in Jobs : i # j => job'[i] = job[i]
  BY <1>3, <1>10, <1>11
<1>13. Running(task, job')
  <2>1. \A i \in Jobs : job[i].status # "none" => job'[i].status # "none"
    BY <1>2, <1>12
  <2>. QED  BY <1>11, <2>1, OpenedStay
<1>14. Running(task', job') /\ faults' \in 0 .. MaxFaults
  <2>1. job'[j].status # "none"
    BY <1>7, <1>10, <1>12
  <2>. QED  BY <1>2, <1>13, <2>1, SentRuns DEF ReindexTypes
<1>15. VersionsFit(kb.key, job')
  <2>1. SUFFICES ASSUME NEW i \in Jobs
                 PROVE  /\ job'[i].key[2] <= i + 1
                        /\ job'[i].status = "none" =>
                             kb.key[2] <= i /\ \A k \in Jobs : k > i => job'[k].status = "none"
    BY DEF VersionsFit
  <2>2. CASE i = j
    BY <1>5, <1>6, <1>7, <1>10, <1>12, <2>2
  <2>3. CASE i # j
    <3>1. job'[i] = job[i] /\ job[i].key[2] <= i + 1
      BY <1>12, <2>3 DEF ReindexTypes, VersionsFit
    <3>2. ASSUME job[i].status = "none"
          PROVE  kb.key[2] <= i /\ \A k \in Jobs : k > i => job[k].status = "none"
      BY <3>2 DEF ReindexTypes, VersionsFit
    <3>3. job[i].status = "none" => ~(j > i)
      <4>1. i \in Nat /\ i >= 1
        BY <1>0 DEF Jobs
      <4>2. i < j => i \in 1 .. (j - 1)
        BY <1>4, <4>1
      <4>. QED  BY <1>2, <1>4, <4>1, <4>2
    <3>4. \A k \in Jobs : k > i /\ job[i].status = "none" => k # j
      BY <3>3
    <3>. QED  BY <1>12, <3>1, <3>2, <3>4
  <2>. QED  BY <2>2, <2>3
<1>16. DocsTyped'
  BY <1>3 DEF ReindexTypes, DocsTyped
<1>. QED  BY <1>3, <1>12, <1>14, <1>15, <1>16, JobSideMoves

LEMMA ConfigTyped == ASSUME ReindexTypes, ChangeConfig  PROVE ReindexTypes'
<1>1. kb.kver < MaxKver /\ kb' = [kb EXCEPT !.kver = @ + 1] /\ UNCHANGED <<doc, rows, vec, job, task, faults>>
  BY DEF ChangeConfig
<1>2. KbTyped' /\ kb'.key = kb.key
  BY <1>1, InstanceAssumption DEF ReindexTypes, KbTyped
<1>3. DocsTyped'
  BY <1>1 DEF ReindexTypes, DocsTyped
<1>4. VersionsFit(kb'.key, job') /\ Running(task', job') /\ job' \in [Jobs -> TypedJob] /\ faults' \in 0 .. MaxFaults
  BY <1>1, <1>2 DEF ReindexTypes
<1>5. VersionsFit(kb.key, job)' /\ Running(task, job)' /\ (job \in [Jobs -> TypedJob])' /\ (faults \in 0 .. MaxFaults)'
  BY <1>4
<1>. QED  BY <1>2, <1>3, <1>5 DEF ReindexTypes

LEMMA PurgeTyped == ASSUME ReindexTypes, PurgeSuperseded  PROVE ReindexTypes'
<1>. DEFINE kept(d) == IF doc[d].status # "ready" THEN rows[d]
                       ELSE IF Live(d) THEN rows[d] \intersect {doc[d].gen} ELSE {}
<1>1. /\ rows' = [d \in Docs |-> kept(d)] /\ vec' = [d \in Docs |-> {x \in vec[d] : x[1] \in kept(d)}]
      /\ UNCHANGED <<kb, doc, job, task, faults>>
  BY DEF PurgeSuperseded
<1>2. \A d \in Docs : kept(d) \subseteq Gens
  BY DEF ReindexTypes, DocsTyped
<1>. HIDE DEF kept
<1>3. DocsTyped'
  BY <1>1, <1>2 DEF ReindexTypes, DocsTyped
<1>. QED  BY <1>1, <1>3, DocsMove

(* Only the cleanup and the switch touch what was read and overtaken.      *)
LEMMA ReadStays == ASSUME ReindexTypes, ReadTyped, [Next]_vars  PROVE ReadTyped'
<1>1. ASSUME UNCHANGED <<cleaner, overtaken>>  PROVE ReadTyped'
  BY <1>1 DEF ReadTyped
<1>2. ASSUME NEW t \in Tasks, Execute(t)  PROVE ReadTyped'
  <2>1. CASE Switch(t)
    BY <2>1 DEF Switch, Overtakes, ReadTyped
  <2>2. CASE ~ Switch(t)
    BY <1>1, <1>2, <2>2 DEF Execute, Load, Begin, Reload, Batch, NextDocument, Mark, Wait, List, Embed,
                            Count, Match, Round
  <2>. QED  BY <2>1, <2>2
<1>3. ASSUME NEW t \in Tasks, Raise(t) \/ Crash(t) \/ Redeliver(t)  PROVE ReadTyped'
  BY <1>1, <1>3 DEF Raise, Crash, Redeliver
<1>4. ASSUME NEW d \in Docs, User(d) \/ Pipeline(d) \/ DocumentFails(d)  PROVE ReadTyped'
  BY <1>1, <1>4 DEF User, Upload, Reingest, Delete, Pipeline, Parse, Chunk, EmbedStart, EmbedDone,
                    DocumentFails
<1>5. ASSUME NEW j \in Jobs, Beat(j) \/ Stall(j) \/ WindowEnds(j)  PROVE ReadTyped'
  <2>1. CASE ReadKept(j)
    <3>1. kb.key \in Keys
      BY DEF ReindexTypes, KbTyped
    <3>. QED  BY <2>1, <3>1 DEF ReadKept, Kept, ReadTyped
  <2>2. CASE PurgeOld(j)
    BY <2>2 DEF PurgeOld, ReadTyped
  <2>3. CASE RescuePending(j) \/ RescueStalled(j) \/ Stall(j) \/ WindowEnds(j)
    BY <1>1, <2>3 DEF RescuePending, RescueStalled, Stall, WindowEnds
  <2>. QED  BY <1>5, <2>1, <2>2, <2>3 DEF Beat
<1>6. CASE StartModel \/ StartRechunk \/ PurgeSuperseded \/ ChangeConfig \/ UNCHANGED vars
  BY <1>1, <1>6 DEF StartModel, StartRechunk, Start, PurgeSuperseded, ChangeConfig, vars
<1>7. CASE CleanerFails
  BY <1>7 DEF CleanerFails, ReadTyped
<1>. QED  BY <1>2, <1>3, <1>4, <1>5, <1>6, <1>7 DEF Next

LEMMA TypesBegin == Init => ReindexTypes
<1>. SUFFICES ASSUME Init PROVE ReindexTypes
  OBVIOUS
<1>. DEFINE one == 1
            first == <<FirstModel, one>>
<1>1. /\ one \in Gens /\ one \in 1 .. MaxKver /\ one \in Versions /\ first \in Keys /\ first[2] = 1
      /\ MaxJobs \in Nat
  BY InstanceAssumption DEF Gens, Versions, Keys
<1>2. /\ kb = [key |-> first, kver |-> one, indexed |-> one]
      /\ doc = [d \in Docs |-> [life |-> IF d \in Present THEN "live" ELSE "absent",
                                 status |-> IF d \in Present THEN "ready" ELSE "uploaded",
                                 gen |-> one, cut |-> one, key |-> first]]
      /\ rows = [d \in Docs |-> IF d \in Present THEN {one} ELSE {}]
      /\ vec = [d \in Docs |-> IF d \in Present THEN {<<one, first>>} ELSE {}]
      /\ job = [j \in Jobs |-> NoJob] /\ task = [t \in Tasks |-> Idle] /\ faults = 0
  BY DEF Init
<1>3. /\ NoJob.status = "none" /\ NoJob.key = first /\ NoJob.kver = one /\ NoJob.rechunk = FALSE /\ NoJob.cursor = 0
      /\ NoJob.silent = FALSE /\ NoJob.aged = FALSE /\ NoJob.purged = FALSE
      /\ NoJob = [status |-> "none", key |-> first, kver |-> one, rechunk |-> FALSE, cursor |-> 0, silent |-> FALSE,
                  aged |-> FALSE, purged |-> FALSE]
  BY DEF NoJob
<1>. HIDE DEF one, first
<1>4. NoJob \in TypedJob
  BY <1>1, <1>3 DEF TypedJob
<1>5. KbTyped
  BY <1>1, <1>2 DEF KbTyped
<1>6. DocsTyped
  <2>1. "uploaded" \in DocStatuses /\ "ready" \in DocStatuses
    BY DEF DocStatuses
  <2>2. doc \in [Docs -> TypedDoc]
    BY <1>1, <1>2, <2>1 DEF TypedDoc
  <2>3. rows \in [Docs -> SUBSET Gens]
    BY <1>1, <1>2
  <2>4. vec \in [Docs -> SUBSET (Gens \X Keys)]
    BY <1>1, <1>2
  <2>. QED  BY <2>2, <2>3, <2>4 DEF DocsTyped
<1>7. Running(task, job)
  <2>1. Runs(Idle, job)
    BY NewSlots
  <2>. QED  BY <1>2, <2>1 DEF Running, Runs
<1>8. VersionsFit(kb.key, job)
  <2>1. \A j \in Jobs : job[j].key[2] = 1 /\ job[j].status = "none" /\ j \in Nat /\ j >= 1
    BY <1>1, <1>2, <1>3 DEF Jobs
  <2>2. kb.key[2] = 1
    BY <1>1, <1>2
  <2>. QED  BY <2>1, <2>2 DEF VersionsFit
<1>9. job \in [Jobs -> TypedJob] /\ faults \in 0 .. MaxFaults
  BY <1>2, <1>4, InstanceAssumption
<1>. QED  BY <1>5, <1>6, <1>7, <1>8, <1>9 DEF ReindexTypes

LEMMA TypesStep == ReindexTypes /\ [Next]_vars => ReindexTypes'
<1>. SUFFICES ASSUME ReindexTypes, [Next]_vars PROVE ReindexTypes'
  OBVIOUS
<1>1. ASSUME NEW t \in Tasks, Execute(t) PROVE ReindexTypes'
  BY <1>1, LoadTyped, BeginTyped, ReloadTyped, BatchTyped, NextDocumentTyped, MarkTyped, WaitTyped, ListTyped,
     EmbedTyped, CountTyped, MatchTyped, SwitchTyped, RoundTyped DEF Execute
<1>2. ASSUME NEW t \in Tasks, Raise(t) \/ Crash(t) \/ Redeliver(t) PROVE ReindexTypes'
  BY <1>2, FaultTyped
<1>3. ASSUME NEW d \in Docs, User(d) \/ Pipeline(d) \/ DocumentFails(d) PROVE ReindexTypes'
  BY <1>3, DocStep
<1>4. ASSUME NEW j \in Jobs, Beat(j) \/ Stall(j) \/ WindowEnds(j) PROVE ReindexTypes'
  BY <1>4, BeatTyped
<1>5. CASE StartModel \/ StartRechunk
  BY <1>5, StartTyped
<1>6. CASE ChangeConfig \/ PurgeSuperseded
  BY <1>6, ConfigTyped, PurgeTyped
<1>7. CASE UNCHANGED vars
  <2>1. UNCHANGED <<kb, job, task, faults>> /\ DocsTyped'
    BY <1>7 DEF vars, ReindexTypes, DocsTyped
  <2>. QED  BY <2>1, DocsMove
<1>8. CASE CleanerFails
  <2>1. UNCHANGED <<kb, doc, rows, vec, job, task>> /\ faults' \in 0 .. MaxFaults
    BY <1>8, InstanceAssumption DEF CleanerFails, Fault, ReindexTypes
  <2>. QED  BY <2>1, TasksMove DEF ReindexTypes
<1>. QED  BY <1>1, <1>2, <1>3, <1>4, <1>5, <1>6, <1>7, <1>8 DEF Next

(* plan_reindex and _switch: every value stays what it may be, and no      *)
(* embedding version is beyond one for each job, whatever is started,      *)
(* revived, switched and re-ingested by executions that interleave.        *)
THEOREM ReindexTyped == Spec => []TypeOK
<1>. DEFINE Typed == ReindexTypes /\ ReadTyped
<1>1. Init => Typed
  BY TypesBegin DEF Init, ReadTyped
<1>2. Typed /\ [Next]_vars => Typed'
  BY TypesStep, ReadStays
<1>3. Typed => TypeOK
  BY TypesAreTypes
<1>. QED  BY <1>1, <1>2, <1>3, PTL DEF Spec
=============================================================================
