---------------------- MODULE DocumentPipelineProofs ----------------------
(***************************************************************************)
(* Theorems about DocumentPipeline for every number of documents, message  *)
(* slots, versions, retries, batches and faults.                           *)
(***************************************************************************)
EXTENDS DocumentPipeline, TLAPS, FiniteSetTheorems

DocRow == [life : {"absent", "live", "deleted"}, status : Statuses,
           version : Versions, silent : BOOLEAN]
Group == [state : {"none", "active", "superseded"}, vec : 0 .. Batches]
Slot == [kind : Queues \union {"none"}, doc : Docs \union {NoDoc},
         retries : 0 .. MaxRetries, pc : Steps, ver : Versions,
         next : 1 .. Batches]

(* The inductive form of TypeOK: a message is about a document.            *)
BusyHasDoc == \A t \in Tasks : task[t].kind # "none" => task[t].doc \in Docs
IdleHasNoStep == \A t \in Tasks : task[t].kind = "none" => task[t].pc = "idle"

Types ==
  /\ doc \in [Docs -> DocRow]
  /\ chunks \in [Docs -> [Versions -> Group]]
  /\ task \in [Tasks -> Slot]
  /\ scanned \in SUBSET (Docs \X Queues)
  /\ faults \in 0 .. MaxFaults

TypeInv == Types /\ BusyHasDoc /\ IdleHasNoStep

-----------------------------------------------------------------------------
(* What the building blocks of the actions return.                         *)

LEMMA IdleType == Idle \in Slot
BY BoundsAssumption DEF Idle, Slot, Versions, Steps

LEMMA MessageType ==
  ASSUME NEW k \in Queues, NEW d \in Docs, NEW r \in 0 .. MaxRetries
  PROVE  Message(k, d, r) \in Slot
BY BoundsAssumption DEF Message, Slot, Queues, Versions, Steps

(* A conditional status write keeps the type of the row.                   *)
LEMMA SetStatusType ==
  ASSUME Types, NEW d \in Docs, NEW s \in Statuses, NEW S, NEW V,
         SetStatus(d, s, S, V)
  PROVE  doc' \in [Docs -> DocRow]
BY DEF Types, SetStatus, DocRow

LEMMA SendType ==
  ASSUME Types, NEW slots \in [Tasks -> Slot], NEW k \in Queues, NEW d \in Docs,
         \A t \in Tasks : slots[t].kind # "none" => slots[t].doc \in Docs,
         \A t \in Tasks : slots[t].kind = "none" => slots[t].pc = "idle",
         Send(slots, k, d)
  PROVE  task' \in [Tasks -> Slot] /\ faults' \in 0 .. MaxFaults
         /\ BusyHasDoc' /\ IdleHasNoStep'
<1>1. CASE \E s \in Tasks : /\ slots[s].kind = "none"
                            /\ task' = [slots EXCEPT ![s] = Message(k, d, 0)]
                            /\ UNCHANGED faults
  <2>1. Message(k, d, 0) \in Slot
    BY MessageType, BoundsAssumption
  <2>2. Message(k, d, 0).kind = k /\ Message(k, d, 0).doc = d
    BY DEF Message
  <2>. QED  BY <1>1, <2>1, <2>2 DEF Types, BusyHasDoc, IdleHasNoStep, Queues
<1>2. CASE faults < MaxFaults /\ task' = slots /\ faults' = faults + 1
  BY <1>2, BoundsAssumption DEF Types, BusyHasDoc, IdleHasNoStep
<1>. QED  BY <1>1, <1>2 DEF Send

LEMMA ReleasedType ==
  ASSUME TypeInv, NEW t \in Tasks
  PROVE  /\ Released(t) \in [Tasks -> Slot]
         /\ \A s \in Tasks : Released(t)[s].kind # "none" => Released(t)[s].doc \in Docs
         /\ \A s \in Tasks : Released(t)[s].kind = "none" => Released(t)[s].pc = "idle"
BY IdleType DEF Released, TypeInv, Types, BusyHasDoc, IdleHasNoStep, Idle

LEMMA DoneType ==
  ASSUME TypeInv, NEW t \in Tasks, Done(t)
  PROVE  task' \in [Tasks -> Slot] /\ faults' \in 0 .. MaxFaults
         /\ BusyHasDoc' /\ IdleHasNoStep'
BY ReleasedType DEF Done, BusyHasDoc, IdleHasNoStep, TypeInv, Types

LEMMA GotoType ==
  ASSUME TypeInv, NEW t \in Tasks, task[t].kind # "none", NEW pc \in Steps, Goto(t, pc)
  PROVE  task' \in [Tasks -> Slot] /\ faults' \in 0 .. MaxFaults
         /\ BusyHasDoc' /\ IdleHasNoStep'
BY DEF Goto, BusyHasDoc, IdleHasNoStep, TypeInv, Types, Slot

LEMMA RetryType ==
  ASSUME TypeInv, NEW t \in Tasks, task[t].kind # "none", Retry(t)
  PROVE  task' \in [Tasks -> Slot] /\ faults' \in 0 .. MaxFaults
         /\ BusyHasDoc' /\ IdleHasNoStep'
<1>. DEFINE m == Message(task[t].kind, task[t].doc, task[t].retries + 1)
            x == [task[t] EXCEPT !.pc = "exhausted"]
<1>1. task[t].kind \in Queues /\ task[t].doc \in Docs /\ task[t].retries \in 0 .. MaxRetries
  BY DEF TypeInv, Types, BusyHasDoc, Slot
<1>2. task[t].retries < MaxRetries => m \in Slot /\ m.kind = task[t].kind /\ m.doc = task[t].doc
  <2>1. task[t].retries < MaxRetries => task[t].retries + 1 \in 0 .. MaxRetries
    BY <1>1, BoundsAssumption
  <2>. QED  BY <2>1, <1>1, MessageType DEF Message
<1>3. x \in Slot /\ x.kind = task[t].kind /\ x.doc = task[t].doc
  BY DEF TypeInv, Types, Slot, Steps
<1>4. task' = [task EXCEPT ![t] = IF task[t].retries < MaxRetries THEN m ELSE x]
      /\ faults' = faults
  BY DEF Retry
<1>. HIDE DEF m, x
<1>. QED  BY <1>1, <1>2, <1>3, <1>4 DEF TypeInv, Types, BusyHasDoc, IdleHasNoStep

LEMMA StartType ==
  ASSUME TypeInv, NEW t \in Tasks, task[t].kind # "none", NEW pc \in Steps, Start(t, pc)
  PROVE  task' \in [Tasks -> Slot] /\ faults' \in 0 .. MaxFaults
         /\ BusyHasDoc' /\ IdleHasNoStep'
<1>. DEFINE x == [task[t] EXCEPT !.pc = pc, !.ver = doc[task[t].doc].version]
<1>1. task[t].doc \in Docs
  BY DEF TypeInv, BusyHasDoc
<1>2. x \in Slot /\ x.kind = task[t].kind /\ x.doc = task[t].doc
  BY <1>1 DEF TypeInv, Types, Slot, DocRow
<1>3. CASE Visible(task[t].doc)
  <2>1. task' = [task EXCEPT ![t] = x] /\ faults' = faults
    BY <1>3 DEF Start
  <2>. HIDE DEF x
  <2>. QED  BY <2>1, <1>1, <1>2 DEF TypeInv, Types, BusyHasDoc, IdleHasNoStep
<1>4. CASE ~Visible(task[t].doc)
  BY <1>4, DoneType DEF Start
<1>. QED  BY <1>3, <1>4

LEMMA OrphanedType ==
  ASSUME TypeInv, NEW g
  PROVE  /\ Orphaned(g) \in [Tasks -> Slot]
         /\ \A t \in Tasks : /\ Orphaned(g)[t].kind = task[t].kind
                             /\ Orphaned(g)[t].doc = task[t].doc
                             /\ task[t].pc = "idle" => Orphaned(g)[t].pc = "idle"
<1>. SUFFICES ASSUME NEW t \in Tasks
              PROVE  /\ Orphaned(g)[t] \in Slot
                     /\ Orphaned(g)[t].kind = task[t].kind
                     /\ Orphaned(g)[t].doc = task[t].doc
                     /\ task[t].pc = "idle" => Orphaned(g)[t].pc = "idle"
  BY DEF Orphaned
<1>1. task[t] \in Slot
  BY DEF TypeInv, Types
<1>. DEFINE x == [task[t] EXCEPT !.pc = "orphaned", !.next = 1]
<1>2. x \in Slot /\ x.kind = task[t].kind /\ x.doc = task[t].doc
  <2>1. 1 \in 1 .. Batches /\ "orphaned" \in Steps
    BY BoundsAssumption DEF Steps, EmbedSteps
  <2>. QED  BY <1>1, <2>1 DEF Slot
<1>3. Orphaned(g)[t] = IF task[t].pc = "embed" /\ <<task[t].doc, task[t].ver>> \in g
                       THEN x ELSE task[t]
  BY DEF Orphaned
<1>. HIDE DEF x
<1>. QED  BY <1>1, <1>2, <1>3

(* The pcs of an execution belong to messages, never to empty slots.       *)
LEMMA AtBusy ==
  ASSUME TypeInv, NEW t \in Tasks, task[t].pc # "idle"
  PROVE  /\ task[t].kind \in Queues /\ task[t].kind # "none"
         /\ task[t].doc \in Docs /\ doc[task[t].doc] \in DocRow
         /\ task[t] \in Slot
BY DEF TypeInv, Types, BusyHasDoc, IdleHasNoStep, Slot, Queues

-----------------------------------------------------------------------------
(* Every action keeps the types. *)

LEMMA IngestTypeInv ==
  ASSUME TypeInv, NEW t \in Tasks, Ingest(t)
  PROVE  TypeInv'
<1>0. task[t].pc # "idle"
  BY DEF Ingest, IngestStart, SetParsing, SetCleaned, SetChunked, Advance, ChunkStage,
         HandOff, FailPermanently, MarkIngestExhausted, FailIngest, At
<1>1. /\ task[t].kind # "none" /\ task[t].doc \in Docs /\ task[t] \in Slot /\ Types
  BY <1>0, AtBusy DEF TypeInv
<1>2. CASE IngestStart(t)
  BY <1>1, <1>2, StartType DEF IngestStart, TypeInv, Types, Steps, IngestSteps
<1>3. ASSUME NEW from, NEW s \in Statuses, NEW to \in Steps, Advance(t, from, s, to)
      PROVE  TypeInv'
  <2>1. doc' \in [Docs -> DocRow]
    BY <1>1, <1>3, SetStatusType DEF Advance, SetStatusUnguarded
  <2>. QED  BY <2>1, <1>1, <1>3, GotoType DEF Advance, TypeInv, Types
<1>4. CASE SetParsing(t)
  BY <1>3, <1>4 DEF SetParsing, Statuses, Steps, IngestSteps
<1>5. CASE SetCleaned(t)
  BY <1>3, <1>5 DEF SetCleaned, Statuses, Steps, IngestSteps
<1>6. CASE SetChunked(t)
  BY <1>3, <1>6 DEF SetChunked, Statuses, Steps, IngestSteps
<1>7. CASE ChunkStage(t)
  <2>. DEFINE d == task[t].doc
              v == task[t].ver
  <2>1. d \in Docs /\ v \in Versions /\ doc' = doc /\ scanned' = scanned
    BY <1>1, <1>7 DEF ChunkStage, Slot
  <2>2. CASE Protected(d, v)
    BY <2>1, <2>2, <1>1, <1>7, RetryType DEF ChunkStage, TypeInv, Types
  <2>3. CASE ~Protected(d, v)
    <3>1. chunks' = Replaced(d, v) /\ faults' = faults
          /\ task' = [Orphaned({<<d, v>>}) EXCEPT ![t].pc = "chunked"]
      BY <2>3, <1>7 DEF ChunkStage
    <3>2. chunks' \in [Docs -> [Versions -> Group]]
      <4>1. [state |-> "active", vec |-> 0] \in Group
        BY BoundsAssumption DEF Group
      <4>. QED  BY <4>1, <3>1, <2>1 DEF Replaced, TypeInv, Types
    <3>3. task' \in [Tasks -> Slot] /\ BusyHasDoc' /\ IdleHasNoStep'
      <4>. DEFINE o == Orphaned({<<d, v>>})
      <4>1. /\ o \in [Tasks -> Slot]
            /\ \A s \in Tasks : /\ o[s].kind = task[s].kind /\ o[s].doc = task[s].doc
                                /\ task[s].pc = "idle" => o[s].pc = "idle"
        BY OrphanedType
      <4>2. task' = [o EXCEPT ![t].pc = "chunked"]
        BY <3>1
      <4>. HIDE DEF o
      <4>3. [o[t] EXCEPT !.pc = "chunked"] \in Slot
        BY <4>1 DEF Slot, Steps, IngestSteps
      <4>4. task' \in [Tasks -> Slot]
        BY <4>1, <4>2, <4>3
      <4>5. \A s \in Tasks : task'[s].kind = task[s].kind /\ task'[s].doc = task[s].doc
                             /\ (s # t => task'[s] = o[s])
        BY <4>1, <4>2 DEF Slot
      <4>. QED  BY <4>1, <4>4, <4>5, <1>1 DEF TypeInv, BusyHasDoc, IdleHasNoStep
    <3>. QED  BY <3>1, <3>2, <3>3, <2>1 DEF TypeInv, Types
  <2>. QED  BY <2>2, <2>3
<1>8. CASE HandOff(t)
  <2>1. Send(Released(t), "embed", task[t].doc)
    BY <1>8 DEF HandOff
  <2>. QED  BY <2>1, <1>1, <1>8, SendType, ReleasedType DEF HandOff, TypeInv, Types, Queues
<1>9. ASSUME NEW pc, FailIngest(t, pc)
      PROVE  TypeInv'
  <2>1. doc' \in [Docs -> DocRow]
    BY <1>1, <1>9, SetStatusType DEF FailIngest, SetStatusUnguarded, Statuses
  <2>. QED  BY <2>1, <1>1, <1>9, DoneType DEF FailIngest, TypeInv, Types
<1>. QED  BY <1>2, <1>4, <1>5, <1>6, <1>7, <1>8, <1>9
          DEF Ingest, FailPermanently, MarkIngestExhausted

LEMMA EmbedTypeInv ==
  ASSUME TypeInv, NEW t \in Tasks, Embed(t)
  PROVE  TypeInv'
<1>0. task[t].pc # "idle"
  BY DEF Embed, EmbedStart, EnterEmbedding, ListPending, EmbedBatch, EmbedOrphaned,
         RefuseEmbed, Promote, MarkEmbedExhausted, Conclude, At
<1>1. /\ task[t].kind # "none" /\ task[t].doc \in Docs /\ task[t] \in Slot /\ Types
      /\ task[t].ver \in Versions
  BY <1>0, AtBusy DEF TypeInv, Slot
<1>2. CASE EmbedStart(t)
  <2>1. "enter" \in Steps
    BY DEF Steps, EmbedSteps
  <2>2. task' \in [Tasks -> Slot] /\ faults' \in 0 .. MaxFaults /\ BusyHasDoc' /\ IdleHasNoStep'
    BY <1>1, <1>2, <2>1, StartType, DoneType DEF EmbedStart
  <2>. QED  BY <2>2, <1>2 DEF EmbedStart, TypeInv, Types
<1>3. CASE EnterEmbedding(t)
  <2>1. doc' \in [Docs -> DocRow]
    BY <1>1, <1>3, SetStatusType DEF EnterEmbedding, Statuses
  <2>2. "list" \in Steps
    BY DEF Steps, EmbedSteps
  <2>3. task' \in [Tasks -> Slot] /\ faults' \in 0 .. MaxFaults /\ BusyHasDoc' /\ IdleHasNoStep'
    BY <1>1, <1>3, <2>2, GotoType, DoneType DEF EnterEmbedding
  <2>. QED  BY <2>1, <2>3, <1>3 DEF EnterEmbedding, TypeInv, Types
<1>4. ASSUME NEW x \in Slot, x.kind = task[t].kind, x.doc = task[t].doc,
             task' = [task EXCEPT ![t] = x], UNCHANGED <<doc, scanned, faults>>,
             chunks' \in [Docs -> [Versions -> Group]]
      PROVE  TypeInv'
  BY <1>1, <1>4 DEF TypeInv, Types, BusyHasDoc, IdleHasNoStep
<1>5. CASE ListPending(t)
  <2>. DEFINE g == chunks[task[t].doc][task[t].ver]
              x == [task[t] EXCEPT !.pc = "embed", !.next = g.vec + 1]
              y == [task[t] EXCEPT !.pc = "promote"]
  <2>1. g.vec \in 0 .. Batches
    BY <1>1 DEF Types, Group
  <2>2. g.vec < Batches => g.vec + 1 \in 1 .. Batches
    BY <2>1, BoundsAssumption
  <2>3. "embed" \in Steps /\ "promote" \in Steps
    BY DEF Steps, EmbedSteps
  <2>4. g.vec < Batches => x \in Slot /\ x.kind = task[t].kind /\ x.doc = task[t].doc
    BY <2>2, <2>3, <1>1 DEF Slot
  <2>5. y \in Slot /\ y.kind = task[t].kind /\ y.doc = task[t].doc
    BY <2>3, <1>1 DEF Slot
  <2>6. /\ task' = [task EXCEPT ![t] = IF g.state = "active" /\ g.vec < Batches THEN x ELSE y]
        /\ UNCHANGED <<doc, chunks, scanned, faults>>
    BY <1>5 DEF ListPending
  <2>. HIDE DEF x, y
  <2>. QED  BY <2>4, <2>5, <2>6, <1>1, <1>4 DEF Types
<1>6. CASE EmbedBatch(t)
  <2>. DEFINE n == task[t].next
              x == [task[t] EXCEPT !.next = n + 1]
              y == [task[t] EXCEPT !.next = 1, !.pc = "promote"]
  <2>1. n \in 1 .. Batches /\ n \in 0 .. Batches /\ 1 \in 1 .. Batches /\ "promote" \in Steps
    BY <1>1, BoundsAssumption DEF Slot, Steps, EmbedSteps
  <2>2. n < Batches => n + 1 \in 1 .. Batches
    BY <2>1, BoundsAssumption
  <2>3. n < Batches => x \in Slot /\ x.kind = task[t].kind /\ x.doc = task[t].doc
    BY <2>2, <1>1 DEF Slot
  <2>4. y \in Slot /\ y.kind = task[t].kind /\ y.doc = task[t].doc
    BY <2>1, <1>1 DEF Slot
  <2>5. /\ task' = [task EXCEPT ![t] = IF n < Batches THEN x ELSE y]
        /\ UNCHANGED <<doc, scanned, faults>>
        /\ chunks' = [chunks EXCEPT ![task[t].doc][task[t].ver].vec =
                        IF chunks[task[t].doc][task[t].ver].vec < n THEN n ELSE @]
    BY <1>6 DEF EmbedBatch
  <2>6. chunks' \in [Docs -> [Versions -> Group]]
    <3>. DEFINE d == task[t].doc
                v == task[t].ver
                w == IF chunks[d][v].vec < n THEN n ELSE chunks[d][v].vec
                g == [chunks[d][v] EXCEPT !.vec = w]
    <3>0. chunks[d][v] \in Group /\ w \in 0 .. Batches
      BY <2>1, <1>1 DEF Types, Group
    <3>1. g \in Group
      <4>. HIDE DEF w
      <4>. QED  BY <3>0 DEF Group
    <3>2. chunks' = [chunks EXCEPT ![d] = [chunks[d] EXCEPT ![v] = g]]
      BY <2>5, <1>1 DEF Types
    <3>. HIDE DEF g
    <3>. QED  BY <3>1, <3>2, <1>1 DEF Types
  <2>. HIDE DEF x, y
  <2>. QED  BY <2>3, <2>4, <2>5, <2>6, <1>4
<1>7. CASE EmbedOrphaned(t)
  BY <1>1, <1>7, RetryType DEF EmbedOrphaned, TypeInv, Types
<1>8. ASSUME NEW pc, NEW s \in Statuses, NEW S, NEW V, Conclude(t, pc, s, S, V)
      PROVE  TypeInv'
  <2>1. doc' \in [Docs -> DocRow]
    BY <1>1, <1>8, SetStatusType DEF Conclude
  <2>. QED  BY <2>1, <1>1, <1>8, DoneType DEF Conclude, TypeInv, Types
<1>9. CASE RefuseEmbed(t) \/ Promote(t) \/ MarkEmbedExhausted(t)
  BY <1>8, <1>9 DEF RefuseEmbed, Promote, MarkEmbedExhausted, Statuses
<1>. QED  BY <1>2, <1>3, <1>5, <1>6, <1>7, <1>9 DEF Embed

LEMMA ExecuteTypeInv ==
  ASSUME TypeInv, NEW t \in Tasks, Execute(t)
  PROVE  TypeInv'
<1>1. CASE Defer(t)
  <2>1. task[t].kind \in Queues /\ task[t].doc \in Docs
    BY <1>1, AtBusy DEF Defer
  <2>2. Send(Released(t), task[t].kind, task[t].doc)
    BY <1>1 DEF Defer
  <2>3. task' \in [Tasks -> Slot] /\ faults' \in 0 .. MaxFaults /\ BusyHasDoc' /\ IdleHasNoStep'
    BY <2>1, <2>2, SendType, ReleasedType DEF TypeInv
  <2>. QED  BY <2>3, <1>1 DEF Defer, TypeInv, Types
<1>2. CASE TransientFailure(t)
  <2>1. task[t].kind # "none"
    BY <1>2, AtBusy DEF TransientFailure, Working, IngestSteps, EmbedSteps
  <2>. QED  BY <2>1, <1>2, RetryType DEF TransientFailure, TypeInv, Types
<1>. QED  BY <1>1, <1>2, IngestTypeInv, EmbedTypeInv DEF Execute

LEMMA FaultTypeInv ==
  ASSUME TypeInv, NEW t \in Tasks, Fault(t)
  PROVE  TypeInv'
<1>1. task[t].pc # "idle"
  BY DEF Fault, Crash, Redeliver, LoseMessage, Working, IngestSteps, EmbedSteps
<1>2. /\ task[t].kind \in Queues /\ task[t].doc \in Docs /\ task[t].kind # "none"
      /\ task[t].retries \in 0 .. MaxRetries
  BY <1>1, AtBusy DEF Slot
<1>3. Restored(t) \in Slot /\ Restored(t).kind = task[t].kind /\ Restored(t).doc = task[t].doc
  BY <1>2, MessageType DEF Restored, Message
<1>4. faults < MaxFaults => faults + 1 \in 0 .. MaxFaults
  BY BoundsAssumption DEF TypeInv, Types
<1>5. CASE Crash(t)
  BY <1>2, <1>3, <1>4, <1>5 DEF Crash, TypeInv, Types, BusyHasDoc, IdleHasNoStep
<1>6. CASE Redeliver(t)
  BY <1>2, <1>3, <1>4, <1>6 DEF Redeliver, TypeInv, Types, BusyHasDoc, IdleHasNoStep
<1>7. CASE LoseMessage(t)
  BY <1>4, <1>7, ReleasedType DEF LoseMessage, TypeInv, Types, BusyHasDoc, IdleHasNoStep
<1>. QED  BY <1>5, <1>6, <1>7 DEF Fault

(* Superseding chunks and purging them keep the type of the groups.        *)
LEMMA SupersededType ==
  ASSUME Types, NEW d \in Docs
  PROVE  Superseded(d) \in [Docs -> [Versions -> Group]]
BY DEF Superseded, Types, Group

LEMMA UserTypeInv ==
  ASSUME TypeInv, NEW d \in Docs, User(d) \/ Age(d)
  PROVE  TypeInv'
<1>1. /\ task \in [Tasks -> Slot] /\ doc[d] \in DocRow /\ "ingest" \in Queues /\ Types
      /\ \A t \in Tasks : task[t].kind # "none" => task[t].doc \in Docs
      /\ \A t \in Tasks : task[t].kind = "none" => task[t].pc = "idle"
  BY DEF TypeInv, Types, BusyHasDoc, IdleHasNoStep, Queues
<1>2. CASE Upload(d)
  <2>1. doc' \in [Docs -> DocRow]
    BY <1>1, <1>2 DEF Upload, Types, DocRow
  <2>. QED  BY <2>1, <1>1, <1>2, SendType DEF Upload, TypeInv, Types
<1>3. CASE Reingest(d)
  <2>1. doc[d].version + 1 \in Versions
    BY <1>1, <1>3, BoundsAssumption DEF Reingest, DocRow, Versions
  <2>. DEFINE row == [doc[d] EXCEPT !.version = doc[d].version + 1,
                                    !.status = "uploaded", !.silent = FALSE]
  <2>2. row \in DocRow
    BY <2>1, <1>1 DEF DocRow, Statuses
  <2>3. doc' \in [Docs -> DocRow]
    <3>1. doc' = [doc EXCEPT ![d] = row]
      BY <1>3 DEF Reingest
    <3>. HIDE DEF row
    <3>. QED  BY <3>1, <2>2, <1>1 DEF Types
  <2>4. chunks' \in [Docs -> [Versions -> Group]]
    BY <1>1, <1>3, SupersededType DEF Reingest
  <2>. QED  BY <2>3, <2>4, <1>1, <1>3, SendType DEF Reingest, TypeInv, Types
<1>4. CASE Delete(d)
  <2>1. doc' \in [Docs -> DocRow]
    BY <1>1, <1>4 DEF Delete, Types, DocRow
  <2>2. chunks' \in [Docs -> [Versions -> Group]]
    BY <1>1, <1>4, SupersededType DEF Delete
  <2>. QED  BY <2>1, <2>2, <1>1, <1>4 DEF Delete, TypeInv, Types, BusyHasDoc, IdleHasNoStep
<1>5. CASE Age(d)
  <2>1. doc' \in [Docs -> DocRow]
    BY <1>1, <1>5 DEF Age, Types, DocRow
  <2>. QED  BY <2>1, <1>1, <1>5 DEF Age, TypeInv, Types, BusyHasDoc, IdleHasNoStep
<1>. QED  BY <1>2, <1>3, <1>4, <1>5 DEF User

LEMMA BeatTypeInv ==
  ASSUME TypeInv, Beat
  PROVE  TypeInv'
<1>1. CASE ScanStuck
  <2>1. scanned' \in SUBSET (Docs \X Queues)
    BY <1>1 DEF ScanStuck, Stuck, QueueFor, Queues
  <2>. QED  BY <2>1, <1>1 DEF ScanStuck, TypeInv, Types, BusyHasDoc, IdleHasNoStep
<1>2. CASE SendRescued
  <2>1. PICK r \in scanned : /\ scanned' = scanned \ {r}
                             /\ Send(task, r[2], r[1])
                             /\ UNCHANGED <<doc, chunks>>
    BY <1>2 DEF SendRescued
  <2>2. r[1] \in Docs /\ r[2] \in Queues
    BY DEF TypeInv, Types
  <2>3. task' \in [Tasks -> Slot] /\ faults' \in 0 .. MaxFaults /\ BusyHasDoc' /\ IdleHasNoStep'
    BY <2>1, <2>2, SendType DEF TypeInv, Types, BusyHasDoc, IdleHasNoStep
  <2>. QED  BY <2>1, <2>3 DEF TypeInv, Types
<1>3. CASE Cleanup
  <2>. DEFINE purged == {g \in Docs \X Versions : Purgeable(g[1], g[2])}
  <2>1. NoRows \in Group
    BY BoundsAssumption DEF NoRows, Group
  <2>2. chunks' = [d \in Docs |-> [v \in Versions |->
                     IF <<d, v>> \in purged THEN NoRows ELSE chunks[d][v]]]
        /\ task' = Orphaned(purged) /\ UNCHANGED <<doc, scanned, faults>>
    BY <1>3 DEF Cleanup
  <2>. HIDE DEF purged
  <2>3. chunks' \in [Docs -> [Versions -> Group]]
    BY <2>1, <2>2 DEF TypeInv, Types
  <2>4. task' \in [Tasks -> Slot] /\ BusyHasDoc' /\ IdleHasNoStep'
    BY <2>2, OrphanedType DEF TypeInv, BusyHasDoc, IdleHasNoStep
  <2>. QED  BY <2>2, <2>3, <2>4 DEF TypeInv, Types
<1>. QED  BY <1>1, <1>2, <1>3 DEF Beat

LEMMA TypeInvInit == Init => TypeInv
<1>. SUFFICES ASSUME Init PROVE TypeInv
  OBVIOUS
<1>1. NoRows \in Group /\ Idle \in Slot /\ 1 \in Versions
  BY IdleType, BoundsAssumption DEF NoRows, Group, Versions
<1>2. [life |-> "absent", status |-> "uploaded", version |-> 1, silent |-> FALSE] \in DocRow
  BY <1>1 DEF DocRow, Statuses
<1>3. Idle.kind = "none" /\ Idle.pc = "idle"
  BY DEF Idle
<1>. QED  BY <1>1, <1>2, <1>3, BoundsAssumption
          DEF Init, TypeInv, Types, BusyHasDoc, IdleHasNoStep

LEMMA TypeInvNext == TypeInv /\ [Next]_vars => TypeInv'
<1>. SUFFICES ASSUME TypeInv, [Next]_vars PROVE TypeInv'
  OBVIOUS
<1>1. CASE Next
  BY <1>1, ExecuteTypeInv, FaultTypeInv, UserTypeInv, BeatTypeInv DEF Next
<1>2. CASE UNCHANGED vars
  BY <1>2 DEF vars, TypeInv, Types, BusyHasDoc, IdleHasNoStep
<1>. QED  BY <1>1, <1>2

LEMMA TypeInvariant == Spec => []TypeInv
BY TypeInvInit, TypeInvNext, PTL DEF Spec

(* Rows, chunk groups and messages stay within the values the code can     *)
(* write; in particular no message carries more retries than _MAX_RETRIES  *)
(* (etl_tasks.py:71-95) and no batch beyond the last is stored.            *)
THEOREM TypeCorrect == Spec => []TypeOK
<1>1. TypeInv => TypeOK
  BY DEF TypeInv, Types, TypeOK, DocRow, Group, Slot
<1>. QED  BY <1>1, TypeInvariant, PTL

-----------------------------------------------------------------------------
(* What a step may do to the vectors                                       *)

VectorsKept ==
  \A d \in Docs, v \in Versions :
    chunks'[d][v].vec < chunks[d][v].vec =>
      chunks[d][v].state = "superseded" /\ doc[d].status = "ready"

(* Rows that are not touched, or only superseded, keep their vectors.      *)
LEMMA NoneLess ==
  ASSUME Types, \A d \in Docs, v \in Versions : chunks'[d][v].vec = chunks[d][v].vec
  PROVE  VectorsKept
BY BoundsAssumption DEF Types, Group, VectorsKept

(* Only the chunk stage and the embedding of a batch write chunks, of the  *)
(* execution's own document and version.                                   *)
LEMMA ExecutionKeepsVectors ==
  ASSUME TypeInv, NEW t \in Tasks, Execute(t)
  PROVE  VectorsKept
<1>. DEFINE d == task[t].doc
            v == task[t].ver
<1>0. Types
  BY DEF TypeInv
<1>1. CASE chunks' = chunks
  BY <1>0, <1>1, NoneLess
<1>2. CASE ChunkStage(t)
  <2>1. d \in Docs /\ v \in Versions
    BY <1>2, AtBusy DEF ChunkStage, At, Slot
  <2>2. CASE Protected(d, v)
    BY <1>1, <1>2, <2>2 DEF ChunkStage
  <2>3. CASE ~Protected(d, v)
    <3>1. chunks[d][v].vec = 0
      BY <1>0, <2>1, <2>3, BoundsAssumption DEF Protected, Types, Group
    <3>2. chunks' = [chunks EXCEPT ![d][v] = [state |-> "active", vec |-> 0]]
      BY <1>2, <2>3 DEF ChunkStage, Replaced
    <3>3. \A e \in Docs, w \in Versions : chunks'[e][w].vec = chunks[e][w].vec
      BY <1>0, <2>1, <3>1, <3>2 DEF Types
    <3>. QED  BY <1>0, <3>3, NoneLess
  <2>. QED  BY <2>2, <2>3
<1>3. CASE EmbedBatch(t)
  <2>1. d \in Docs /\ v \in Versions /\ task[t].next \in 1 .. Batches
    BY <1>3, AtBusy DEF EmbedBatch, At, Slot
  <2>. DEFINE n == task[t].next
              old == chunks[d][v].vec
              new == IF old < n THEN n ELSE old
  <2>2. old \in Nat /\ n \in Nat /\ ~(new < old)
    BY <1>0, <2>1, BoundsAssumption DEF Types, Group
  <2>3. \A e \in Docs, w \in Versions :
          chunks'[e][w].vec = IF e = d /\ w = v THEN new ELSE chunks[e][w].vec
    <3>1. chunks' = [chunks EXCEPT ![d][v].vec = new]
      BY <1>3 DEF EmbedBatch
    <3>. HIDE DEF new
    <3>. QED  BY <1>0, <2>1, <3>1 DEF Types, Group
  <2>4. \A e \in Docs, w \in Versions : ~(chunks[e][w].vec < chunks[e][w].vec)
    BY <1>0, BoundsAssumption DEF Types, Group
  <2>. HIDE DEF new
  <2>. QED  BY <2>2, <2>3, <2>4 DEF VectorsKept
<1>. QED  BY <1>1, <1>2, <1>3
          DEF Execute, Ingest, Embed, IngestStart, SetParsing, SetCleaned, SetChunked, Advance,
              HandOff, FailPermanently, MarkIngestExhausted, FailIngest, EmbedStart,
              EnterEmbedding, ListPending, EmbedOrphaned, RefuseEmbed, Promote,
              MarkEmbedExhausted, Conclude, Defer, TransientFailure

LEMMA SupersedingKeepsVectors ==
  ASSUME Types, NEW d \in Docs, chunks' = Superseded(d)
  PROVE  VectorsKept
<1>1. \A e \in Docs, w \in Versions : chunks'[e][w].vec = chunks[e][w].vec
  BY DEF Superseded, Types, Group
<1>. QED  BY <1>1, NoneLess

(* The purge takes exactly the superseded rows of ready documents.         *)
LEMMA CleanupKeepsVectors ==
  ASSUME Types, Cleanup
  PROVE  VectorsKept
<1>. DEFINE purged == {g \in Docs \X Versions : Purgeable(g[1], g[2])}
<1>1. \A d \in Docs, v \in Versions :
        chunks'[d][v] = IF <<d, v>> \in purged THEN NoRows ELSE chunks[d][v]
  BY DEF Cleanup
<1>2. \A d \in Docs, v \in Versions : <<d, v>> \in purged => Purgeable(d, v)
  OBVIOUS
<1>3. \A d \in Docs, v \in Versions : ~(chunks[d][v].vec < chunks[d][v].vec)
  BY BoundsAssumption DEF Types, Group
<1>. HIDE DEF purged
<1>. QED  BY <1>1, <1>2, <1>3 DEF VectorsKept, Purgeable

LEMMA StepKeepsVectors == TypeInv /\ [Next]_vars => VectorsKept
<1>. SUFFICES ASSUME TypeInv, [Next]_vars PROVE VectorsKept
  OBVIOUS
<1>0. Types
  BY DEF TypeInv
<1>1. CASE chunks' = chunks
  BY <1>0, <1>1, NoneLess
<1>2. ASSUME NEW t \in Tasks, Fault(t)
      PROVE  chunks' = chunks
  BY <1>2 DEF Fault, Crash, Redeliver, LoseMessage
<1>3. ASSUME NEW d \in Docs, User(d) \/ Age(d)
      PROVE  VectorsKept
  BY <1>0, <1>1, <1>3, SupersedingKeepsVectors DEF User, Upload, Reingest, Delete, Age
<1>4. CASE Beat
  BY <1>0, <1>1, <1>4, CleanupKeepsVectors DEF Beat, ScanStuck, SendRescued
<1>5. CASE UNCHANGED vars
  BY <1>1, <1>5 DEF vars
<1>. QED  BY <1>1, <1>2, <1>3, <1>4, <1>5, ExecutionKeepsVectors DEF Next

(* knowledge.py:406-416: whatever is re-run, redelivered, re-ingested or   *)
(* deleted, vectors disappear only with superseded chunks of a document    *)
(* whose row says ready.                                                   *)
THEOREM PaidVectorsStay == Spec => PaidVectorsSurvive
<1>1. TypeInv /\ [Next]_vars =>
        [\A d \in Docs, v \in Versions :
           chunks'[d][v].vec < chunks[d][v].vec =>
             chunks[d][v].state = "superseded" /\ doc[d].status = "ready"]_vars
  BY StepKeepsVectors DEF VectorsKept
<1>. QED  BY <1>1, TypeInvariant, TypeInvNext, PTL DEF Spec, PaidVectorsSurvive

-----------------------------------------------------------------------------
(* What an execution with an old snapshot may do to the row                *)

Outdated(t) ==
  /\ task[t].kind = "embed"
  /\ task[t].pc \in EmbedSteps
  /\ task[t].ver # doc[task[t].doc].version

(* A slot in use is touched by its own execution alone, or its row is not  *)
(* written in the same step.                                               *)
LEMMA OthersStayAway ==
  ASSUME TypeInv, NEW t \in Tasks, NEW s \in Tasks, s # t, Outdated(t), Execute(s)
  PROVE  doc' = doc \/ task'[t] = task[t]
<1>. DEFINE others == task'[t] = task[t]
<1>0. task \in [Tasks -> Slot]
  BY DEF TypeInv, Types
<1>1. Done(s) => others
  BY <1>0 DEF Done, Released
<1>2. \A pc : Goto(s, pc) => others
  BY <1>0 DEF Goto
<1>3. ASSUME NEW from, NEW status, NEW to, Advance(s, from, status, to)
      PROVE  others
  BY <1>2, <1>3 DEF Advance
<1>4. ASSUME NEW pc, FailIngest(s, pc)
      PROVE  others
  BY <1>1, <1>4 DEF FailIngest
<1>5. ASSUME NEW pc, NEW status, NEW S, NEW V, Conclude(s, pc, status, S, V)
      PROVE  others
  BY <1>1, <1>5 DEF Conclude
<1>6. EnterEmbedding(s) => others
  BY <1>1, <1>2 DEF EnterEmbedding
<1>. HIDE DEF others
<1>7. CASE Ingest(s)
  BY <1>3, <1>4, <1>7 DEF Ingest, IngestStart, SetParsing, SetCleaned, SetChunked, ChunkStage,
                          HandOff, FailPermanently, MarkIngestExhausted, others
<1>8. CASE Embed(s)
  BY <1>5, <1>6, <1>8 DEF Embed, EmbedStart, ListPending, EmbedBatch, EmbedOrphaned,
                          RefuseEmbed, Promote, MarkEmbedExhausted, others
<1>. QED  BY <1>7, <1>8 DEF Execute, Defer, TransientFailure

(* Its own closing writes expect the version of the snapshot.              *)
LEMMA OwnWritesMiss ==
  ASSUME NEW t \in Tasks, Outdated(t), Execute(t)
  PROVE  doc' = doc
<1>1. \A S : ~Matches(task[t].doc, S, {task[t].ver})
  BY DEF Outdated, Matches
<1>2. ASSUME NEW pc, NEW status, NEW S, Conclude(t, pc, status, S, {task[t].ver})
      PROVE  doc' = doc
  BY <1>1, <1>2 DEF Conclude, SetStatus
<1>3. CASE EnterEmbedding(t)
  BY <1>1, <1>3 DEF EnterEmbedding, SetStatus
<1>4. ~MarkEmbedExhausted(t)
  BY DEF MarkEmbedExhausted, Conclude, At, Outdated, EmbedSteps
<1>5. ~Ingest(t)
  BY DEF Ingest, IngestStart, SetParsing, SetCleaned, SetChunked, Advance, ChunkStage, HandOff,
         FailPermanently, MarkIngestExhausted, FailIngest, At, Outdated
<1>6. CASE RefuseEmbed(t) \/ Promote(t)
  BY <1>2, <1>6 DEF RefuseEmbed, Promote
<1>7. CASE EmbedStart(t) \/ ListPending(t) \/ EmbedBatch(t) \/ EmbedOrphaned(t)
  BY <1>7 DEF EmbedStart, ListPending, EmbedBatch, EmbedOrphaned
<1>. QED  BY <1>3, <1>4, <1>5, <1>6, <1>7 DEF Execute, Embed, Defer, TransientFailure

(* A new message takes a slot that is not in use.                          *)
LEMMA SendStaysAway ==
  ASSUME Types, NEW t \in Tasks, task[t].kind = "embed", NEW k, NEW d, Send(task, k, d)
  PROVE  task'[t] = task[t]
BY DEF Send, Types

LEMMA StepOfOutdated ==
  ASSUME TypeInv, [Next]_vars, NEW t \in Tasks, Outdated(t)
  PROVE  doc' = doc \/ task'[t] = task[t]
<1>0. Types /\ task[t].kind = "embed"
  BY DEF TypeInv, Outdated
<1>1. ASSUME NEW s \in Tasks, Fault(s)
      PROVE  doc' = doc
  BY <1>1 DEF Fault, Crash, Redeliver, LoseMessage
<1>2. ASSUME NEW d \in Docs, User(d) \/ Age(d)
      PROVE  task'[t] = task[t]
  BY <1>0, <1>2, SendStaysAway DEF User, Upload, Reingest, Delete, Age
<1>3. CASE Beat
  BY <1>3 DEF Beat, ScanStuck, SendRescued, Cleanup
<1>4. CASE UNCHANGED vars
  BY <1>4 DEF vars
<1>. QED  BY <1>1, <1>2, <1>3, <1>4, OthersStayAway, OwnWritesMiss DEF Next

(* embedding.py, _skip_stale: an embedding execution overtaken by a        *)
(* re-ingest writes nothing into the row, however its steps interleave     *)
(* with those of the execution that replaced it.                           *)
THEOREM StaleEmbeddingIsHarmless == Spec => StaleEmbeddingChangesNothing
<1>1. TypeInv /\ [Next]_vars =>
        [\A t \in Tasks :
           (/\ task[t].kind = "embed"
            /\ task[t].pc \in EmbedSteps
            /\ task[t].ver # doc[task[t].doc].version
            /\ task'[t] # task[t]) => doc' = doc]_vars
  BY StepOfOutdated DEF Outdated
<1>. QED  BY <1>1, TypeInvariant, TypeInvNext, PTL DEF Spec, StaleEmbeddingChangesNothing

-----------------------------------------------------------------------------
(***************************************************************************)
(* FirstVersionReadyIsSearchable for every value of the constants.         *)
(*                                                                         *)
(* The property says nothing of executions, and duplicated executions are  *)
(* the whole difficulty: it has to be strengthened with what every message *)
(* slot may rely on.  While a document has only its first version, no      *)
(* execution can hold another version, nothing is superseded, and an       *)
(* embedding execution past its entry check has active chunks below it.    *)
(* Stored vectors then forbid replacing the chunks (Protected), so what an *)
(* execution has counted cannot be taken away again before it promotes.    *)
(***************************************************************************)

First(d, D) == D[d].life = "live" /\ D[d].version = 1

(* The row and its first group agree. *)
RowFits(d, D, C) ==
  /\ D[d].life = "absent" => /\ D[d].version = 1 /\ D[d].status = "uploaded"
                             /\ C[d][1].state = "none"
  /\ First(d, D) => /\ C[d][1].state # "superseded"
                    /\ D[d].status \in Embeddable => C[d][1].state = "active"
                    /\ D[d].status = "ready" => C[d][1].vec = Batches

(* What a message or execution x may rely on. *)
Fits(x, D, C) ==
  x.kind # "none" =>
    /\ D[x.doc].life # "absent"
    /\ x.ver <= D[x.doc].version
    /\ First(x.doc, D) =>
         /\ x.kind = "ingest" /\ x.pc = "chunked" => C[x.doc][1].state = "active"
         /\ x.kind = "embed" /\ x.pc \in EmbedSteps => C[x.doc][1].state = "active"
         /\ x.kind = "embed" /\ x.pc = "embed" => x.next <= C[x.doc][1].vec + 1
         /\ x.kind = "embed" /\ x.pc = "promote" => C[x.doc][1].vec = Batches

RowsFit == \A d \in Docs : RowFits(d, doc, chunks)
TasksFit == \A t \in Tasks : Fits(task[t], doc, chunks)
ScanFits == \A r \in scanned : doc[r[1]].life # "absent"

FirstVersionInv == TypeInv /\ RowsFit /\ TasksFit /\ ScanFits

(* Rows only move on: uploaded, re-ingested, deleted. *)
Later(D, E) == \A d \in Docs :
  D[d].life # "absent" => /\ E[d].life # "absent"
                          /\ D[d].version <= E[d].version
                          /\ First(d, E) => First(d, D)

-----------------------------------------------------------------------------
(* Lemmas: what keeps a slot fitting. *)

LEMMA FitsLater ==
  ASSUME Types, Types', Later(doc, doc'), NEW x \in Slot, Fits(x, doc, chunks),
         x.kind # "none" => x.doc \in Docs,
         \A d \in Docs : First(d, doc') => chunks'[d][1] = chunks[d][1]
  PROVE  Fits(x, doc', chunks')
<1>. SUFFICES ASSUME x.kind # "none" PROVE Fits(x, doc', chunks')
  BY DEF Fits
<1>1. x.doc \in Docs /\ doc[x.doc].version \in Nat /\ doc'[x.doc].version \in Nat /\ x.ver \in Nat
  BY BoundsAssumption DEF Types, DocRow, Slot, Versions
<1>. DEFINE d == x.doc
<1>2. /\ doc[d].life # "absent" /\ x.ver <= doc[d].version
      /\ doc'[d].life # "absent" /\ doc[d].version <= doc'[d].version
      /\ First(d, doc') => First(d, doc) /\ chunks'[d][1] = chunks[d][1]
  BY <1>1 DEF Fits, Later
<1>3. x.ver <= doc'[d].version
  BY <1>1, <1>2
<1>. QED  BY <1>2, <1>3 DEF Fits

LEMMA MessageFits ==
  ASSUME Types, NEW k \in Queues, NEW d \in Docs, NEW r, doc[d].life # "absent"
  PROVE  Fits(Message(k, d, r), doc, chunks)
<1>1. 1 <= doc[d].version
  BY BoundsAssumption DEF Types, DocRow, Versions
<1>. QED  BY <1>1 DEF Fits, Message, EmbedSteps

LEMMA IdleFits == Fits(Idle, doc, chunks)
BY DEF Fits, Idle

LEMMA SendFits ==
  ASSUME Types, NEW slots \in [Tasks -> Slot], NEW k \in Queues, NEW d \in Docs,
         doc[d].life # "absent", \A t \in Tasks : Fits(slots[t], doc, chunks),
         Send(slots, k, d)
  PROVE  \A t \in Tasks : Fits(task'[t], doc, chunks)
<1>1. Fits(Message(k, d, 0), doc, chunks)
  BY MessageFits
<1>. QED  BY <1>1 DEF Send

(* An execution that gives up, succeeds or retries leaves nothing behind   *)
(* that needs more than a live row.                                        *)
LEMMA RetryFits ==
  ASSUME TypeInv, TasksFit, NEW t \in Tasks, task[t].kind # "none", Retry(t)
  PROVE  \A s \in Tasks : Fits(task'[s], doc, chunks)
<1>. DEFINE m == Message(task[t].kind, task[t].doc, task[t].retries + 1)
            x == [task[t] EXCEPT !.pc = "exhausted"]
<1>1. /\ task[t] \in Slot /\ task[t].kind \in Queues /\ task[t].doc \in Docs
      /\ Fits(task[t], doc, chunks) /\ Types
  BY DEF TypeInv, Types, BusyHasDoc, Slot, TasksFit
<1>2. Fits(m, doc, chunks)
  BY <1>1, MessageFits DEF Fits
<1>3. Fits(x, doc, chunks)
  BY <1>1 DEF Fits, Slot, EmbedSteps
<1>4. task' = [task EXCEPT ![t] = IF task[t].retries < MaxRetries THEN m ELSE x]
  BY DEF Retry
<1>. HIDE DEF m, x
<1>. QED  BY <1>1, <1>2, <1>3, <1>4 DEF Types, TasksFit

LEMMA DoneFits ==
  ASSUME TypeInv, TasksFit, NEW t \in Tasks
  PROVE  \A s \in Tasks : Fits(Released(t)[s], doc, chunks)
BY IdleFits DEF Released, TasksFit, TypeInv, Types

(* A status write moves no row backwards. *)
LEMMA SetStatusLater ==
  ASSUME Types, NEW d \in Docs, NEW s, NEW S, NEW V, SetStatus(d, s, S, V)
  PROVE  /\ Later(doc, doc')
         /\ \A e \in Docs : /\ doc'[e].life = doc[e].life
                            /\ doc'[e].version = doc[e].version
                            /\ e # d => doc'[e] = doc[e]
         /\ doc'[d].status = IF Matches(d, S, V) THEN s ELSE doc[d].status
<1>1. doc[d] \in DocRow /\ doc \in [Docs -> DocRow]
  BY DEF Types
<1>. DEFINE row == [doc[d] EXCEPT !.status = s, !.silent = FALSE]
<1>2. row.life = doc[d].life /\ row.version = doc[d].version /\ row.status = s
  BY <1>1 DEF DocRow
<1>3. doc' = IF Matches(d, S, V) THEN [doc EXCEPT ![d] = row] ELSE doc
  BY DEF SetStatus
<1>. HIDE DEF row
<1>4. /\ \A e \in Docs : /\ doc'[e].life = doc[e].life
                         /\ doc'[e].version = doc[e].version
                         /\ e # d => doc'[e] = doc[e]
      /\ doc'[d].status = IF Matches(d, S, V) THEN s ELSE doc[d].status
  BY <1>1, <1>2, <1>3
<1>5. \A e \in Docs : doc[e].version <= doc[e].version
  BY BoundsAssumption DEF Types, DocRow, Versions
<1>. QED  BY <1>4, <1>5 DEF Later, First

LEMMA LaterRefl == ASSUME Types PROVE Later(doc, doc)
BY BoundsAssumption DEF Types, Later, DocRow, Versions

(* The chunk groups did not change and the slots fit the old rows: they    *)
(* fit the new ones.                                                       *)
LEMMA SlotsFitLater ==
  ASSUME TypeInv, TypeInv', Later(doc, doc'),
         \A d \in Docs : First(d, doc') => chunks'[d][1] = chunks[d][1],
         \A t \in Tasks : Fits(task'[t], doc, chunks)
  PROVE  TasksFit'
<1>. SUFFICES ASSUME NEW t \in Tasks PROVE Fits(task'[t], doc', chunks')
  BY DEF TasksFit
<1>1. task'[t] \in Slot /\ (task'[t].kind # "none" => task'[t].doc \in Docs)
  BY DEF TypeInv, Types, BusyHasDoc
<1>. QED  BY <1>1, FitsLater DEF TypeInv

LEMMA ScanLater ==
  ASSUME TypeInv, ScanFits, Later(doc, doc'), scanned' = scanned
  PROVE  ScanFits'
BY DEF ScanFits, Later, TypeInv, Types

-----------------------------------------------------------------------------
(* Every action keeps the invariant. *)

(* An action that writes at most one status.  What is left to show is that *)
(* the new row agrees with its first group.                                *)
LEMMA StatusStep ==
  ASSUME FirstVersionInv, TypeInv', NEW d \in Docs, NEW s, NEW S, NEW V,
         SetStatus(d, s, S, V), chunks' = chunks, scanned' = scanned,
         \A t \in Tasks : Fits(task'[t], doc, chunks),
         Matches(d, S, V) /\ First(d, doc) =>
           /\ s \in Embeddable => chunks[d][1].state = "active"
           /\ s = "ready" => chunks[d][1].vec = Batches
  PROVE  FirstVersionInv'
<1>1. Types /\ RowsFit /\ TasksFit /\ ScanFits /\ TypeInv
  BY DEF FirstVersionInv, TypeInv
<1>2. /\ Later(doc, doc')
      /\ \A e \in Docs : /\ doc'[e].life = doc[e].life
                         /\ doc'[e].version = doc[e].version
                         /\ e # d => doc'[e] = doc[e]
      /\ doc'[d].status = IF Matches(d, S, V) THEN s ELSE doc[d].status
  BY <1>1, SetStatusLater
<1>3. TasksFit' /\ ScanFits'
  BY <1>1, <1>2, SlotsFitLater, ScanLater
<1>4. ASSUME NEW e \in Docs PROVE RowFits(e, doc', chunks')
  <2>1. RowFits(e, doc, chunks)
    BY <1>1 DEF RowsFit
  <2>2. CASE e # d
    BY <2>1, <2>2, <1>2 DEF RowFits, First
  <2>3. CASE e = d /\ ~Matches(d, S, V)
    BY <2>1, <2>3, <1>2 DEF RowFits, First
  <2>4. CASE e = d /\ Matches(d, S, V)
    <3>1. doc[d].life = "live"
      BY <2>4 DEF Matches, Visible
    <3>. QED  BY <2>1, <2>4, <3>1, <1>2 DEF RowFits, First
  <2>. QED  BY <2>2, <2>3, <2>4
<1>. QED  BY <1>3, <1>4 DEF FirstVersionInv, RowsFit

(* An action that writes neither rows nor chunks.                          *)
LEMMA SlotStep ==
  ASSUME FirstVersionInv, TypeInv', UNCHANGED <<doc, chunks, scanned>>,
         \A t \in Tasks : Fits(task'[t], doc, chunks)
  PROVE  FirstVersionInv'
BY DEF FirstVersionInv, RowsFit, TasksFit, ScanFits

LEMMA StartFits ==
  ASSUME TypeInv, TasksFit, NEW t \in Tasks, task[t].kind # "none", NEW pc \in Steps,
         Start(t, pc), pc # "chunked",
         First(task[t].doc, doc) /\ pc \in EmbedSteps =>
           chunks[task[t].doc][1].state = "active" /\ pc \notin {"embed", "promote"}
  PROVE  \A s \in Tasks : Fits(task'[s], doc, chunks)
<1>. DEFINE x == [task[t] EXCEPT !.pc = pc, !.ver = doc[task[t].doc].version]
<1>1. /\ task[t] \in Slot /\ task[t].doc \in Docs /\ Fits(task[t], doc, chunks)
      /\ task \in [Tasks -> Slot]
  BY DEF TypeInv, Types, BusyHasDoc, TasksFit
<1>2. doc[task[t].doc].version <= doc[task[t].doc].version
  BY <1>1, BoundsAssumption DEF TypeInv, Types, DocRow, Versions
<1>3. Fits(x, doc, chunks)
  <2>1. /\ x.kind = task[t].kind /\ x.doc = task[t].doc /\ x.pc = pc
        /\ x.ver = doc[task[t].doc].version
    BY <1>1 DEF Slot
  <2>. HIDE DEF x
  <2>. QED  BY <2>1, <1>1, <1>2 DEF Fits, EmbedSteps
<1>4. CASE Visible(task[t].doc)
  <2>1. task' = [task EXCEPT ![t] = x]
    BY <1>4 DEF Start
  <2>. HIDE DEF x
  <2>. QED  BY <2>1, <1>1, <1>3 DEF TasksFit
<1>5. CASE ~Visible(task[t].doc)
  BY <1>5, DoneFits DEF Start, Done
<1>. QED  BY <1>4, <1>5

LEMMA GotoFits ==
  ASSUME TypeInv, TasksFit, NEW t \in Tasks, task[t].kind # "none", NEW pc \in Steps, Goto(t, pc),
         First(task[t].doc, doc) /\ task[t].kind = "ingest" /\ pc = "chunked" =>
           chunks[task[t].doc][1].state = "active",
         First(task[t].doc, doc) /\ task[t].kind = "embed" /\ pc \in EmbedSteps =>
           chunks[task[t].doc][1].state = "active" /\ pc \notin {"embed", "promote"}
  PROVE  \A s \in Tasks : Fits(task'[s], doc, chunks)
<1>. DEFINE x == [task[t] EXCEPT !.pc = pc]
<1>1. task[t] \in Slot /\ Fits(task[t], doc, chunks) /\ task \in [Tasks -> Slot]
  BY DEF TypeInv, Types, TasksFit
<1>2. Fits(x, doc, chunks)
  <2>1. x.kind = task[t].kind /\ x.doc = task[t].doc /\ x.pc = pc /\ x.ver = task[t].ver
    BY <1>1 DEF Slot
  <2>. HIDE DEF x
  <2>. QED  BY <2>1, <1>1 DEF Fits, EmbedSteps
<1>3. task' = [task EXCEPT ![t] = x]
  BY DEF Goto
<1>. HIDE DEF x
<1>. QED  BY <1>1, <1>2, <1>3 DEF TasksFit

LEMMA FirstHasVersionOne ==
  ASSUME TypeInv, TasksFit, NEW t \in Tasks, task[t].kind # "none", First(task[t].doc, doc)
  PROVE  task[t].ver = 1
<1>1. task[t].ver \in Versions /\ task[t].ver <= 1
  BY DEF TypeInv, Types, Slot, TasksFit, Fits, First
<1>. QED  BY <1>1, BoundsAssumption DEF Versions

(* Replacing the chunks of a group without vectors: executions that listed *)
(* the old rows are orphaned, and nobody else had counted anything.        *)
LEMMA ReplaceStep ==
  ASSUME FirstVersionInv, TypeInv', NEW t \in Tasks, At(t, "ingest", "chunk"),
         ~Protected(task[t].doc, task[t].ver), UNCHANGED <<doc, scanned>>,
         chunks' = Replaced(task[t].doc, task[t].ver),
         task' = [Orphaned({<<task[t].doc, task[t].ver>>}) EXCEPT ![t].pc = "chunked"]
  PROVE  FirstVersionInv'
<1>. DEFINE d == task[t].doc
            v == task[t].ver
            o == Orphaned({<<d, v>>})
<1>1. /\ Types /\ TypeInv /\ RowsFit /\ TasksFit /\ ScanFits /\ d \in Docs /\ v \in Versions
      /\ 1 \in Versions /\ task[t].kind # "none" /\ task[t] \in Slot
      /\ chunks \in [Docs -> [Versions -> Group]]
  <2>1. TypeInv /\ RowsFit /\ TasksFit /\ ScanFits
    BY DEF FirstVersionInv
  <2>2. Types /\ BusyHasDoc
    BY <2>1 DEF TypeInv
  <2>3. task[t].kind # "none"
    BY DEF At
  <2>4. d \in Docs
    BY <2>2, <2>3 DEF BusyHasDoc
  <2>5. task[t] \in Slot /\ chunks \in [Docs -> [Versions -> Group]]
    BY <2>2 DEF Types
  <2>6. v \in Versions
    BY <2>5 DEF Slot
  <2>7. 1 \in Versions
    BY BoundsAssumption DEF Versions
  <2>. QED  BY <2>1, <2>2, <2>3, <2>4, <2>5, <2>6, <2>7
<1>2. chunks' = [chunks EXCEPT ![d] = [chunks[d] EXCEPT ![v] = [state |-> "active", vec |-> 0]]]
  BY <1>1 DEF Replaced
<1>3. \A e \in Docs : First(e, doc) /\ e # d => chunks'[e][1] = chunks[e][1]
  BY <1>1, <1>2
<1>4. First(d, doc) => /\ v = 1 /\ chunks'[d][1] = [state |-> "active", vec |-> 0]
                       /\ chunks[d][1].vec # Batches
  <2>1. First(d, doc) => v = 1
    BY <1>1, FirstHasVersionOne
  <2>2. v = 1 => chunks[d][1].vec \in 0 .. Batches /\ ~(chunks[d][1].vec > 0)
    BY <1>1 DEF Protected, Group
  <2>. QED  BY <2>1, <2>2, <1>1, <1>2, BoundsAssumption
<1>5. ASSUME NEW e \in Docs PROVE RowFits(e, doc', chunks')
  <2>1. RowFits(e, doc, chunks) /\ doc' = doc
    BY <1>1 DEF RowsFit
  <2>2. CASE doc[e].life = "absent"
    <3>1. e # d
      BY <2>2, <1>1 DEF TasksFit, Fits
    <3>. QED  BY <3>1, <2>1, <2>2, <1>1, <1>2 DEF RowFits, First
  <2>3. CASE doc[e].life # "absent"
    BY <2>1, <2>3, <1>3, <1>4 DEF RowFits
  <2>. QED  BY <2>2, <2>3
<1>6. ASSUME NEW s \in Tasks PROVE Fits(task'[s], doc', chunks')
  <2>. DEFINE y == [task[s] EXCEPT !.pc = "orphaned", !.next = 1]
              z == [o[t] EXCEPT !.pc = "chunked"]
  <2>1. task[s] \in Slot /\ Fits(task[s], doc, chunks) /\ doc' = doc
        /\ (task[s].kind # "none" => task[s].doc \in Docs)
    BY <1>1 DEF TasksFit, TypeInv, Types, BusyHasDoc
  <2>2. /\ y.kind = task[s].kind /\ y.doc = task[s].doc /\ y.ver = task[s].ver
        /\ y.pc = "orphaned"
    BY <2>1 DEF Slot
  <2>3. o[s] = IF task[s].pc = "embed" /\ task[s].doc = d /\ task[s].ver = v
               THEN y ELSE task[s]
    BY DEF Orphaned
  <2>4. o[t] = task[t]
    BY DEF Orphaned, At
  <2>5. task' = [o EXCEPT ![t] = z]
    OBVIOUS
  <2>6. o \in [Tasks -> Slot]
    BY <1>1, OrphanedType
  <2>7. z.kind = "ingest" /\ z.doc = d /\ z.pc = "chunked" /\ z.ver = v
    BY <1>1, <2>4 DEF Slot, At
  <2>. HIDE DEF o, y, z
  <2>8. CASE s = t
    <3>1. task'[s] = z /\ Fits(task[t], doc, chunks)
      BY <2>1, <2>5, <2>6, <2>8
    <3>2. First(d, doc) => chunks'[d][1].state = "active"
      BY <1>4
    <3>3. doc[d].life # "absent" /\ v <= doc[d].version
      BY <3>1, <1>1 DEF Fits
    <3>4. Fits(z, doc, chunks')
      BY <3>2, <3>3, <2>7 DEF Fits
    <3>. QED  BY <3>1, <3>4, <2>1
  <2>9. CASE s # t
    <3>1. task'[s] = o[s]
      BY <2>5, <2>6, <2>9
    <3>2. CASE task[s].doc # d \/ ~First(d, doc)
      BY <3>1, <3>2, <2>1, <2>2, <2>3, <1>3 DEF Fits, EmbedSteps
    <3>3. CASE task[s].doc = d /\ First(d, doc) /\ task[s].kind # "none"
      <4>1. task[s].ver = v
        BY <3>3, <1>1, <1>4, FirstHasVersionOne
      <4>2. /\ chunks'[d][1].state = "active"
            /\ task[s].kind = "embed" => task[s].pc # "promote"
        BY <3>3, <2>1, <1>4 DEF Fits
      <4>3. CASE task[s].pc = "embed"
        <5>1. task'[s] = y
          BY <4>1, <4>3, <3>1, <3>3, <2>3
        <5>2. Fits(y, doc, chunks')
          BY <4>2, <3>3, <2>1, <2>2 DEF Fits
        <5>. QED  BY <5>1, <5>2, <2>1
      <4>4. CASE task[s].pc # "embed"
        <5>1. task'[s] = task[s]
          BY <4>4, <3>1, <2>3
        <5>2. Fits(task[s], doc, chunks')
          BY <4>2, <4>4, <3>3, <2>1 DEF Fits
        <5>. QED  BY <5>1, <5>2, <2>1
      <4>. QED  BY <4>3, <4>4
    <3>4. CASE task[s].kind = "none"
      BY <3>1, <3>4, <2>2, <2>3 DEF Fits
    <3>. QED  BY <3>2, <3>3, <3>4
  <2>. QED  BY <2>8, <2>9
<1>. QED  BY <1>1, <1>5, <1>6 DEF FirstVersionInv, RowsFit, TasksFit, ScanFits

LEMMA IngestStep ==
  ASSUME FirstVersionInv, TypeInv', NEW t \in Tasks, Ingest(t)
  PROVE  FirstVersionInv'
<1>0. task[t].pc # "idle" /\ task[t].kind = "ingest"
  BY DEF Ingest, IngestStart, SetParsing, SetCleaned, SetChunked, Advance, ChunkStage,
         HandOff, FailPermanently, MarkIngestExhausted, FailIngest, At
<1>1. /\ TypeInv /\ Types /\ TasksFit /\ task[t].kind # "none" /\ task[t].doc \in Docs
      /\ Fits(task[t], doc, chunks)
  BY <1>0, AtBusy DEF FirstVersionInv, TypeInv, TasksFit
<1>2. CASE IngestStart(t)
  BY <1>1, <1>2, StartFits, SlotStep DEF IngestStart, Steps, IngestSteps, EmbedSteps
<1>3. ASSUME NEW from, NEW s, NEW to \in Steps, Advance(t, from, s, to),
             First(task[t].doc, doc) /\ (to = "chunked" \/ s \in Embeddable) =>
               chunks[task[t].doc][1].state = "active",
             s # "ready"
      PROVE  FirstVersionInv'
  <2>1. \A x \in Tasks : Fits(task'[x], doc, chunks)
    BY <1>0, <1>1, <1>3, GotoFits DEF Advance
  <2>2. SetStatus(task[t].doc, s, Statuses, Versions) /\ chunks' = chunks /\ scanned' = scanned
    BY <1>3 DEF Advance, SetStatusUnguarded
  <2>. QED  BY <2>1, <2>2, <1>1, <1>3, StatusStep
<1>4. CASE SetParsing(t)
  BY <1>3, <1>4 DEF SetParsing, Embeddable, Steps, IngestSteps
<1>5. CASE SetCleaned(t)
  BY <1>3, <1>5 DEF SetCleaned, Embeddable, Steps, IngestSteps
<1>6. CASE SetChunked(t)
  <2>1. First(task[t].doc, doc) => chunks[task[t].doc][1].state = "active"
    BY <1>0, <1>1, <1>6 DEF SetChunked, Advance, At, Fits
  <2>. QED  BY <2>1, <1>3, <1>6 DEF SetChunked, Steps, IngestSteps
<1>7. CASE ChunkStage(t)
  <2>1. CASE Protected(task[t].doc, task[t].ver)
    BY <2>1, <1>1, <1>7, RetryFits, SlotStep DEF ChunkStage
  <2>2. CASE ~Protected(task[t].doc, task[t].ver)
    BY <2>2, <1>7, ReplaceStep DEF ChunkStage
  <2>. QED  BY <2>1, <2>2
<1>8. CASE HandOff(t)
  <2>1. Send(Released(t), "embed", task[t].doc) /\ "embed" \in Queues
    BY <1>8 DEF HandOff, Queues
  <2>2. \A x \in Tasks : Fits(task'[x], doc, chunks)
    BY <2>1, <1>1, DoneFits, ReleasedType, SendFits DEF Fits
  <2>. QED  BY <2>2, <1>8, SlotStep DEF HandOff
<1>9. ASSUME NEW pc, FailIngest(t, pc)
      PROVE  FirstVersionInv'
  <2>1. \A x \in Tasks : Fits(task'[x], doc, chunks)
    BY <1>1, <1>9, DoneFits DEF FailIngest, Done
  <2>2. SetStatus(task[t].doc, "failed", Statuses, Versions) /\ chunks' = chunks /\ scanned' = scanned
    BY <1>9 DEF FailIngest, SetStatusUnguarded
  <2>. QED  BY <2>1, <2>2, <1>1, StatusStep DEF Embeddable
<1>. QED  BY <1>2, <1>4, <1>5, <1>6, <1>7, <1>8, <1>9
          DEF Ingest, FailPermanently, MarkIngestExhausted

(* One more batch is stored: the counters of the others stay right because *)
(* a group never loses a vector.                                           *)
LEMMA BatchStep ==
  ASSUME FirstVersionInv, TypeInv', NEW t \in Tasks, EmbedBatch(t)
  PROVE  FirstVersionInv'
<1>. DEFINE d == task[t].doc
            v == task[t].ver
            n == task[t].next
            w == IF chunks[d][v].vec < n THEN n ELSE chunks[d][v].vec
<1>1. /\ TypeInv /\ Types /\ RowsFit /\ TasksFit /\ ScanFits /\ task[t].kind # "none"
      /\ d \in Docs /\ v \in Versions /\ 1 \in Versions /\ task[t] \in Slot
      /\ Fits(task[t], doc, chunks) /\ At(t, "embed", "embed")
      /\ chunks \in [Docs -> [Versions -> Group]]
  <2>1. TypeInv /\ RowsFit /\ TasksFit /\ ScanFits
    BY DEF FirstVersionInv
  <2>2. Types /\ BusyHasDoc
    BY <2>1 DEF TypeInv
  <2>3. At(t, "embed", "embed")
    BY DEF EmbedBatch
  <2>4. task[t].kind # "none"
    BY <2>3 DEF At
  <2>5. d \in Docs
    BY <2>2, <2>4 DEF BusyHasDoc
  <2>6. task[t] \in Slot /\ chunks \in [Docs -> [Versions -> Group]]
    BY <2>2 DEF Types
  <2>7. v \in Versions
    BY <2>6 DEF Slot
  <2>8. 1 \in Versions
    BY BoundsAssumption DEF Versions
  <2>9. Fits(task[t], doc, chunks)
    BY <2>1 DEF TasksFit
  <2>. QED  BY <2>1, <2>2, <2>3, <2>4, <2>5, <2>6, <2>7, <2>8, <2>9
<1>2. n \in 1 .. Batches /\ chunks[d][v].vec \in 0 .. Batches /\ Batches \in Nat
  <2>1. chunks[d][v] \in Group
    BY <1>1
  <2>. QED  BY <2>1, <1>1, BoundsAssumption DEF Slot, Group
<1>3. w \in 0 .. Batches /\ w >= chunks[d][v].vec /\ w >= n
  BY <1>2
<1>4. chunks' = [chunks EXCEPT ![d] = [chunks[d] EXCEPT ![v] = [chunks[d][v] EXCEPT !.vec = w]]]
  BY <1>1 DEF EmbedBatch
<1>5. UNCHANGED <<doc, scanned>>
  BY DEF EmbedBatch
<1>. HIDE DEF w
<1>6. \A e \in Docs : /\ chunks'[e][1].state = chunks[e][1].state
                      /\ chunks'[e][1].vec \in 0 .. Batches
                      /\ chunks[e][1].vec \in 0 .. Batches
                      /\ chunks'[e][1].vec >= chunks[e][1].vec
  <2>. SUFFICES ASSUME NEW e \in Docs
                PROVE  /\ chunks'[e][1].state = chunks[e][1].state
                       /\ chunks'[e][1].vec \in 0 .. Batches
                       /\ chunks[e][1].vec \in 0 .. Batches
                       /\ chunks'[e][1].vec >= chunks[e][1].vec
    OBVIOUS
  <2>1. chunks[e][1] \in Group /\ chunks[e][1].vec \in 0 .. Batches
    BY <1>1 DEF Group
  <2>2. CASE e = d /\ v = 1
    <3>1. chunks'[e][1] = [chunks[d][v] EXCEPT !.vec = w]
      BY <2>2, <1>1, <1>4
    <3>2. chunks'[e][1].state = chunks[e][1].state /\ chunks'[e][1].vec = w
      BY <3>1, <2>1, <2>2 DEF Group
    <3>. QED  BY <3>2, <2>1, <2>2, <1>3
  <2>3. CASE ~(e = d /\ v = 1)
    <3>1. chunks'[e][1] = chunks[e][1]
      BY <2>3, <1>1, <1>4
    <3>. QED  BY <3>1, <2>1
  <2>. QED  BY <2>2, <2>3
<1>7. First(d, doc) => v = 1 /\ chunks'[d][1].vec >= n
  <2>1. First(d, doc) => v = 1
    BY <1>1, FirstHasVersionOne
  <2>2. v = 1 => chunks'[d][1].vec = w
    BY <1>1, <1>4 DEF Group
  <2>. QED  BY <2>1, <2>2, <1>3
<1>8. ASSUME NEW e \in Docs PROVE RowFits(e, doc', chunks')
  <2>1. RowFits(e, doc, chunks) /\ doc' = doc
    BY <1>1, <1>5 DEF RowsFit
  <2>. QED  BY <2>1, <1>2, <1>6 DEF RowFits
<1>9. ASSUME NEW x \in Slot, x.kind # "none" => x.doc \in Docs, Fits(x, doc, chunks)
      PROVE  Fits(x, doc, chunks')
  <2>1. x.next \in Nat
    BY BoundsAssumption DEF Slot
  <2>. QED  BY <2>1, <1>2, <1>6, <1>9 DEF Fits
<1>10. ASSUME NEW s \in Tasks PROVE Fits(task'[s], doc', chunks')
  <2>. DEFINE x == [task[t] EXCEPT !.next = n + 1]
              y == [task[t] EXCEPT !.next = 1, !.pc = "promote"]
  <2>1. /\ task' = [task EXCEPT ![t] = IF n < Batches THEN x ELSE y]
        /\ task \in [Tasks -> Slot]
    BY <1>1 DEF EmbedBatch, Types
  <2>2. /\ x.kind = "embed" /\ x.doc = d /\ x.ver = v /\ x.pc = "embed" /\ x.next = n + 1
        /\ y.kind = "embed" /\ y.doc = d /\ y.ver = v /\ y.pc = "promote"
    BY <1>1 DEF Slot, At
  <2>. HIDE DEF x, y
  <2>3. /\ doc[d].life # "absent" /\ v <= doc[d].version
        /\ First(d, doc) => chunks'[d][1].state = "active"
    BY <1>1, <1>6 DEF Fits, At, EmbedSteps
  <2>4. First(d, doc) => n + 1 <= chunks'[d][1].vec + 1
    BY <1>1, <1>2, <1>6, <1>7
  <2>5. n >= Batches /\ First(d, doc) => chunks'[d][1].vec = Batches
    BY <1>1, <1>2, <1>6, <1>7
  <2>6. Fits(x, doc, chunks') /\ (n >= Batches => Fits(y, doc, chunks'))
    BY <2>2, <2>3, <2>4, <2>5 DEF Fits
  <2>7. s # t => Fits(task[s], doc, chunks')
    BY <1>1, <1>9 DEF TypeInv, Types, BusyHasDoc, TasksFit
  <2>8. ~(n < Batches) => n >= Batches
    BY <1>2
  <2>. QED  BY <2>1, <2>6, <2>7, <2>8, <1>5
<1>. QED  BY <1>1, <1>5, <1>8, <1>10 DEF FirstVersionInv, RowsFit, TasksFit, ScanFits

LEMMA EmbedStep ==
  ASSUME FirstVersionInv, TypeInv', NEW t \in Tasks, Embed(t)
  PROVE  FirstVersionInv'
<1>0. task[t].pc # "idle" /\ task[t].kind = "embed"
  BY DEF Embed, EmbedStart, EnterEmbedding, ListPending, EmbedBatch, EmbedOrphaned,
         RefuseEmbed, Promote, MarkEmbedExhausted, Conclude, At
<1>. DEFINE d == task[t].doc
            v == task[t].ver
<1>1. /\ TypeInv /\ Types /\ RowsFit /\ TasksFit /\ task[t].kind # "none" /\ d \in Docs
      /\ task[t] \in Slot /\ Fits(task[t], doc, chunks) /\ RowFits(d, doc, chunks)
  BY <1>0, AtBusy DEF FirstVersionInv, TypeInv, TasksFit, RowsFit
<1>2. CASE EmbedStart(t)
  <2>1. CASE Visible(d) /\ doc[d].status \notin Embeddable
    BY <2>1, <1>1, <1>2, DoneFits, SlotStep DEF EmbedStart, Done
  <2>2. CASE ~(Visible(d) /\ doc[d].status \notin Embeddable)
    <3>1. First(d, doc) => chunks[d][1].state = "active"
      BY <2>2, <1>1 DEF RowFits, First, Visible
    <3>2. Start(t, "enter") /\ UNCHANGED <<doc, chunks, scanned>>
      BY <2>2, <1>2 DEF EmbedStart
    <3>. QED  BY <3>1, <3>2, <1>1, StartFits, SlotStep DEF Steps, EmbedSteps
  <2>. QED  BY <2>1, <2>2
<1>3. CASE EnterEmbedding(t)
  <2>1. First(d, doc) => chunks[d][1].state = "active"
    BY <1>1, <1>3 DEF EnterEmbedding, At, Fits, EmbedSteps
  <2>2. "list" \in Steps
    BY DEF Steps, EmbedSteps
  <2>3. Goto(t, "list") \/ Done(t)
    BY <1>3 DEF EnterEmbedding
  <2>4. \A x \in Tasks : Fits(task'[x], doc, chunks)
    BY <2>1, <2>2, <2>3, <1>1, GotoFits, DoneFits DEF Done
  <2>5. SetStatus(d, "embedding", Embeddable, {v}) /\ chunks' = chunks /\ scanned' = scanned
    BY <1>3 DEF EnterEmbedding
  <2>. QED  BY <2>1, <2>4, <2>5, <1>1, StatusStep
<1>4. CASE ListPending(t)
  <2>. DEFINE g == chunks[d][v]
              x == [task[t] EXCEPT !.pc = "embed", !.next = g.vec + 1]
              y == [task[t] EXCEPT !.pc = "promote"]
  <2>1. v \in Versions /\ g \in Group /\ g.vec \in 0 .. Batches /\ Batches \in Nat
    BY <1>1, BoundsAssumption DEF Types, Slot, Group
  <2>2. /\ task' = [task EXCEPT ![t] = IF g.state = "active" /\ g.vec < Batches THEN x ELSE y]
        /\ UNCHANGED <<doc, chunks, scanned>> /\ task[t].pc = "list"
        /\ task \in [Tasks -> Slot]
    BY <1>1, <1>4 DEF ListPending, At, Types
  <2>3. /\ x.kind = "embed" /\ x.doc = d /\ x.ver = v /\ x.pc = "embed" /\ x.next = g.vec + 1
        /\ y.kind = "embed" /\ y.doc = d /\ y.ver = v /\ y.pc = "promote"
    BY <1>0, <1>1 DEF Slot
  <2>4. /\ doc[d].life # "absent" /\ v <= doc[d].version
        /\ First(d, doc) => v = 1 /\ g.state = "active"
    BY <2>2, <1>0, <1>1, FirstHasVersionOne DEF Fits, EmbedSteps
  <2>. HIDE DEF x, y
  <2>5. Fits(x, doc, chunks)
    BY <2>1, <2>3, <2>4 DEF Fits
  <2>6. ~(g.state = "active" /\ g.vec < Batches) => Fits(y, doc, chunks)
    <3>1. First(d, doc) /\ ~(g.vec < Batches) => chunks[d][1].vec = Batches
      BY <2>1, <2>4
    <3>. QED  BY <3>1, <2>3, <2>4 DEF Fits
  <2>7. \A s \in Tasks : Fits(task'[s], doc, chunks)
    BY <2>2, <2>5, <2>6, <1>1 DEF TasksFit
  <2>. QED  BY <2>2, <2>7, SlotStep
<1>5. CASE EmbedBatch(t)
  BY <1>5, BatchStep
<1>6. CASE EmbedOrphaned(t)
  BY <1>1, <1>6, RetryFits, SlotStep DEF EmbedOrphaned
<1>7. ASSUME NEW pc, NEW s, NEW S, NEW V, Conclude(t, pc, s, S, V),
             s \in {"ready", "failed"},
             s = "ready" => pc = "promote"
      PROVE  FirstVersionInv'
  <2>1. \A x \in Tasks : Fits(task'[x], doc, chunks)
    BY <1>1, <1>7, DoneFits DEF Conclude, Done
  <2>2. SetStatus(d, s, S, V) /\ chunks' = chunks /\ scanned' = scanned /\ task[t].pc = pc
    BY <1>7 DEF Conclude, At
  <2>3. First(d, doc) /\ s = "ready" => chunks[d][1].state = "active" /\ chunks[d][1].vec = Batches
    BY <2>2, <1>0, <1>1, <1>7 DEF Fits, EmbedSteps
  <2>4. s \in Embeddable => s = "ready"
    BY <1>7 DEF Embeddable
  <2>. QED  BY <2>1, <2>2, <2>3, <2>4, <1>1, StatusStep
<1>8. CASE RefuseEmbed(t) \/ Promote(t) \/ MarkEmbedExhausted(t)
  BY <1>7, <1>8 DEF RefuseEmbed, Promote, MarkEmbedExhausted
<1>. QED  BY <1>2, <1>3, <1>4, <1>5, <1>6, <1>8 DEF Embed

LEMMA ExecuteStep ==
  ASSUME FirstVersionInv, TypeInv', NEW t \in Tasks, Execute(t)
  PROVE  FirstVersionInv'
<1>0. TypeInv /\ Types /\ TasksFit
  BY DEF FirstVersionInv, TypeInv
<1>1. CASE Defer(t)
  <2>1. /\ task[t].kind \in Queues /\ task[t].doc \in Docs /\ doc[task[t].doc].life # "absent"
    BY <1>0, <1>1, AtBusy DEF Defer, TasksFit, Fits
  <2>2. Send(Released(t), task[t].kind, task[t].doc) /\ UNCHANGED <<doc, chunks, scanned>>
    BY <1>1 DEF Defer
  <2>3. \A x \in Tasks : Fits(task'[x], doc, chunks)
    BY <2>1, <2>2, <1>0, DoneFits, ReleasedType, SendFits
  <2>. QED  BY <2>2, <2>3, SlotStep
<1>2. CASE TransientFailure(t)
  <2>1. task[t].kind # "none"
    BY <1>0, <1>2, AtBusy DEF TransientFailure, Working, IngestSteps, EmbedSteps
  <2>. QED  BY <2>1, <1>0, <1>2, RetryFits, SlotStep DEF TransientFailure
<1>. QED  BY <1>1, <1>2, IngestStep, EmbedStep DEF Execute

LEMMA FaultStep ==
  ASSUME FirstVersionInv, TypeInv', NEW t \in Tasks, Fault(t)
  PROVE  FirstVersionInv'
<1>1. task[t].pc # "idle"
  BY DEF Fault, Crash, Redeliver, LoseMessage, Working, IngestSteps, EmbedSteps
<1>2. /\ TypeInv /\ Types /\ TasksFit /\ task \in [Tasks -> Slot]
      /\ task[t].kind \in Queues /\ task[t].doc \in Docs /\ doc[task[t].doc].life # "absent"
  BY <1>1, AtBusy DEF FirstVersionInv, TypeInv, Types, TasksFit, Fits
<1>3. Fits(Restored(t), doc, chunks)
  BY <1>2, MessageFits DEF Restored
<1>4. UNCHANGED <<doc, chunks, scanned>>
  BY DEF Fault, Crash, Redeliver, LoseMessage
<1>5. \A x \in Tasks : Fits(task'[x], doc, chunks)
  BY <1>2, <1>3, DoneFits DEF Fault, Crash, Redeliver, LoseMessage, TasksFit
<1>. QED  BY <1>4, <1>5, SlotStep

(* Requests move one row on; the row they leave is no first version any    *)
(* more, or, for an upload, nobody has heard of it yet.                    *)
LEMMA UserStep ==
  ASSUME FirstVersionInv, TypeInv', NEW d \in Docs, User(d) \/ Age(d)
  PROVE  FirstVersionInv'
<1>1. /\ TypeInv /\ Types /\ RowsFit /\ TasksFit /\ ScanFits /\ "ingest" \in Queues
      /\ doc \in [Docs -> DocRow] /\ doc[d] \in DocRow /\ task \in [Tasks -> Slot]
      /\ \A t \in Tasks : task[t].kind # "none" => task[t].doc \in Docs
      /\ \A t \in Tasks : task[t].kind = "none" => task[t].pc = "idle"
      /\ \A e \in Docs : doc[e].version <= doc[e].version
  BY BoundsAssumption
     DEF FirstVersionInv, TypeInv, Types, Queues, BusyHasDoc, IdleHasNoStep, DocRow, Versions
<1>2. CASE Upload(d)
  <2>1. doc[d].life = "absent" /\ chunks' = chunks /\ scanned' = scanned /\ Send(task, "ingest", d)
    BY <1>2 DEF Upload
  <2>2. doc' = [doc EXCEPT ![d] = [doc[d] EXCEPT !.life = "live"]]
    BY <1>2 DEF Upload
  <2>3. /\ doc'[d].life = "live" /\ doc'[d].version = doc[d].version
        /\ doc'[d].status = doc[d].status
        /\ \A e \in Docs : e # d => doc'[e] = doc[e]
    BY <2>2, <1>1 DEF DocRow
  <2>4. Later(doc, doc')
    BY <2>1, <2>3, <1>1 DEF Later, First
  <2>5. ASSUME NEW e \in Docs PROVE RowFits(e, doc', chunks')
    BY <2>1, <2>3, <1>1 DEF RowsFit, RowFits, First, Embeddable
  <2>6. \A t \in Tasks : Fits(task[t], doc', chunks')
    BY <2>1, <2>4, <1>1, FitsLater DEF TypeInv, TasksFit
  <2>7. Types'
    BY DEF TypeInv
  <2>8. Fits(Message("ingest", d, 0), doc', chunks')
    <3>1. 1 <= doc'[d].version
      BY <2>7, BoundsAssumption DEF Types, DocRow, Versions
    <3>. QED  BY <3>1, <2>3 DEF Fits, Message, EmbedSteps
  <2>9. TasksFit'
    BY <2>1, <2>6, <2>8, <1>1 DEF TasksFit, Send
  <2>. QED  BY <2>1, <2>4, <2>5, <2>9, <1>1, ScanLater DEF FirstVersionInv, RowsFit
<1>3. ASSUME doc[d].life # "absent", doc'[d].life # "absent", ~First(d, doc'),
             doc[d].version <= doc'[d].version,
             \A e \in Docs : e # d => doc'[e] = doc[e],
             chunks' = Superseded(d), scanned' = scanned,
             \A t \in Tasks : Fits(task'[t], doc, chunks)
      PROVE  FirstVersionInv'
  <2>1. Later(doc, doc')
    BY <1>1, <1>3 DEF Later, First
  <2>2. \A e \in Docs : e # d => chunks'[e] = chunks[e]
    BY <1>1, <1>3 DEF Superseded, Types
  <2>3. \A e \in Docs : First(e, doc') => chunks'[e][1] = chunks[e][1]
    BY <2>2, <1>3
  <2>4. ASSUME NEW e \in Docs PROVE RowFits(e, doc', chunks')
    BY <2>2, <1>1, <1>3 DEF RowsFit, RowFits, First
  <2>. QED  BY <2>1, <2>3, <2>4, <1>1, <1>3, SlotsFitLater, ScanLater
            DEF FirstVersionInv, RowsFit
<1>4. CASE Reingest(d)
  <2>. DEFINE row == [doc[d] EXCEPT !.version = doc[d].version + 1,
                                    !.status = "uploaded", !.silent = FALSE]
  <2>1. /\ doc[d].life = "live" /\ chunks' = Superseded(d) /\ scanned' = scanned
        /\ doc' = [doc EXCEPT ![d] = row] /\ Send(task, "ingest", d)
    BY <1>4 DEF Reingest, Visible
  <2>2. row.life = "live" /\ row.version = doc[d].version + 1
    BY <2>1, <1>1 DEF DocRow
  <2>. HIDE DEF row
  <2>3. /\ doc'[d].life = "live" /\ doc'[d].version = doc[d].version + 1
        /\ \A e \in Docs : e # d => doc'[e] = doc[e]
    BY <2>1, <2>2, <1>1
  <2>4. doc[d].version <= doc'[d].version /\ doc'[d].version # 1
    BY <2>3, <1>1, BoundsAssumption DEF DocRow, Versions
  <2>5. \A t \in Tasks : Fits(task'[t], doc, chunks)
    BY <2>1, <1>1, SendFits DEF TasksFit
  <2>. QED  BY <2>1, <2>3, <2>4, <2>5, <1>3 DEF First
<1>5. CASE Delete(d)
  <2>1. /\ doc[d].life = "live" /\ chunks' = Superseded(d) /\ scanned' = scanned
        /\ doc' = [doc EXCEPT ![d] = [doc[d] EXCEPT !.life = "deleted"]] /\ task' = task
    BY <1>5 DEF Delete, Visible
  <2>2. /\ doc'[d].life = "deleted" /\ doc'[d].version = doc[d].version
        /\ \A e \in Docs : e # d => doc'[e] = doc[e]
    BY <2>1, <1>1 DEF DocRow
  <2>. QED  BY <2>1, <2>2, <1>1, <1>3 DEF First, TasksFit
<1>6. CASE Age(d)
  <2>1. /\ UNCHANGED <<chunks, task, scanned>>
        /\ doc' = [doc EXCEPT ![d] = [doc[d] EXCEPT !.silent = TRUE]]
    BY <1>6 DEF Age
  <2>2. \A e \in Docs : /\ doc'[e].life = doc[e].life /\ doc'[e].version = doc[e].version
                        /\ doc'[e].status = doc[e].status
    BY <2>1, <1>1 DEF DocRow
  <2>3. Later(doc, doc')
    BY <2>2, <1>1 DEF Later, First
  <2>4. ASSUME NEW e \in Docs PROVE RowFits(e, doc', chunks')
    BY <2>1, <2>2, <1>1 DEF RowsFit, RowFits, First
  <2>5. \A t \in Tasks : Fits(task'[t], doc, chunks)
    BY <2>1, <1>1 DEF TasksFit
  <2>. QED  BY <2>1, <2>3, <2>4, <2>5, <1>1, SlotsFitLater, ScanLater
            DEF FirstVersionInv, RowsFit
<1>. QED  BY <1>2, <1>4, <1>5, <1>6 DEF User

LEMMA BeatStep ==
  ASSUME FirstVersionInv, TypeInv', Beat
  PROVE  FirstVersionInv'
<1>1. TypeInv /\ Types /\ RowsFit /\ TasksFit /\ ScanFits /\ task \in [Tasks -> Slot]
  BY DEF FirstVersionInv, TypeInv, Types
<1>2. CASE ScanStuck
  <2>1. ScanFits'
    BY <1>2 DEF ScanFits, ScanStuck, Stuck, Visible
  <2>. QED  BY <2>1, <1>1, <1>2 DEF ScanStuck, FirstVersionInv, RowsFit, TasksFit
<1>3. CASE SendRescued
  <2>1. PICK r \in scanned : /\ scanned' = scanned \ {r}
                             /\ Send(task, r[2], r[1])
                             /\ UNCHANGED <<doc, chunks>>
    BY <1>3 DEF SendRescued
  <2>2. r[1] \in Docs /\ r[2] \in Queues /\ doc[r[1]].life # "absent"
    BY <1>1 DEF Types, ScanFits
  <2>3. \A t \in Tasks : Fits(task'[t], doc, chunks)
    BY <2>1, <2>2, <1>1, SendFits DEF TasksFit
  <2>. QED  BY <2>1, <2>3, <1>1 DEF FirstVersionInv, RowsFit, TasksFit, ScanFits
<1>4. CASE Cleanup
  <2>. DEFINE purged == {g \in Docs \X Versions : Purgeable(g[1], g[2])}
  <2>1. /\ chunks' = [e \in Docs |-> [w \in Versions |->
                       IF <<e, w>> \in purged THEN NoRows ELSE chunks[e][w]]]
        /\ task' = Orphaned(purged) /\ UNCHANGED <<doc, scanned>>
    BY <1>4 DEF Cleanup
  <2>2. 1 \in Versions
    BY BoundsAssumption DEF Versions
  <2>3. \A e \in Docs : First(e, doc) => <<e, 1>> \notin purged /\ chunks'[e][1] = chunks[e][1]
    <3>1. \A e \in Docs : First(e, doc) => <<e, 1>> \notin purged
      BY <1>1 DEF RowsFit, RowFits, Purgeable
    <3>. QED  BY <3>1, <2>1, <2>2
  <2>4. ASSUME NEW e \in Docs PROVE RowFits(e, doc', chunks')
    <3>1. chunks'[e][1] = chunks[e][1] \/ chunks'[e][1] = NoRows
      BY <2>1, <2>2
    <3>. QED  BY <3>1, <2>1, <2>3, <1>1 DEF RowsFit, RowFits, NoRows, First
  <2>5. ASSUME NEW t \in Tasks PROVE Fits(task'[t], doc', chunks')
    <3>. DEFINE y == [task[t] EXCEPT !.pc = "orphaned", !.next = 1]
    <3>1. /\ task[t] \in Slot /\ Fits(task[t], doc, chunks)
          /\ (task[t].kind # "none" => task[t].doc \in Docs)
      BY <1>1 DEF TasksFit, TypeInv, Types, BusyHasDoc
    <3>2. /\ y.kind = task[t].kind /\ y.doc = task[t].doc /\ y.ver = task[t].ver
          /\ y.pc = "orphaned"
      BY <3>1 DEF Slot
    <3>3. (task'[t] = y /\ task[t].pc = "embed") \/ task'[t] = task[t]
      BY <2>1 DEF Orphaned
    <3>. HIDE DEF y, purged
    <3>4. Fits(task[t], doc, chunks')
      BY <2>3, <3>1 DEF Fits
    <3>5. task[t].pc = "embed" => Fits(y, doc, chunks')
      BY <3>2, <3>4 DEF Fits, EmbedSteps
    <3>. QED  BY <3>3, <3>4, <3>5, <2>1
  <2>. QED  BY <2>1, <2>4, <2>5, <1>1 DEF FirstVersionInv, RowsFit, TasksFit, ScanFits
<1>. QED  BY <1>2, <1>3, <1>4 DEF Beat

-----------------------------------------------------------------------------
LEMMA FirstVersionInit == Init => FirstVersionInv
<1>. SUFFICES ASSUME Init PROVE FirstVersionInv
  OBVIOUS
<1>1. TypeInv
  BY TypeInvInit
<1>2. RowsFit
  BY BoundsAssumption DEF Init, RowsFit, RowFits, First, NoRows, Versions
<1>3. TasksFit
  BY IdleFits DEF Init, TasksFit
<1>4. ScanFits
  BY DEF Init, ScanFits
<1>. QED  BY <1>1, <1>2, <1>3, <1>4 DEF FirstVersionInv

LEMMA FirstVersionNext == FirstVersionInv /\ [Next]_vars => FirstVersionInv'
<1>. SUFFICES ASSUME FirstVersionInv, [Next]_vars PROVE FirstVersionInv'
  OBVIOUS
<1>1. TypeInv'
  BY TypeInvNext DEF FirstVersionInv
<1>2. CASE Next
  BY <1>1, <1>2, ExecuteStep, FaultStep, UserStep, BeatStep DEF Next
<1>3. CASE UNCHANGED vars
  BY <1>1, <1>3 DEF vars, FirstVersionInv, RowsFit, TasksFit, ScanFits
<1>. QED  BY <1>2, <1>3

(* A document that was never re-ingested and says ready has all its chunks *)
(* active and all its vectors stored, for any number of documents,         *)
(* duplicated messages, retries, crashes and rescues (embedding.py:        *)
(* promote; knowledge.py: replace_for_version).                            *)
THEOREM FirstVersionSafe == Spec => []FirstVersionReadyIsSearchable
<1>1. FirstVersionInv => FirstVersionReadyIsSearchable
  BY DEF FirstVersionInv, RowsFit, RowFits, First, FirstVersionReadyIsSearchable, Visible,
         Embeddable
<1>. QED  BY <1>1, FirstVersionInit, FirstVersionNext, PTL DEF Spec

-----------------------------------------------------------------------------
(***************************************************************************)
(* InProgressHasTask: nobody rescues parsing, cleaned and embedding,       *)
(* because a message of the document is always still there.  The theorem   *)
(* needs what its violation run shows to be needed: a broker that keeps    *)
(* what it accepted, and slots enough that no execution is deferred.       *)
(***************************************************************************)

Enough == /\ IsFiniteSet(Tasks) /\ SlotCap >= Cardinality(Tasks)
          /\ LossyBroker = FALSE

(* A slot whose message and snapshot did not change. *)
Keeps(s) ==
  /\ task'[s].kind = task[s].kind /\ task'[s].doc = task[s].doc
  /\ task'[s].ver = task[s].ver
  /\ \/ task'[s].pc = task[s].pc
     \/ task[s].pc = "embed" /\ task'[s].pc = "orphaned"

-----------------------------------------------------------------------------
(* A queued message does not run, so fewer than all slots do. *)
LEMMA NeverLimited ==
  ASSUME Enough, TypeInv, NEW t \in Tasks, task[t].pc = "queued", NEW k
  PROVE  ~Limited(k)
<1>1. Running(k) \subseteq Tasks \ {t}
  BY DEF Running, Working, IngestSteps, EmbedSteps
<1>2. /\ IsFiniteSet(Tasks \ {t})
      /\ Cardinality(Tasks \ {t}) = Cardinality(Tasks) - 1
      /\ Cardinality(Tasks) \in Nat
  BY FS_RemoveElement, FS_CardinalityType DEF Enough
<1>3. /\ Cardinality(Running(k)) <= Cardinality(Tasks \ {t})
      /\ Cardinality(Running(k)) \in Nat
  BY <1>1, <1>2, FS_Subset, FS_CardinalityType
<1>. QED  BY <1>2, <1>3, BoundsAssumption DEF Limited, Enough

LEMMA KeptWitness ==
  ASSUME NEW s \in Tasks, NEW d \in Docs, Keeps(s), doc'[d].version = doc[d].version
  PROVE  /\ WillIngest(s, d) => WillIngest(s, d)'
         /\ WillEmbed(s, d) => WillEmbed(s, d)'
BY DEF Keeps, WillIngest, WillEmbed, EmbedSteps

(* One execution moves, and at most the status of its document.            *)
LEMMA ExecutionStep ==
  ASSUME InProgressHasTask, Types, NEW t \in Tasks, NEW d \in Docs, task[t].doc = d,
         \A s \in Tasks : s # t /\ task[s].kind # "none" => Keeps(s),
         \A e \in Docs : /\ doc'[e].version = doc[e].version
                         /\ doc'[e].life = doc[e].life
                         /\ e # d => doc'[e] = doc[e],
         Visible(d) /\ doc'[d].status \in {"parsing", "cleaned"} =>
           \/ WillIngest(t, d)'
           \/ doc'[d].status = doc[d].status /\ ~WillIngest(t, d),
         Visible(d) /\ doc'[d].status = "embedding" =>
           \/ WillEmbed(t, d)'
           \/ doc'[d].status = doc[d].status /\ ~WillEmbed(t, d)
  PROVE  InProgressHasTask'
<1>1. ASSUME NEW e \in Docs, NEW s \in Tasks, s # t \/ e # d
      PROVE  /\ WillIngest(s, e) => WillIngest(s, e)'
             /\ WillEmbed(s, e) => WillEmbed(s, e)'
  <2>1. CASE s = t
    BY <1>1, <2>1 DEF WillIngest, WillEmbed
  <2>2. CASE s # t
    <3>1. WillIngest(s, e) \/ WillEmbed(s, e) => Keeps(s)
      BY <2>2 DEF WillIngest, WillEmbed
    <3>. QED  BY <3>1, KeptWitness
  <2>. QED  BY <2>1, <2>2
<1>2. ASSUME NEW e \in Docs, Visible(e)',
             doc'[e].status \in {"parsing", "cleaned"}
      PROVE  \E s \in Tasks : WillIngest(s, e)'
  <2>1. Visible(e)
    BY <1>2 DEF Visible
  <2>2. CASE e # d
    BY <2>1, <2>2, <1>1, <1>2 DEF InProgressHasTask
  <2>3. CASE e = d /\ doc'[d].status = doc[d].status /\ ~WillIngest(t, d)
    BY <2>1, <2>3, <1>1, <1>2 DEF InProgressHasTask
  <2>. QED  BY <2>1, <2>2, <2>3, <1>2
<1>3. ASSUME NEW e \in Docs, Visible(e)', doc'[e].status = "embedding"
      PROVE  \E s \in Tasks : WillEmbed(s, e)'
  <2>1. Visible(e)
    BY <1>3 DEF Visible
  <2>2. CASE e # d
    BY <2>1, <2>2, <1>1, <1>3 DEF InProgressHasTask
  <2>3. CASE e = d /\ doc'[d].status = doc[d].status /\ ~WillEmbed(t, d)
    BY <2>1, <2>3, <1>1, <1>3 DEF InProgressHasTask
  <2>. QED  BY <2>1, <2>2, <2>3, <1>3
<1>. QED  BY <1>2, <1>3 DEF InProgressHasTask

(* How the ways to end or move an execution change the slots.              *)
LEMMA MoveKeeps ==
  ASSUME TypeInv, NEW t \in Tasks, NEW x, task' = [task EXCEPT ![t] = x]
  PROVE  task'[t] = x /\ \A s \in Tasks : s # t => Keeps(s)
BY DEF TypeInv, Types, Keeps

LEMMA GotoKeeps ==
  ASSUME TypeInv, NEW t \in Tasks, NEW pc, Goto(t, pc)
  PROVE  /\ \A s \in Tasks : s # t => Keeps(s)
         /\ task'[t].kind = task[t].kind /\ task'[t].doc = task[t].doc
         /\ task'[t].ver = task[t].ver /\ task'[t].pc = pc
<1>. DEFINE x == [task[t] EXCEPT !.pc = pc]
<1>1. task' = [task EXCEPT ![t] = x] /\ task[t] \in Slot
  BY DEF Goto, TypeInv, Types
<1>2. x.kind = task[t].kind /\ x.doc = task[t].doc /\ x.ver = task[t].ver /\ x.pc = pc
  BY <1>1 DEF Slot
<1>. HIDE DEF x
<1>. QED  BY <1>1, <1>2, MoveKeeps

LEMMA RetryKeeps ==
  ASSUME TypeInv, NEW t \in Tasks, Retry(t)
  PROVE  /\ \A s \in Tasks : s # t => Keeps(s)
         /\ task'[t].kind = task[t].kind /\ task'[t].doc = task[t].doc
         /\ task'[t].pc \in {"queued", "exhausted"}
<1>. DEFINE x == IF task[t].retries < MaxRetries
                 THEN Message(task[t].kind, task[t].doc, task[t].retries + 1)
                 ELSE [task[t] EXCEPT !.pc = "exhausted"]
<1>1. task' = [task EXCEPT ![t] = x] /\ task[t] \in Slot
  BY DEF Retry, TypeInv, Types
<1>2. x.kind = task[t].kind /\ x.doc = task[t].doc /\ x.pc \in {"queued", "exhausted"}
  BY <1>1 DEF Slot, Message
<1>. HIDE DEF x
<1>. QED  BY <1>1, <1>2, MoveKeeps

LEMMA SendKeeps ==
  ASSUME TypeInv, NEW slots \in [Tasks -> Slot], NEW k, NEW d, Send(slots, k, d)
  PROVE  \A s \in Tasks : slots[s].kind # "none" /\ slots[s] = task[s] => Keeps(s)
BY DEF Send, Keeps

LEMMA DoneKeeps ==
  ASSUME TypeInv, NEW t \in Tasks, Done(t)
  PROVE  \A s \in Tasks : s # t => Keeps(s)
BY MoveKeeps DEF Done, Released

LEMMA OrphanedKeeps ==
  ASSUME TypeInv, NEW g, task' = Orphaned(g)
  PROVE  \A s \in Tasks : Keeps(s)
<1>. SUFFICES ASSUME NEW s \in Tasks PROVE Keeps(s)
  OBVIOUS
<1>. DEFINE y == [task[s] EXCEPT !.pc = "orphaned", !.next = 1]
<1>1. /\ y.kind = task[s].kind /\ y.doc = task[s].doc /\ y.ver = task[s].ver
      /\ y.pc = "orphaned"
  BY DEF Slot, TypeInv, Types
<1>2. (task'[s] = y /\ task[s].pc = "embed") \/ task'[s] = task[s]
  BY DEF Orphaned
<1>. HIDE DEF y
<1>. QED  BY <1>1, <1>2 DEF Keeps

-----------------------------------------------------------------------------
(* Every action keeps a task for every document in progress. *)

LEMMA ProgressIngest ==
  ASSUME Enough, TypeInv, InProgressHasTask, NEW t \in Tasks, Ingest(t),
         NEW d \in Docs, task[t].doc = d
  PROVE  InProgressHasTask'
<1>0. task[t].pc # "idle" /\ task[t].kind = "ingest"
  BY DEF Ingest, IngestStart, SetParsing, SetCleaned, SetChunked, Advance, ChunkStage,
         HandOff, FailPermanently, MarkIngestExhausted, FailIngest, At
<1>1. /\ d \in Docs /\ Types /\ task[t] \in Slot /\ doc \in [Docs -> DocRow]
      /\ task \in [Tasks -> Slot]
      /\ ~WillEmbed(t, d) /\ (task[t].pc # "handoff" => WillIngest(t, d))
  BY <1>0, AtBusy DEF TypeInv, Types, WillEmbed, WillIngest
<1>2. CASE IngestStart(t)
  <2>1. CASE Visible(d)
    <3>. DEFINE x == [task[t] EXCEPT !.pc = "parse", !.ver = doc[d].version]
    <3>1. task' = [task EXCEPT ![t] = x] /\ doc' = doc
      BY <1>2, <2>1 DEF IngestStart, Start
    <3>2. x.kind = "ingest" /\ x.doc = d /\ x.pc = "parse"
      BY <1>0, <1>1 DEF Slot
    <3>. HIDE DEF x
    <3>3. task'[t] = x /\ \A s \in Tasks : s # t => Keeps(s)
      BY <3>1, MoveKeeps
    <3>4. WillIngest(t, d)'
      BY <3>2, <3>3 DEF WillIngest
    <3>. QED  BY <3>1, <3>3, <3>4, <1>1, ExecutionStep
  <2>2. CASE ~Visible(d)
    <3>1. Done(t) /\ doc' = doc
      BY <1>2, <2>2 DEF IngestStart, Start
    <3>. QED  BY <3>1, <2>2, <1>1, DoneKeeps, ExecutionStep
  <2>. QED  BY <2>1, <2>2
<1>3. ASSUME NEW from, NEW st, NEW to, Advance(t, from, st, to),
             st \notin {"embedding"}, to # "handoff" \/ st = "chunked",
             Visible(d) => doc[d].status \in Statuses /\ doc[d].version \in Versions
      PROVE  InProgressHasTask'
  <2>1. SetStatus(d, st, Statuses, Versions) /\ Goto(t, to)
    BY <1>3 DEF Advance, SetStatusUnguarded
  <2>2. /\ \A s \in Tasks : s # t => Keeps(s)
        /\ task'[t].kind = "ingest" /\ task'[t].doc = d /\ task'[t].pc = to
    BY <2>1, <1>0, GotoKeeps
  <2>3. /\ \A e \in Docs : /\ doc'[e].life = doc[e].life /\ doc'[e].version = doc[e].version
                           /\ e # d => doc'[e] = doc[e]
        /\ doc'[d].status = IF Matches(d, Statuses, Versions) THEN st ELSE doc[d].status
    BY <2>1, <1>1, SetStatusLater
  <2>4. Visible(d) => doc'[d].status = st
    BY <2>3, <1>3 DEF Matches
  <2>5. Visible(d) /\ doc'[d].status \in {"parsing", "cleaned"} => WillIngest(t, d)'
    BY <2>2, <2>4, <1>3 DEF WillIngest
  <2>6. ~(Visible(d) /\ doc'[d].status = "embedding")
    BY <2>4, <1>3
  <2>7. \A s \in Tasks : s # t /\ task[s].kind # "none" => Keeps(s)
    BY <2>2
  <2>. QED  BY <2>3, <2>5, <2>6, <2>7, <1>1, ExecutionStep
<1>4. doc[d].status \in Statuses /\ doc[d].version \in Versions
  BY <1>1 DEF DocRow
<1>5. CASE SetParsing(t) \/ SetCleaned(t) \/ SetChunked(t)
  BY <1>3, <1>4, <1>5 DEF SetParsing, SetCleaned, SetChunked
<1>6. CASE ChunkStage(t)
  <2>1. doc' = doc
    BY <1>6 DEF ChunkStage
  <2>2. CASE Protected(d, task[t].ver)
    <3>1. Retry(t)
      BY <1>6, <2>2 DEF ChunkStage
    <3>2. WillIngest(t, d)'
      BY <3>1, <1>0, RetryKeeps DEF WillIngest
    <3>. QED  BY <3>1, <3>2, <2>1, <1>1, RetryKeeps, ExecutionStep
  <2>3. CASE ~Protected(d, task[t].ver)
    <3>. DEFINE o == Orphaned({<<d, task[t].ver>>})
                z == [o[t] EXCEPT !.pc = "chunked"]
    <3>1. task' = [o EXCEPT ![t] = z] /\ o \in [Tasks -> Slot]
      BY <1>6, <2>3, OrphanedType DEF ChunkStage
    <3>2. o[t] = task[t]
      BY <1>6 DEF Orphaned, ChunkStage, At
    <3>3. z.kind = "ingest" /\ z.doc = d /\ z.pc = "chunked"
      BY <3>2, <1>0, <1>1 DEF Slot
    <3>4. \A s \in Tasks : s # t => Keeps(s)
      <4>. SUFFICES ASSUME NEW s \in Tasks, s # t PROVE Keeps(s)
        OBVIOUS
      <4>. DEFINE y == [task[s] EXCEPT !.pc = "orphaned", !.next = 1]
      <4>1. /\ y.kind = task[s].kind /\ y.doc = task[s].doc /\ y.ver = task[s].ver
            /\ y.pc = "orphaned"
        BY <1>1 DEF Slot
      <4>2. (o[s] = y /\ task[s].pc = "embed") \/ o[s] = task[s]
        BY DEF Orphaned
      <4>. HIDE DEF o, y, z
      <4>3. task'[s] = o[s]
        BY <3>1
      <4>. QED  BY <4>1, <4>2, <4>3 DEF Keeps
    <3>5. task'[t] = z
      BY <3>1
    <3>. HIDE DEF o, z
    <3>6. WillIngest(t, d)'
      BY <3>3, <3>5 DEF WillIngest
    <3>. QED  BY <3>4, <3>6, <2>1, <1>1, ExecutionStep
  <2>. QED  BY <2>2, <2>3
<1>7. CASE HandOff(t)
  <2>1. Send(Released(t), "embed", d) /\ doc' = doc /\ ~WillIngest(t, d)
    BY <1>7 DEF HandOff, At, WillIngest
  <2>2. \A s \in Tasks : s # t => Released(t)[s] = task[s]
    BY <1>1 DEF Released
  <2>3. \A s \in Tasks : s # t /\ task[s].kind # "none" => Keeps(s)
    BY <2>1, <2>2, ReleasedType, SendKeeps
  <2>. QED  BY <2>1, <2>3, <1>1, ExecutionStep
<1>8. ASSUME NEW pc, FailIngest(t, pc) PROVE InProgressHasTask'
  <2>1. SetStatus(d, "failed", Statuses, Versions) /\ Done(t)
    BY <1>8 DEF FailIngest, SetStatusUnguarded
  <2>2. /\ \A e \in Docs : /\ doc'[e].life = doc[e].life /\ doc'[e].version = doc[e].version
                           /\ e # d => doc'[e] = doc[e]
        /\ doc'[d].status = IF Matches(d, Statuses, Versions) THEN "failed" ELSE doc[d].status
    BY <2>1, <1>1, SetStatusLater
  <2>3. Visible(d) => doc'[d].status \notin {"parsing", "cleaned", "embedding"}
    BY <2>2, <1>4 DEF Matches
  <2>4. \A s \in Tasks : s # t /\ task[s].kind # "none" => Keeps(s)
    BY <2>1, DoneKeeps
  <2>. QED  BY <2>2, <2>3, <2>4, <1>1, ExecutionStep
<1>. QED  BY <1>2, <1>5, <1>6, <1>7, <1>8 DEF Ingest, FailPermanently, MarkIngestExhausted

LEMMA ProgressEmbed ==
  ASSUME Enough, TypeInv, InProgressHasTask, NEW t \in Tasks, Embed(t),
         NEW d \in Docs, task[t].doc = d
  PROVE  InProgressHasTask'
<1>0. task[t].pc # "idle" /\ task[t].kind = "embed"
  BY DEF Embed, EmbedStart, EnterEmbedding, ListPending, EmbedBatch, EmbedOrphaned,
         RefuseEmbed, Promote, MarkEmbedExhausted, Conclude, At
<1>1. /\ d \in Docs /\ Types /\ task[t] \in Slot /\ doc \in [Docs -> DocRow]
      /\ task \in [Tasks -> Slot] /\ ~WillIngest(t, d)
      /\ doc[d].status \in Statuses /\ doc[d].version \in Versions
  BY <1>0, AtBusy DEF TypeInv, Types, WillIngest, DocRow
<1>2. CASE EmbedStart(t)
  <2>1. doc' = doc
    BY <1>2 DEF EmbedStart
  <2>2. CASE Done(t) /\ (Visible(d) => doc[d].status # "embedding")
    BY <2>1, <2>2, <1>1, DoneKeeps, ExecutionStep
  <2>3. CASE Visible(d) /\ doc[d].status \in Embeddable
    <3>. DEFINE x == [task[t] EXCEPT !.pc = "enter", !.ver = doc[d].version]
    <3>1. task' = [task EXCEPT ![t] = x]
      BY <1>2, <2>3 DEF EmbedStart, Start
    <3>2. x.kind = "embed" /\ x.doc = d /\ x.ver = doc[d].version
      BY <1>0, <1>1 DEF Slot
    <3>. HIDE DEF x
    <3>3. task'[t] = x /\ \A s \in Tasks : s # t => Keeps(s)
      BY <3>1, MoveKeeps
    <3>4. WillEmbed(t, d)'
      BY <3>2, <3>3, <2>1 DEF WillEmbed
    <3>. QED  BY <2>1, <3>3, <3>4, <1>1, ExecutionStep
  <2>. QED  BY <2>2, <2>3, <1>2 DEF EmbedStart, Start, Embeddable
(* Executions that go on keep their snapshot and stay with the document.   *)
<1>3. ASSUME doc' = doc, \A s \in Tasks : s # t => Keeps(s),
             task'[t].kind = "embed", task'[t].doc = d,
             task[t].pc \in EmbedSteps,
             task'[t].ver = task[t].ver \/ task'[t].pc \notin EmbedSteps
      PROVE  InProgressHasTask'
  <2>1. WillEmbed(t, d) => WillEmbed(t, d)'
    BY <1>0, <1>3 DEF WillEmbed
  <2>. QED  BY <2>1, <1>1, <1>3, ExecutionStep
<1>4. CASE EnterEmbedding(t)
  <2>. DEFINE mine == {task[t].ver}
  <2>1. SetStatus(d, "embedding", Embeddable, mine) /\ task[t].pc = "enter"
    BY <1>4 DEF EnterEmbedding, At
  <2>2. /\ \A e \in Docs : /\ doc'[e].life = doc[e].life /\ doc'[e].version = doc[e].version
                           /\ e # d => doc'[e] = doc[e]
        /\ doc'[d].status = IF Matches(d, Embeddable, mine) THEN "embedding" ELSE doc[d].status
    BY <2>1, <1>1, SetStatusLater
  <2>3. CASE Matches(d, Embeddable, mine)
    <3>1. Goto(t, "list") /\ doc[d].version = task[t].ver
      BY <2>3, <1>4 DEF EnterEmbedding, Matches
    <3>2. WillEmbed(t, d)'
      BY <3>1, <2>2, <1>0, <1>1, GotoKeeps DEF WillEmbed
    <3>3. \A s \in Tasks : s # t /\ task[s].kind # "none" => Keeps(s)
      BY <3>1, GotoKeeps
    <3>4. doc'[d].status \notin {"parsing", "cleaned"}
      BY <2>2, <2>3
    <3>. QED  BY <3>2, <3>3, <3>4, <2>2, <1>1, ExecutionStep
  <2>4. CASE ~Matches(d, Embeddable, mine)
    <3>1. Done(t)
      BY <2>4, <1>4 DEF EnterEmbedding
    <3>2. Visible(d) /\ doc[d].status = "embedding" => ~WillEmbed(t, d)
      BY <2>1, <2>4 DEF Matches, Embeddable, WillEmbed, EmbedSteps
    <3>3. \A s \in Tasks : s # t /\ task[s].kind # "none" => Keeps(s)
      BY <3>1, DoneKeeps
    <3>4. doc' = doc
      BY <2>1, <2>4 DEF SetStatus
    <3>. QED  BY <3>2, <3>3, <3>4, <1>1, ExecutionStep
  <2>. QED  BY <2>3, <2>4
<1>5. CASE ListPending(t)
  <2>. DEFINE g == chunks[d][task[t].ver]
              x == [task[t] EXCEPT !.pc = "embed", !.next = g.vec + 1]
              y == [task[t] EXCEPT !.pc = "promote"]
              z == IF g.state = "active" /\ g.vec < Batches THEN x ELSE y
  <2>1. task' = [task EXCEPT ![t] = z] /\ doc' = doc /\ task[t].pc = "list"
    BY <1>5 DEF ListPending, At
  <2>2. z.kind = "embed" /\ z.doc = d /\ z.ver = task[t].ver
    BY <1>0, <1>1 DEF Slot
  <2>. HIDE DEF z
  <2>. QED  BY <2>1, <2>2, <1>3, MoveKeeps DEF EmbedSteps
<1>6. CASE EmbedBatch(t)
  <2>. DEFINE n == task[t].next
              x == [task[t] EXCEPT !.next = n + 1]
              y == [task[t] EXCEPT !.next = 1, !.pc = "promote"]
              z == IF n < Batches THEN x ELSE y
  <2>1. task' = [task EXCEPT ![t] = z] /\ doc' = doc /\ task[t].pc = "embed"
    BY <1>6 DEF EmbedBatch, At
  <2>2. z.kind = "embed" /\ z.doc = d /\ z.ver = task[t].ver
    BY <1>0, <1>1 DEF Slot
  <2>. HIDE DEF z
  <2>. QED  BY <2>1, <2>2, <1>3, MoveKeeps DEF EmbedSteps
<1>7. CASE EmbedOrphaned(t)
  <2>1. Retry(t) /\ doc' = doc /\ task[t].pc = "orphaned"
    BY <1>7 DEF EmbedOrphaned, At
  <2>. QED  BY <2>1, <1>0, <1>3, RetryKeeps DEF EmbedSteps
(* A conditional last write: where it misses, the execution was not the    *)
(* one the status is waiting for.                                          *)
<1>8. ASSUME NEW pc, NEW st \in {"ready", "failed"}, NEW S, NEW V, Conclude(t, pc, st, S, V),
             "embedding" \in S,
             \/ V = {task[t].ver} /\ pc \in EmbedSteps
             \/ V = Versions
      PROVE  InProgressHasTask'
  <2>1. SetStatus(d, st, S, V) /\ Done(t) /\ task[t].pc = pc
    BY <1>8 DEF Conclude, At
  <2>2. /\ \A e \in Docs : /\ doc'[e].life = doc[e].life /\ doc'[e].version = doc[e].version
                           /\ e # d => doc'[e] = doc[e]
        /\ doc'[d].status = IF Matches(d, S, V) THEN st ELSE doc[d].status
    BY <2>1, <1>1, SetStatusLater
  <2>3. Visible(d) /\ doc'[d].status = "embedding" =>
          doc'[d].status = doc[d].status /\ ~WillEmbed(t, d)
    <3>. SUFFICES ASSUME Visible(d), doc'[d].status = "embedding"
                  PROVE  doc'[d].status = doc[d].status /\ ~WillEmbed(t, d)
      OBVIOUS
    <3>1. ~Matches(d, S, V) /\ doc'[d].status = doc[d].status
      BY <2>2, <1>8
    <3>2. doc[d].version \notin V
      BY <3>1, <1>8 DEF Matches
    <3>. QED  BY <3>1, <3>2, <2>1, <1>1, <1>8 DEF WillEmbed
  <2>4. doc'[d].status \in {"parsing", "cleaned"} => doc'[d].status = doc[d].status
    BY <2>2, <1>8
  <2>. QED  BY <2>1, <2>2, <2>3, <2>4, <1>1, DoneKeeps, ExecutionStep
<1>9. CASE RefuseEmbed(t) \/ Promote(t) \/ MarkEmbedExhausted(t)
  BY <1>8, <1>9 DEF RefuseEmbed, Promote, MarkEmbedExhausted, EmbedSteps, Statuses
<1>. QED  BY <1>2, <1>4, <1>5, <1>6, <1>7, <1>9 DEF Embed

(* Steps outside any execution: slots keep what they have, and no document *)
(* comes to be in progress.                                                *)
LEMMA OutsideStep ==
  ASSUME InProgressHasTask,
         \A s \in Tasks : task[s].kind # "none" => Keeps(s),
         \A e \in Docs : Visible(e)' /\ doc'[e].status \in InProgress =>
           /\ Visible(e) /\ doc'[e].status = doc[e].status
           /\ doc'[e].version = doc[e].version
  PROVE  InProgressHasTask'
<1>1. ASSUME NEW e \in Docs, Visible(e)', doc'[e].status \in {"parsing", "cleaned"}
      PROVE  \E s \in Tasks : WillIngest(s, e)'
  <2>1. Visible(e) /\ doc'[e].status = doc[e].status /\ doc'[e].version = doc[e].version
    BY <1>1 DEF InProgress
  <2>2. PICK s \in Tasks : WillIngest(s, e)
    BY <2>1, <1>1 DEF InProgressHasTask
  <2>3. Keeps(s)
    BY <2>2 DEF WillIngest
  <2>. QED  BY <2>1, <2>2, <2>3, KeptWitness
<1>2. ASSUME NEW e \in Docs, Visible(e)', doc'[e].status = "embedding"
      PROVE  \E s \in Tasks : WillEmbed(s, e)'
  <2>1. Visible(e) /\ doc'[e].status = doc[e].status /\ doc'[e].version = doc[e].version
    BY <1>2 DEF InProgress
  <2>2. PICK s \in Tasks : WillEmbed(s, e)
    BY <2>1, <1>2 DEF InProgressHasTask
  <2>3. Keeps(s)
    BY <2>2 DEF WillEmbed
  <2>. QED  BY <2>1, <2>2, <2>3, KeptWitness
<1>. QED  BY <1>1, <1>2 DEF InProgressHasTask

(* A message that comes back, or runs out of attempts, stays a task of its *)
(* document.                                                               *)
LEMMA RequeueStep ==
  ASSUME Types, InProgressHasTask, doc' = doc, NEW t \in Tasks, task[t].doc \in Docs,
         \A s \in Tasks : s # t => Keeps(s),
         task'[t].kind = task[t].kind, task'[t].doc = task[t].doc,
         task'[t].pc \in {"queued", "exhausted"}
  PROVE  InProgressHasTask'
<1>1. PICK d \in Docs : task[t].doc = d
  OBVIOUS
<1>2. WillIngest(t, d)' \/ ~WillIngest(t, d)
  BY DEF WillIngest
<1>3. WillEmbed(t, d)' \/ ~WillEmbed(t, d)
  BY DEF WillEmbed, EmbedSteps
<1>. QED  BY <1>1, <1>2, <1>3, ExecutionStep

LEMMA ProgressExecute ==
  ASSUME Enough, TypeInv, InProgressHasTask, NEW t \in Tasks, Execute(t)
  PROVE  InProgressHasTask'
<1>1. task[t].pc # "idle" => task[t].doc \in Docs
  BY AtBusy
<1>2. CASE Ingest(t)
  <2>1. task[t].pc # "idle"
    BY <1>2 DEF Ingest, IngestStart, SetParsing, SetCleaned, SetChunked, Advance,
                ChunkStage, HandOff, FailPermanently, MarkIngestExhausted, FailIngest, At
  <2>. QED  BY <1>1, <1>2, <2>1, ProgressIngest
<1>3. CASE Embed(t)
  <2>1. task[t].pc # "idle"
    BY <1>3 DEF Embed, EmbedStart, EnterEmbedding, ListPending, EmbedBatch, EmbedOrphaned,
                RefuseEmbed, Promote, MarkEmbedExhausted, Conclude, At
  <2>. QED  BY <1>1, <1>3, <2>1, ProgressEmbed
<1>4. ~Defer(t)
  BY NeverLimited DEF Defer
<1>5. CASE TransientFailure(t)
  <2>1. task[t].pc # "idle" /\ Retry(t) /\ doc' = doc
    BY <1>5 DEF TransientFailure, Working, IngestSteps, EmbedSteps
  <2>. QED  BY <1>1, <2>1, RetryKeeps, RequeueStep DEF TypeInv
<1>. QED  BY <1>2, <1>3, <1>4, <1>5 DEF Execute

LEMMA ProgressFault ==
  ASSUME Enough, TypeInv, InProgressHasTask, NEW t \in Tasks, Fault(t)
  PROVE  InProgressHasTask'
<1>1. CASE Crash(t)
  <2>1. /\ task' = [task EXCEPT ![t] = Restored(t)] /\ doc' = doc /\ task[t].doc \in Docs
    BY <1>1, AtBusy DEF Crash, Working, IngestSteps, EmbedSteps
  <2>2. /\ Restored(t).kind = task[t].kind /\ Restored(t).doc = task[t].doc
        /\ Restored(t).pc = "queued"
    BY DEF Restored, Message
  <2>3. task'[t] = Restored(t) /\ \A s \in Tasks : s # t => Keeps(s)
    BY <2>1, MoveKeeps
  <2>. QED  BY <2>1, <2>2, <2>3, RequeueStep DEF TypeInv
<1>2. CASE Redeliver(t)
  <2>1. PICK s \in Tasks : task[s].kind = "none" /\ task' = [task EXCEPT ![s] = Restored(t)]
    BY <1>2 DEF Redeliver
  <2>2. \A r \in Tasks : task[r].kind # "none" => Keeps(r)
    BY <2>1, MoveKeeps
  <2>3. doc' = doc
    BY <1>2 DEF Redeliver
  <2>. QED  BY <2>2, <2>3, OutsideStep DEF Visible
<1>3. ~LoseMessage(t)
  BY DEF LoseMessage, Enough
<1>. QED  BY <1>1, <1>2, <1>3 DEF Fault

(* RowsFit: a document that does not exist yet says uploaded.              *)
LEMMA ProgressUser ==
  ASSUME Enough, TypeInv, RowsFit, InProgressHasTask, NEW d \in Docs, User(d) \/ Age(d)
  PROVE  InProgressHasTask'
<1>1. /\ doc \in [Docs -> DocRow] /\ task \in [Tasks -> Slot]
      /\ doc[d].life = "absent" => doc[d].status = "uploaded"
  BY DEF TypeInv, Types, RowsFit, RowFits
<1>2. ASSUME Send(task, "ingest", d) \/ task' = task
      PROVE  \A s \in Tasks : task[s].kind # "none" => Keeps(s)
  BY <1>1, <1>2, SendKeeps DEF Keeps
<1>3. CASE Upload(d)
  <2>1. \A e \in Docs : e # d => doc'[e] = doc[e]
    BY <1>3, <1>1 DEF Upload
  <2>2. doc'[d].status = "uploaded"
    BY <1>3, <1>1 DEF Upload, DocRow
  <2>3. \A s \in Tasks : task[s].kind # "none" => Keeps(s)
    BY <1>3, <1>2 DEF Upload
  <2>. QED  BY <2>1, <2>2, <2>3, OutsideStep DEF Visible, InProgress
<1>4. CASE Reingest(d)
  <2>1. \A e \in Docs : e # d => doc'[e] = doc[e]
    BY <1>4, <1>1 DEF Reingest
  <2>2. doc'[d].status = "uploaded"
    BY <1>4, <1>1 DEF Reingest, DocRow
  <2>3. \A s \in Tasks : task[s].kind # "none" => Keeps(s)
    BY <1>4, <1>2 DEF Reingest
  <2>. QED  BY <2>1, <2>2, <2>3, OutsideStep DEF Visible, InProgress
<1>5. CASE Delete(d)
  <2>1. \A e \in Docs : e # d => doc'[e] = doc[e]
    BY <1>5, <1>1 DEF Delete
  <2>2. doc'[d].life = "deleted"
    BY <1>5, <1>1 DEF Delete, DocRow
  <2>3. \A s \in Tasks : task[s].kind # "none" => Keeps(s)
    BY <1>5, <1>2 DEF Delete
  <2>. QED  BY <2>1, <2>2, <2>3, OutsideStep DEF Visible
<1>6. CASE Age(d)
  <2>1. \A e \in Docs : /\ doc'[e].life = doc[e].life /\ doc'[e].version = doc[e].version
                        /\ doc'[e].status = doc[e].status
    BY <1>6, <1>1 DEF Age, DocRow
  <2>2. \A s \in Tasks : task[s].kind # "none" => Keeps(s)
    BY <1>6, <1>2 DEF Age
  <2>. QED  BY <2>1, <2>2, OutsideStep DEF Visible
<1>. QED  BY <1>3, <1>4, <1>5, <1>6 DEF User

LEMMA ProgressBeat ==
  ASSUME Enough, TypeInv, InProgressHasTask, Beat
  PROVE  InProgressHasTask'
<1>1. doc' = doc
  BY DEF Beat, ScanStuck, SendRescued, Cleanup
<1>2. \A s \in Tasks : task[s].kind # "none" => Keeps(s)
  <2>1. CASE ScanStuck
    BY <2>1 DEF ScanStuck, Keeps
  <2>2. CASE SendRescued
    <3>1. PICK r \in scanned : Send(task, r[2], r[1])
      BY <2>2 DEF SendRescued
    <3>2. task \in [Tasks -> Slot]
      BY DEF TypeInv, Types
    <3>. QED  BY <3>1, <3>2, SendKeeps
  <2>3. CASE Cleanup
    BY <2>3, OrphanedKeeps DEF Cleanup
  <2>. QED  BY <2>1, <2>2, <2>3 DEF Beat
<1>. QED  BY <1>1, <1>2, OutsideStep DEF Visible

-----------------------------------------------------------------------------
LEMMA ProgressNext ==
  ASSUME Enough, FirstVersionInv, InProgressHasTask, [Next]_vars
  PROVE  InProgressHasTask'
<1>1. TypeInv /\ RowsFit
  BY DEF FirstVersionInv
<1>2. CASE Next
  BY <1>1, <1>2, ProgressExecute, ProgressFault, ProgressUser, ProgressBeat DEF Next
<1>3. CASE UNCHANGED vars
  BY <1>3 DEF vars, InProgressHasTask, Visible, WillIngest, WillEmbed
<1>. QED  BY <1>2, <1>3

(* A document that says parsing, cleaned or embedding always has a message *)
(* or an execution that will move it on: the states the rescue scan never  *)
(* looks at (rescue.py) are safe exactly where the broker keeps accepted   *)
(* messages and no execution is sent away by the slot limiter.             *)
THEOREM InProgressSafe ==
  ASSUME Enough
  PROVE  Spec => []InProgressHasTask
<1>1. Init => InProgressHasTask
  BY DEF Init, InProgressHasTask, Visible
<1>2. FirstVersionInv /\ InProgressHasTask /\ [Next]_vars => InProgressHasTask'
  BY ProgressNext
<1>. QED  BY <1>1, <1>2, FirstVersionInit, FirstVersionNext, PTL DEF Spec
=============================================================================
