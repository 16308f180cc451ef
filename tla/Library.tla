------------------------------ MODULE Library ------------------------------
(***************************************************************************)
(* Uploads into the knowledge bases of a tenant, their deletion, and the   *)
(* purge after the retention window.  Rows live in the database, contents  *)
(* in the object store: no transaction spans the two, and every step of a  *)
(* request or of the purge may fail or be the last one of its process.     *)
(*                                                                         *)
(* An upload chooses the id of its document, so one set names both.        *)
(***************************************************************************)
EXTENDS Naturals, FiniteSets

CONSTANTS
  Uploads,        \* requests, and the documents they create
  Shelves,        \* knowledge bases
  Deliveries,     \* what may be sent: [Uploads -> [to, content]]
  DocumentLimit,  \* quota of the tenant
  PurgeBatch,     \* retention_purge_batch_size
  MaxMishaps      \* bound on failures

ASSUME LibraryAssumption ==
  /\ {DocumentLimit, PurgeBatch} \subseteq Nat \ {0} /\ MaxMishaps \in Nat
  /\ \A d \in Deliveries : \A u \in Uploads : d[u].to \in Shelves

VARIABLES
  shelf,      \* knowledge bases: live, deleted, past the window, gone
  docs,       \* rows of documents
  chunked,    \* documents with rows of chunks, vectors or jobs
  objects,    \* originals in the object store, each under the storage_key of its document
  artifacts,  \* documents with a cleaned.json of some version beside it
  ingest,     \* the ingestion of a document: has not begun, begun, or has read the original
  upload,     \* requests
  sweep,      \* the purge
  mishaps

libraryVars == <<shelf, docs, chunked, objects, artifacts, ingest, upload, sweep, mishaps>>

-----------------------------------------------------------------------------
Lifetimes == {"live", "deleted", "old", "gone"}
UploadEnds == {"off", "refused", "not_found", "conflict", "failed", "lost", "done"}
Content(u) == upload[u].content
Target(u) == upload[u].to
Row(d) == docs[d] \notin {"none", "gone"}
AtUpload(u, at) == upload[u].at = at
Requesting == \E u \in Uploads : upload[u].at \notin UploadEnds \union {"check"}

LibraryTypeOK ==
  /\ shelf \in [Shelves -> Lifetimes] /\ docs \in [Uploads -> Lifetimes \union {"none"}]
  /\ chunked \subseteq Uploads /\ objects \union artifacts \subseteq Uploads /\ mishaps \in 0 .. MaxMishaps
  /\ \A u \in Uploads : upload[u].at \in UploadEnds \union {"check", "find", "put", "create", "discard"}
  /\ sweep.at \in {"idle", "objects", "rows"} /\ Cardinality(sweep.targets) <= PurgeBatch
  /\ ingest \in [Uploads -> {"idle", "begun", "read"}]
  /\ \A d \in Uploads : d \in chunked \/ ingest[d] # "idle" => Row(d)

LibraryBegin(first, deliveries) ==
  /\ shelf = [k \in Shelves |-> "live"] /\ docs = [u \in Uploads |-> "none"]
  /\ chunked = {} /\ objects = {} /\ artifacts = {} /\ ingest = [u \in Uploads |-> "idle"]
  /\ mishaps = 0 /\ sweep = [at |-> "idle", targets |-> {}]
  /\ \E d \in deliveries :
       upload = [u \in Uploads |-> [at |-> first, to |-> d[u].to, content |-> d[u].content,
                                    end |-> "failed",
                                    hurt |-> FALSE, unsure |-> FALSE, twin |-> FALSE]]
LibraryInit == LibraryBegin("check", Deliveries)
LibraryOff == LibraryBegin("off", {CHOOSE d \in Deliveries : TRUE})

Step(u, at) == upload' = [upload EXCEPT ![u].at = at]
(* A failure, noted with the document whose object it may leave behind.    *)
Hurt(u, at) ==
  /\ mishaps < MaxMishaps /\ mishaps' = mishaps + 1
  /\ upload' = [upload EXCEPT ![u].at = at, ![u].hurt = TRUE]

-----------------------------------------------------------------------------
(***************************************************************************)
(* DocumentService.upload                                                  *)
(***************************************************************************)
(* detect_media_type: the content decides, the name only between two kinds *)
(* of text.                                                                *)
MediaType(c) ==
  CASE c.bytes = 0 -> "refused"
    [] c.bytes > 0 /\ c.head = "pdf" -> "pdf"
    [] c.bytes > 0 /\ c.head = "zip" /\ "word" \in c.inside -> "docx"
    [] c.bytes > 0 /\ c.head = "zip" /\ "word" \notin c.inside /\ "sheet" \in c.inside -> "xlsx"
    [] c.bytes > 0 /\ c.head = "text" -> IF c.named = "md" THEN "markdown" ELSE "text"
    [] OTHER -> "refused"
MaxBytes == 2                         \* MAX_UPLOAD_BYTES

(* DocumentRepository._billable: what the user can still see and delete.   *)
Billable == {d \in Uploads : docs[d] = "live" /\ shelf[Target(d)] = "live"}
Welcome(c) == c.bytes <= MaxBytes /\ Cardinality(Billable) < DocumentLimit /\ MediaType(c) # "refused"

Check(u) ==
  /\ AtUpload(u, "check") /\ Step(u, IF Welcome(Content(u)) THEN "find" ELSE "refused")
  /\ UNCHANGED <<shelf, docs, chunked, objects, artifacts, ingest, sweep, mishaps>>

(* find_by_content_hash looks at what is visible.                          *)
Twins(u) == {d \in Uploads : Target(d) = Target(u) /\ Content(d).hash = Content(u).hash}
Visible(u) == \E d \in Twins(u) : docs[d] = "live"
Find(u) ==
  /\ AtUpload(u, "find")
  /\ upload' = [upload EXCEPT ![u].at = IF shelf[Target(u)] # "live" THEN "not_found"
                                        ELSE IF Visible(u) THEN "conflict" ELSE "put",
                              ![u].twin = Visible(u)]
  /\ UNCHANGED <<shelf, docs, chunked, objects, artifacts, ingest, sweep, mishaps>>

Put(u) ==
  /\ AtUpload(u, "put") /\ objects' = objects \union {u} /\ Step(u, "create")
  /\ UNCHANGED <<shelf, docs, chunked, artifacts, ingest, sweep, mishaps>>

(* No answer: the object may be there, and nobody takes it back.           *)
PutFails(u) ==
  /\ AtUpload(u, "put") /\ objects' \in {objects, objects \union {u}} /\ Hurt(u, "failed")
  /\ UNCHANGED <<shelf, docs, chunked, artifacts, ingest, sweep>>

(* uq_document_tenant_kb_hash covers rows that are deleted, too.           *)
Taken(u) == (\E d \in Twins(u) : Row(d)) \/ shelf[Target(u)] = "gone"
Created(u) == [docs EXCEPT ![u] = "live"]
Create(u) ==
  /\ AtUpload(u, "create")
  /\ \/ ~Taken(u) /\ docs' = Created(u) /\ Step(u, "done")
     \/ /\ Taken(u) /\ UNCHANGED docs
        /\ upload' = [upload EXCEPT ![u].at = "discard", ![u].end = "conflict", ![u].twin = Visible(u)]
  /\ UNCHANGED <<shelf, chunked, objects, artifacts, ingest, sweep, mishaps>>

(* Any other exception; when the answer to the COMMIT is what was lost,    *)
(* the row is there.                                                       *)
CreateFails(u) ==
  /\ AtUpload(u, "create") /\ mishaps < MaxMishaps /\ mishaps' = mishaps + 1
  /\ \/ Step(u, "discard") /\ UNCHANGED docs
     \/ /\ ~Taken(u) /\ docs' = Created(u)
        /\ upload' = [upload EXCEPT ![u].at = "discard", ![u].unsure = TRUE]
  /\ UNCHANGED <<shelf, chunked, objects, artifacts, ingest, sweep>>

(* _discard: whatever the exception was, the object goes.                  *)
SeededTakenBack(u) == objects        \* seeded fault: a conflict keeps what was stored
TakenBack(u) == objects \ {u}
Discard(u) ==
  /\ AtUpload(u, "discard")
  /\ \/ objects' = TakenBack(u) /\ Step(u, upload[u].end) /\ UNCHANGED mishaps
     \/ Hurt(u, upload[u].end) /\ UNCHANGED objects
  /\ UNCHANGED <<shelf, docs, chunked, artifacts, ingest, sweep>>

(* The process ends between two steps.                                     *)
Lose(u) ==
  /\ \E at \in {"put", "create", "discard"} : AtUpload(u, at)
  /\ Hurt(u, "lost") /\ UNCHANGED <<shelf, docs, chunked, objects, artifacts, ingest, sweep>>

-----------------------------------------------------------------------------
(***************************************************************************)
(* Deletion, and what goes on beside it                                    *)
(***************************************************************************)
Delete(d) ==
  /\ docs[d] = "live" /\ docs' = [docs EXCEPT ![d] = "deleted"]
  /\ UNCHANGED <<shelf, chunked, objects, artifacts, ingest, upload, sweep, mishaps>>

(* KnowledgeBaseService.delete leaves the rows of the documents alone.     *)
DeleteShelf(k) ==
  /\ shelf[k] = "live" /\ (\E u \in Uploads : upload[u].at # "off")
  /\ shelf' = [shelf EXCEPT ![k] = "deleted"]
  /\ UNCHANGED <<docs, chunked, objects, artifacts, ingest, upload, sweep, mishaps>>

(* An ingestion, as DocumentPipeline and Extraction show it: _load_target  *)
(* finds the document and its knowledge base, neither of them deleted, and *)
(* _begin writes the row of a job.                                         *)
IngestBegins(d) ==
  /\ docs[d] = "live" /\ shelf[Target(d)] = "live" /\ ingest[d] = "idle"
  /\ ingest' = [ingest EXCEPT ![d] = "begun"] /\ chunked' = chunked \union {d}
  /\ UNCHANGED <<shelf, docs, objects, artifacts, upload, sweep, mishaps>>
ReadOriginal(d) ==
  /\ ingest[d] = "begun" /\ d \in objects /\ ingest' = [ingest EXCEPT ![d] = "read"]
  /\ UNCHANGED <<shelf, docs, chunked, objects, artifacts, upload, sweep, mishaps>>
(* _clean_stage: nobody asks for the document again.                       *)
KeepArtifact(d) ==
  /\ ingest[d] = "read" /\ artifacts' = artifacts \union {d}
  /\ UNCHANGED <<shelf, docs, chunked, objects, ingest, upload, sweep, mishaps>>
IngestEnds(d) ==
  /\ ingest[d] # "idle" /\ ingest' = [ingest EXCEPT ![d] = "idle"]
  /\ UNCHANGED <<shelf, docs, chunked, objects, artifacts, upload, sweep, mishaps>>

(* The window ends; it is far longer than any request or ingestion.        *)
Age ==
  /\ ~Requesting
  /\ \/ /\ UNCHANGED docs
        /\ \E k \in Shelves :
             /\ shelf[k] = "deleted" /\ \A d \in Uploads : Target(d) = k => ingest[d] = "idle"
             /\ shelf' = [shelf EXCEPT ![k] = "old"]
     \/ /\ UNCHANGED shelf
        /\ \E d \in Uploads : docs[d] = "deleted" /\ ingest[d] = "idle" /\ docs' = [docs EXCEPT ![d] = "old"]
  /\ UNCHANGED <<chunked, objects, artifacts, ingest, upload, sweep, mishaps>>

-----------------------------------------------------------------------------
(***************************************************************************)
(* DeletedKnowledgePurgeService.purge_for_tenant                           *)
(***************************************************************************)
SeededPurgeable(d) == docs[d] \in {"deleted", "old"}   \* seeded fault: any deletion will do
Purgeable(d) == Row(d) /\ (docs[d] = "old" \/ shelf[Target(d)] = "old")
OneBatch(s) == {t \in SUBSET s : Cardinality(t) = IF Cardinality(s) < PurgeBatch THEN Cardinality(s)
                                                  ELSE PurgeBatch}
OldShelves == {k \in Shelves : shelf[k] = "old"}

(* purge_for_documents: what hangs on the documents, vectors first.        *)
Stripped(batch) == chunked \ batch
SweepChunks ==
  /\ sweep.at = "idle" /\ ((\E d \in Uploads : Purgeable(d)) \/ OldShelves # {})
  /\ \E batch \in OneBatch({d \in Uploads : Purgeable(d)}) :
       sweep' = [at |-> "objects", targets |-> batch] /\ chunked' = Stripped(batch)
  /\ UNCHANGED <<shelf, docs, objects, artifacts, ingest, upload, mishaps>>

(* _purge_objects: the storage_key of every target, and no artifact; one   *)
(* that cannot be deleted does not stop the others.                        *)
SweepObjects ==
  /\ sweep.at = "objects" /\ sweep' = [sweep EXCEPT !.at = "rows"]
  /\ \/ objects' = objects \ sweep.targets /\ UNCHANGED <<artifacts, ingest, upload, mishaps>>
     \/ \E d \in sweep.targets \intersect objects :
          objects' = (objects \ sweep.targets) \union {d} /\ Hurt(d, upload[d].at)
  /\ UNCHANGED <<shelf, docs, chunked, artifacts, ingest>>

(* hard_delete, and count_all_in_kb: only what has no row any more.        *)
Removed(batch) == [d \in Uploads |-> IF d \in batch THEN "gone" ELSE docs[d]]
Empty(k) == ~\E d \in Uploads : Target(d) = k /\ Row(d) /\ d \notin sweep.targets
SweepRows ==
  /\ sweep.at = "rows" /\ sweep' = [at |-> "idle", targets |-> {}]
  /\ \E batch \in OneBatch(OldShelves) :
       LET empty == {k \in batch : Empty(k)}
           \* every foreign key is PROTECT: the transaction is undone
           protected == \/ sweep.targets \intersect chunked # {}
                        \/ \E d \in Uploads \ sweep.targets : Row(d) /\ Target(d) \in empty
       IN /\ docs' = IF protected THEN docs
                     ELSE Removed(sweep.targets)
          /\ shelf' = IF protected THEN shelf
                      ELSE [k \in Shelves |-> IF k \in empty THEN "gone" ELSE shelf[k]]
  /\ UNCHANGED <<chunked, objects, artifacts, ingest, upload, mishaps>>

-----------------------------------------------------------------------------
LibraryNext ==
  \/ \E u \in Uploads : Check(u) \/ Find(u) \/ Put(u) \/ PutFails(u) \/ Create(u) \/ CreateFails(u)
                        \/ Discard(u) \/ Lose(u)
  \/ \E d \in Uploads : Delete(d) \/ IngestBegins(d) \/ ReadOriginal(d) \/ KeepArtifact(d) \/ IngestEnds(d)
  \/ \E k \in Shelves : DeleteShelf(k)
  \/ Age \/ SweepChunks \/ SweepObjects \/ SweepRows

(* Requests and ingestions end, days pass, the purge runs every day.       *)
LibraryFairness ==
  /\ \A u \in Uploads : WF_libraryVars(Check(u) \/ Find(u) \/ Put(u) \/ Create(u) \/ Discard(u))
  /\ \A d \in Uploads : WF_libraryVars(IngestEnds(d))
  /\ WF_libraryVars(Age) /\ WF_libraryVars(SweepChunks \/ SweepObjects \/ SweepRows)

-----------------------------------------------------------------------------
(* upload and purge_for_tenant: the two stores agree.  A document that is  *)
(* listed, or was deleted within the window, can be read, unless the       *)
(* answer to its COMMIT was lost; an original without a row is the rest of *)
(* a failure, never of a refusal, and none is left by a purge that could   *)
(* delete it.                                                              *)
StoresAgree ==
  \A d \in Uploads :
    /\ Row(d) /\ docs[d] # "old" /\ shelf[Target(d)] # "old" => d \in objects \/ upload[d].unsure
    /\ d \in objects => Row(d) \/ AtUpload(d, "create") \/ AtUpload(d, "discard") \/ upload[d].hurt
    /\ upload[d].at \in {"refused", "not_found", "conflict"} => ~Row(d)
    /\ docs[d] = "live" => \A e \in Twins(d) \ {d} : docs[e] # "live"

(* The retention window: what is deleted, alone or with its knowledge      *)
(* base, whenever it was uploaded or ingested meanwhile, is gone some day. *)
DeletedGoesAway ==
  /\ \A d \in Uploads : (docs[d] = "deleted" \/ (docs[d] = "live" /\ shelf[Target(d)] = "deleted"))
                          ~> (docs[d] = "gone")
  /\ \A k \in Shelves : (shelf[k] = "deleted") ~> (shelf[k] = "gone")

(* upload, "this document is already in this knowledge base": a request    *)
(* that is told so is told the truth.                                      *)
DuplicatesAreVisible == \A u \in Uploads : AtUpload(u, "conflict") => upload[u].twin
(* test_retention_purge, "document, chunk, vector, etl_job, object: all    *)
(* five go, and one that stays is a failed deletion": the artifacts of its *)
(* ingestions stay.                                                        *)
NothingIsLeft == \A d \in Uploads : docs[d] = "gone" /\ ~upload[d].hurt => d \notin objects \union artifacts

(* upload takes the object back when the row could not be written: a       *)
(* document that is listed has its object, unless the answer was lost.     *)
ListedIsReadable == \A d \in Uploads : docs[d] = "live" /\ shelf[Target(d)] = "live" => d \in objects
=============================================================================
