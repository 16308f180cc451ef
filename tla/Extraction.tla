----------------------------- MODULE Extraction -----------------------------
(***************************************************************************)
(* One ingestion task and the process it parses a document in: the worker  *)
(* waits for the child, kills it and judges what it heard; a job row per   *)
(* stage and the cleaned text in the object store let a retry go on from   *)
(* where the work was whole.                                               *)
(***************************************************************************)
EXTENDS Integers, Sequences, FiniteSets

CONSTANTS
  Contents,      \* what the bytes do to a parser, of the kinds of Parsed
  MaxAttempts,   \* _MAX_RETRIES + 1
  MaxTroubles    \* bound: deaths, kills and failing calls before the chunk stage

Silence == "nothing"
(* _child_main, of each kind of document: what the child says at its end.  *)
(* A loop never ends; what cannot be pickled under the limit may not even  *)
(* be reported.                                                            *)
SeededParsed ==                       \* seeded fault: the limit stays while the error is told
  [good |-> {"ok"}, bad |-> {"ValueError"}, bomb |-> {"MemoryError", Silence}, crash |-> {Silence}, loop |-> {},
   huge |-> {"unserializable_result", Silence}]
Parsed ==
  [good |-> {"ok"}, bad |-> {"ValueError"}, bomb |-> {"MemoryError"}, crash |-> {Silence}, loop |-> {},
   huge |-> {"unserializable_result", Silence}]

ASSUME ExtractionAssumption ==
  Contents \subseteq DOMAIN Parsed /\ MaxAttempts \in Nat \ {0} /\ MaxTroubles \in Nat

VARIABLES
  content,    \* of the document
  task,         \* where the task is
  attempts,   \* request.retries + 1
  child,      \* "none", "booting", "parsing", "sending" or "gone"
  pipe,       \* what the parent has not read; "part" is a message cut short
  verdict,    \* how the last child was judged, and over what (for the properties)
  jobs,       \* EtlJob.status of each stage
  artifact,   \* cleaned.json
  error,      \* Document.error
  spawns,     \* extractions begun
  orphans,    \* children of a worker that died
  troubles

extractionVars ==
  <<content, task, attempts, child, pipe, verdict, jobs, artifact, error, spawns, orphans, troubles>>

-----------------------------------------------------------------------------
Stages == <<"extract", "clean", "chunk">>
NoError == [stage |-> "none", broke |-> "none", retryable |-> FALSE, cause |-> "none"]
Unjudged == [cause |-> "none", over |-> "none"]

ExtractionBegin(kinds, where) ==
  /\ content \in kinds /\ task = where /\ attempts = 1 /\ child = "none" /\ pipe = <<>> /\ verdict = Unjudged
  /\ jobs = [s \in {"extract", "clean", "chunk"} |-> "none"] /\ artifact = "none" /\ error = NoError
  /\ spawns = 0 /\ orphans = 0 /\ troubles = 0
ExtractionInit == ExtractionBegin(Contents, "queued")
ExtractionOff == ExtractionBegin({CHOOSE c \in Contents : TRUE}, "off")

(* EtlJobRepository.start and finish: the row of a stage, opened or closed. *)
Begun(s) == [jobs EXCEPT ![s] = "running"]
Ended(s, how) == [jobs EXCEPT ![s] = how]

Trouble == troubles < MaxTroubles /\ troubles' = troubles + 1
Undisturbed == UNCHANGED <<content, spawns, orphans, troubles>>
NoChild == UNCHANGED <<child, pipe, verdict>>
Unwritten == UNCHANGED <<attempts, jobs, artifact, error>>

FirstOf(stages) == IF stages = {} THEN 0 ELSE CHOOSE s \in stages : \A t \in stages : s <= t
(* _failing_stage and _last_running_stage                                  *)
FailingStage(rows) ==
  LET s == FirstOf({i \in 1 .. 3 : rows[Stages[i]] = "failed"}) IN IF s = 0 THEN "extract" ELSE Stages[s]
LastRunningStage(rows) ==
  LET s == FirstOf({i \in 1 .. 3 : rows[Stages[i]] # "succeeded"}) IN IF s = 0 THEN "chunk" ELSE Stages[s]

(* _run_ingest, of an exception that is not permanent: again, or the end.  *)
Retried(stage, rows) ==
  /\ jobs' = rows
  /\ IF attempts < MaxAttempts
     THEN task' = "queued" /\ attempts' = attempts + 1 /\ UNCHANGED error
     ELSE /\ task' = "failed" /\ UNCHANGED attempts
          /\ error' = [stage |-> LastRunningStage(rows), broke |-> stage, retryable |-> TRUE, cause |-> "exception"]

-----------------------------------------------------------------------------
(* _resume_cleaned                                                         *)
SeededResumes == FALSE                \* seeded fault: every retry starts over
Resumes == jobs["clean"] = "succeeded" /\ artifact = "sound"
Take ==
  /\ task = "queued" /\ task' = (IF Resumes THEN "cleaned" ELSE "extract")
  /\ Unwritten /\ NoChild /\ Undisturbed
TakeUnread ==
  /\ task = "queued" /\ Resumes /\ task' = "extract" /\ Trouble
  /\ Unwritten /\ NoChild /\ UNCHANGED <<content, spawns, orphans>>

(* _extract_stage, run_isolated: the child is started.                     *)
Spawn ==
  /\ task = "extract" /\ task' = "boot" /\ child' = "booting" /\ pipe' = <<>> /\ verdict' = Unjudged
  /\ jobs' = Begun("extract") /\ spawns' = spawns + 1
  /\ UNCHANGED <<content, attempts, artifact, error, orphans, troubles>>
(* get_object or put_object fails, in any way but the next one.            *)
StoreFails ==
  /\ \E s \in {<<"extract", "extract">>, <<"put", "clean">>} :
       task = s[1] /\ Retried(s[2], Ended(s[2], "failed"))
  /\ Trouble /\ NoChild /\ UNCHANGED <<content, artifact, spawns, orphans>>

(* ObjectNotFoundError: what is not there will not come back, so this is a *)
(* permanent failure as well.                                              *)
Missing ==
  /\ task = "extract" /\ task' = "failing" /\ Trouble
  /\ jobs' = Ended("extract", "failed") /\ verdict' = [cause |-> "missing", over |-> "none"]
  /\ UNCHANGED <<content, attempts, child, pipe, artifact, error, spawns, orphans>>

(* _child_main: the hand shake, the work, and one message, which the       *)
(* parent may see half of.                                                 *)
ChildStep(state, told) ==
  child' = state /\ pipe' = told /\ UNCHANGED <<task, verdict>> /\ Unwritten /\ Undisturbed
Ready == child = "booting" /\ ChildStep("parsing", Append(pipe, "ready"))
Begins == child = "parsing" /\ Parsed[content] \ {Silence} # {} /\ ChildStep("sending", Append(pipe, "part"))
Vanishes == child = "parsing" /\ Silence \in Parsed[content] /\ ChildStep("gone", pipe)
Sends ==
  /\ child = "sending"
  /\ \E m \in Parsed[content] \ {Silence} : ChildStep("gone", [pipe EXCEPT ![Len(pipe)] = m])
Killed ==
  /\ child \in {"booting", "parsing", "sending"} /\ child' = "gone" /\ Trouble
  /\ Unwritten /\ UNCHANGED <<content, task, pipe, verdict, spawns, orphans>>

(* run_isolated: poll and recv. The parent has closed its own end of the   *)
(* pipe, so a child that is gone is the end of the file.                   *)
SeededEof == FALSE                    \* seeded fault: the parent keeps the writing end
Eof == child = "gone"
Judged(cause) ==
  /\ task' = "reap" /\ verdict' = [cause |-> cause, over |-> child]
  /\ UNCHANGED <<child, pipe>> /\ Unwritten /\ Undisturbed
HearReady ==
  /\ task = "boot" /\ pipe # <<>> /\ task' = "parse" /\ pipe' = Tail(pipe)
  /\ UNCHANGED <<child, verdict>> /\ Unwritten /\ Undisturbed
NotReady == task = "boot" /\ pipe = <<>> /\ Judged(IF Eof THEN "child_crashed" ELSE "child_bootstrap_timeout")
HearResult == task = "parse" /\ pipe # <<>> /\ Head(pipe) # "part" /\ Judged(Head(pipe))
HalfHeard == task = "parse" /\ pipe = <<"part">> /\ Eof /\ Judged("child_crashed")
SeededNoResult == task = "parse" /\ pipe = <<>> /\ Eof /\ Judged("child_crashed")
                                      \* seeded fault: poll without a timeout
NoResult == task = "parse" /\ pipe = <<>> /\ Judged(IF Eof THEN "child_crashed" ELSE "timeout")

(* _terminate, in the finally: the child is killed and reaped.             *)
SeededReaped == child                 \* seeded fault: the child is left to itself
Reaped == "none"
Reap ==
  /\ task = "reap" /\ child' = Reaped /\ pipe' = <<>> /\ task' = (IF verdict.cause = "ok" THEN "extracted" ELSE "refused")
  /\ UNCHANGED verdict /\ Unwritten /\ Undisturbed

-----------------------------------------------------------------------------
Goes(from, to) == task = from /\ task' = to /\ UNCHANGED <<attempts>> /\ NoChild /\ Undisturbed

(* _fail_job, then _fail_permanently: every ExtractionFailedError is one.  *)
Refuse == Goes("refused", "failing") /\ jobs' = Ended("extract", "failed") /\ UNCHANGED <<artifact, error>>
FailPermanently ==
  /\ Goes("failing", "failed") /\ UNCHANGED <<jobs, artifact>>
  /\ error' = [stage |-> FailingStage(jobs), broke |-> "extract", retryable |-> FALSE, cause |-> verdict.cause]

(* _clean_stage: the artifact first, the row after.                        *)
CleanBegins ==
  /\ Goes("extracted", "put") /\ jobs' = [jobs EXCEPT !["extract"] = "succeeded", !["clean"] = "running"]
  /\ UNCHANGED <<artifact, error>>
PutArtifact == Goes("put", "kept") /\ artifact' = "sound" /\ UNCHANGED <<jobs, error>>
CleanEnds == Goes("kept", "cleaned") /\ jobs' = Ended("clean", "succeeded") /\ UNCHANGED <<artifact, error>>
(* The store drops it, or a later version of the code cannot read it.      *)
Spoil ==
  /\ artifact = "sound" /\ task \notin {"failed", "done"} /\ artifact' = "unusable" /\ Trouble
  /\ NoChild /\ UNCHANGED <<content, task, attempts, jobs, error, spawns, orphans>>

(* _chunk_stage                                                            *)
ChunkBegins == Goes("cleaned", "cut") /\ jobs' = Begun("chunk") /\ UNCHANGED <<artifact, error>>
ChunkEnds == Goes("cut", "done") /\ jobs' = Ended("chunk", "succeeded") /\ UNCHANGED <<artifact, error>>
ChunkFails ==
  /\ \/ task = "cleaned" /\ Retried("chunk", jobs)
     \/ task = "cut" /\ Retried("chunk", Ended("chunk", "failed"))
  /\ UNCHANGED artifact /\ NoChild /\ Undisturbed

(* The worker is killed; the message comes again, as often tried as it was.*)
WorkerDies ==
  /\ task \notin {"queued", "failed", "done", "off"} /\ task' = "queued" /\ Trouble
  /\ orphans' = orphans + (IF child \in {"booting", "parsing", "sending"} THEN 1 ELSE 0)
  /\ child' = "none" /\ pipe' = <<>> /\ verdict' = Unjudged /\ Unwritten /\ UNCHANGED <<content, spawns>>
(* A child whose parent is gone ends at its message, if it comes to one.   *)
OrphanEnds ==
  /\ orphans > 0 /\ Parsed[content] # {} /\ orphans' = orphans - 1
  /\ Unwritten /\ NoChild /\ UNCHANGED <<content, task, spawns, troubles>>

WorkerWorks ==
  \/ Take \/ Spawn \/ HearReady \/ NotReady \/ HearResult \/ HalfHeard \/ NoResult \/ Reap
  \/ Refuse \/ FailPermanently \/ CleanBegins \/ PutArtifact \/ CleanEnds \/ ChunkBegins \/ ChunkEnds
ChildWorks == Ready \/ Begins \/ Vanishes \/ Sends
ExtractionNext ==
  \/ WorkerWorks \/ ChildWorks \/ TakeUnread \/ StoreFails \/ Missing \/ Killed \/ Spoil \/ ChunkFails
  \/ WorkerDies \/ OrphanEnds
ExtractionFairness == WF_extractionVars(WorkerWorks) /\ WF_extractionVars(ChildWorks)
                        /\ WF_extractionVars(OrphanEnds)

-----------------------------------------------------------------------------
ExtractionTypeOK ==
  /\ attempts \in 1 .. MaxAttempts /\ Len(pipe) <= 2 /\ orphans \in 0 .. MaxTroubles
  /\ child \in {"none", "booting", "parsing", "sending", "gone"}
  /\ error.stage \in {"none", "extract", "clean", "chunk"}

(* run_isolated: what goes on to be cleaned is a result a child sent       *)
(* whole, of a document that can be parsed.                                *)
ResultIsWhole == task \in {"extracted", "put", "kept", "cleaned", "cut", "done"} => content = "good"

(* details["cause"]: a child that died is never taken for one that is too  *)
(* slow, nor the other way round, and what the document itself did to the  *)
(* parser is what is reported, as long as nobody else killed the child.    *)
CausesAreTrue ==
  /\ verdict.cause = "timeout" => verdict.over = "parsing"
  /\ verdict.cause = "child_bootstrap_timeout" => verdict.over = "booting"
  /\ verdict.cause = "child_crashed" => verdict.over = "gone" /\ (Silence \in Parsed[content] \/ troubles > 0)
  /\ verdict.cause \in Parsed[content] \union {"none", "timeout", "child_bootstrap_timeout", "child_crashed", "missing"}
  /\ content = "bomb" /\ verdict.cause = "child_crashed" => troubles > 0

(* _terminate: whatever way run_isolated was left, its child is gone.      *)
NobodyIsLeft == child # "none" => task \in {"boot", "parse", "reap"}

(* _clean_stage, _resume_cleaned: a clean job that succeeded has had its   *)
(* artifact, and a failing chunk stage parses nothing again.               *)
ResumeIsWhole == (jobs["clean"] = "succeeded" => artifact # "none") /\ spawns <= 1 + troubles

(* _failing_stage: a permanent failure is reported of the stage that       *)
(* failed, whatever earlier attempts left in the rows.                     *)
StageIsTrue == ~error.retryable => error.stage = error.broke

ExtractionsHold == ResultIsWhole /\ CausesAreTrue /\ NobodyIsLeft /\ ResumeIsWhole /\ StageIsTrue

(* run_isolated's time-outs, _MAX_RETRIES: whatever the document does to   *)
(* its parser, and whoever dies, the task comes to an end.                 *)
TaskEnds == (task = "queued") ~> (task \in {"failed", "done"})

(* sandbox.py: a child that could not start in time is a busy machine, and *)
(* is to be tried again.                                                   *)
BusyMachineIsRetried == error.cause = "child_bootstrap_timeout" => error.retryable

(* _last_running_stage, "the last stage that has not succeeded": the one   *)
(* that failed when the attempts are used up.                              *)
LastStageIsTrue == error.retryable => error.stage = error.broke

(* _terminate's test, "no orphan is left": not when the worker itself dies.*)
OrphansLeave == (orphans > 0) ~> (orphans = 0)
=============================================================================
