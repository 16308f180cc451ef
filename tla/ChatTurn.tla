------------------------------ MODULE ChatTurn ------------------------------
(***************************************************************************)
(* One question and its answer: the request that reserves quota and makes  *)
(* the message rows, the background generation that writes events into a   *)
(* Redis stream and then settles the turn, the client that reads the       *)
(* stream over connections that break, the stop request, the shutdown of   *)
(* the process, and the Beat scan that closes abandoned answers.           *)
(*                                                                         *)
(* One action is one await of the code: a transaction, a Redis round trip, *)
(* one delta of the provider.  An event is its kind; its number is its     *)
(* place in the stream (the code skips the numbers of failed writes).      *)
(* An await that fails, is cancelled or never returns may have done its    *)
(* work or not.  Ghost fields of a generation: settled, logged and         *)
(* cancelled record what happened to its reservation.                      *)
(***************************************************************************)
EXTENDS Naturals, Sequences, FiniteSets

CONSTANTS
  Turns,          \* answers of one conversation
  Retrieving,     \* those whose conversation has knowledge bases
  Deltas,         \* bound on the text deltas of each answer
  Followed,       \* the answer whose stream the client reads
  Capacity,       \* api_max_concurrent_generations
  StreamLimit,    \* limit of the tenant's `streams' quota
  MaxRetries,     \* maxRetries of openEventStream
  MaxFaults       \* bound on exceptions, cancellations and crashes

ASSUME ChatAssumption ==
  /\ Retrieving \subseteq Turns /\ IsFiniteSet(Turns)
  /\ Deltas \in [Turns -> Nat] /\ Followed \in Turns
  /\ {Capacity, StreamLimit, MaxRetries, MaxFaults} \subseteq Nat

VARIABLES
  conv,    \* the conversation row: live or soft-deleted
  msg,     \* the answer rows
  gen,     \* the request and then the background task of each turn
  buf,     \* the Redis stream and stop flag of each answer
  streams, \* the tenant's counter of concurrent streams
  others,  \* those of its slots that turns of other conversations hold
  reader,  \* one client that follows one answer
  scan,    \* answers the stuck-stream scan has listed and not yet marked
  faults   \* faults so far

vars == <<conv, msg, gen, buf, streams, others, reader, scan, faults>>

-----------------------------------------------------------------------------
Ended == {"completed", "interrupted", "failed"}
Kinds == {"meta", "delta", "usage", "citations", "done", "error"}
Final == {"done", "error"}

(* Steps of the request, of the task, and where a turn may rest.           *)
Request == {"asked", "reserved", "made"}
Producing == {"compose", "stream", "word", "bill"}
Wrapping == {"persist", "settle", "cite", "end"}
Background == Producing \union Wrapping \union {"free"}
Holding == {"reserved", "made"} \union Background

Outcome(status, event) == [status |-> status, event |-> event]
Completed == Outcome("completed", "done")
Stopped == Outcome("interrupted", "done")
Interrupted == Outcome("interrupted", "error")
Failed == Outcome("failed", "error")

NoTurn == [pc |-> "none", got |-> 0, usage |-> FALSE, out |-> Failed, caught |-> FALSE,
           settled |-> 0, logged |-> FALSE, cancelled |-> FALSE]

TypeOK ==
  /\ conv \in {"live", "deleted"}
  /\ \A t \in Turns :
       /\ msg[t].status \in Ended \union {"none", "streaming"} /\ msg[t].len \in 0 .. Deltas[t]
       /\ gen[t].pc \in Request \union Background \union {"none", "refused", "ended", "dead"}
       /\ gen[t].got \in 0 .. Deltas[t] /\ gen[t].settled \in 0 .. 2
       /\ gen[t].out \in {Completed, Stopped, Interrupted, Failed}
       /\ gen[t].pc \in Background => msg[t].status # "none"
       /\ buf[t].ttl = "none" <=> buf[t].log = <<>>
       /\ \A i \in DOMAIN buf[t].log : buf[t].log[i] \in Kinds
  /\ streams \in 0 .. StreamLimit
  /\ reader.pos \in 0 .. Len(buf[Followed].log) /\ reader.last <= reader.pos
  /\ reader.misses \in 0 .. 2 /\ reader.tries \in 0 .. MaxRetries
  /\ scan \subseteq Turns /\ faults \in 0 .. MaxFaults

Init ==
  /\ conv = "live"
  /\ msg = [t \in Turns |-> [status |-> "none", len |-> 0]]
  /\ gen = [t \in Turns |-> NoTurn]
  /\ buf = [t \in Turns |-> [log |-> <<>>, ttl |-> "none", stop |-> FALSE]]
  /\ others \in 0 .. StreamLimit /\ streams = others
  /\ reader = [st |-> "off", last |-> 0, pos |-> 0, wire |-> <<>>, got |-> <<>>,
                misses |-> 0, tries |-> 0]
  /\ scan = {} /\ faults = 0

At(t, pc) == gen[t].pc = pc
Fault == faults < MaxFaults /\ faults' = faults + 1
NoFault == UNCHANGED faults
Goto(t, pc) == gen' = [gen EXCEPT ![t].pc = pc]

-----------------------------------------------------------------------------
(***************************************************************************)
(* POST .../messages                                                       *)
(***************************************************************************)
Running == {t \in Turns : gen[t].pc \in Background}

(* ensure_capacity: checked before the turn exists, and not again.         *)
Ask(t) ==
  /\ At(t, "none") /\ Cardinality(Running) < Capacity
  /\ Goto(t, "asked")
  /\ UNCHANGED <<conv, msg, buf, streams, reader, scan, faults, others>>

SeededReserve(t) ==                   \* seeded fault: the limit is off by one
  /\ At(t, "asked")
  /\ IF streams <= StreamLimit
     THEN Goto(t, "reserved") /\ streams' = streams + 1
     ELSE Goto(t, "refused") /\ UNCHANGED streams
  /\ UNCHANGED <<conv, msg, buf, reader, scan, faults, others>>

(* TurnBudget.reserve: all or, when one of them is refused, nothing.       *)
Reserve(t) ==
  /\ At(t, "asked")
  /\ IF streams < StreamLimit
     THEN Goto(t, "reserved") /\ streams' = streams + 1
     ELSE Goto(t, "refused") /\ UNCHANGED streams
  /\ UNCHANGED <<conv, msg, buf, reader, scan, faults, others>>

SeededGiveBack(t) ==                  \* seeded fault: reservations are kept
  gen' = [gen EXCEPT ![t].pc = "refused"] /\ UNCHANGED streams
GiveBack(t) ==
  /\ gen' = [gen EXCEPT ![t].pc = "refused", ![t].settled = @ + 1]
  /\ streams' = streams - 1

(* _create_turn: question and answer rows in one transaction.              *)
Create(t) ==
  /\ At(t, "reserved")
  /\ \/ /\ conv = "live" /\ NoFault
        /\ msg' = [msg EXCEPT ![t].status = "streaming"]
        /\ Goto(t, "made") /\ UNCHANGED streams
     \/ /\ GiveBack(t) /\ UNCHANGED msg
        /\ IF conv = "live" THEN Fault ELSE NoFault
  /\ UNCHANGED <<conv, buf, reader, scan, others>>

Spawn(t) ==
  /\ At(t, "made") /\ Goto(t, "compose")
  /\ UNCHANGED <<conv, msg, buf, streams, reader, scan, faults, others>>

-----------------------------------------------------------------------------
(***************************************************************************)
(* ChatService._generate                                                   *)
(***************************************************************************)
(* StreamBuffer.append: XADD, and the life of the stream starts anew.      *)
Append1(t, kind) == buf' = [buf EXCEPT ![t].log = Append(@, kind), ![t].ttl = "live"]

(* The paths that leave the loop; the outcome is then written and told.    *)
Finish(t, out, usage, caught) ==
  gen' = [gen EXCEPT ![t] = [@ EXCEPT !.pc = "persist", !.out = out, !.usage = usage,
                                      !.caught = caught]]

Compose(t) ==
  /\ At(t, "compose") /\ Goto(t, "stream") /\ Append1(t, "meta")
  /\ UNCHANGED <<conv, msg, streams, reader, scan, faults, others>>

(* The word is kept, and then its event is written.                        *)
TextDelta(t) ==
  /\ At(t, "stream") /\ gen[t].got < Deltas[t] /\ ~gen[t].usage
  /\ gen' = [gen EXCEPT ![t] = [@ EXCEPT !.got = gen[t].got + 1, !.pc = "word"]]
  /\ UNCHANGED <<conv, msg, buf, streams, reader, scan, faults, others>>

(* The gateway sends usage once, before it ends the stream.                *)
UsageDelta(t) ==
  /\ At(t, "stream") /\ ~gen[t].usage
  /\ gen' = [gen EXCEPT ![t] = [@ EXCEPT !.usage = TRUE, !.pc = "bill"]]
  /\ UNCHANGED <<conv, msg, buf, streams, reader, scan, faults, others>>

Tell(t) ==
  /\ gen[t].pc \in {"word", "bill"}
  /\ Append1(t, IF At(t, "word") THEN "delta" ELSE "usage") /\ Goto(t, "stream")
  /\ UNCHANGED <<conv, msg, streams, reader, scan, faults, others>>

DoneDelta(t) ==
  /\ At(t, "stream") /\ gen[t].usage
  /\ Finish(t, Completed, TRUE, FALSE)
  /\ UNCHANGED <<conv, msg, buf, streams, reader, scan, faults, others>>

ErrorDelta(t) ==
  /\ At(t, "stream") /\ gen[t].usage /\ Fault
  /\ Finish(t, Interrupted, TRUE, FALSE)
  /\ UNCHANGED <<conv, msg, buf, streams, reader, scan, others>>

(* The poll of the stop flag; the usage of what was said is estimated.     *)
SeeStop(t) ==
  /\ At(t, "stream") /\ buf[t].stop
  /\ Finish(t, Stopped, gen[t].usage \/ gen[t].got > 0, FALSE)
  /\ UNCHANGED <<conv, msg, buf, streams, reader, scan, faults, others>>

-----------------------------------------------------------------------------
(***************************************************************************)
(* ChatService._complete and _fail: row first, then account, then event    *)
(***************************************************************************)
SeededWritten(t) ==                   \* seeded fault: the words are not written
  [msg[t] EXCEPT !.status = gen[t].out.status]
Written(t) == [msg[t] EXCEPT !.status = gen[t].out.status, !.len = gen[t].got]

(* An await that did not return: the event or the row may be there or not. *)
Awaited(t) ==
  CASE At(t, "compose") -> {"meta"} [] At(t, "word") -> {"delta"}
    [] At(t, "bill") -> {"usage"} [] At(t, "cite") -> {"citations"}
    [] At(t, "end") -> {gen[t].out.event} [] OTHER -> {}
MaybeTold(t) == UNCHANGED buf \/ \E kind \in Awaited(t) : Append1(t, kind)
MaybeWritten(t) ==
  msg' \in {msg} \union (IF At(t, "persist") THEN {[msg EXCEPT ![t] = Written(t)]} ELSE {})

Persist(t) ==
  /\ At(t, "persist")
  /\ msg' = [msg EXCEPT ![t] = Written(t)]
  /\ Goto(t, "settle")
  /\ UNCHANGED <<conv, buf, streams, reader, scan, faults, others>>

(* settle_tokens; only _complete records the usage.                        *)
Settled(t) ==
  [gen[t] EXCEPT !.settled = @ + 1,
                 !.logged = @ \/ (gen[t].usage /\ gen[t].out.event = "done")]

(* Likewise, an await that did not return may have settled.                *)
MaybeSettled(t) == {gen[t]} \union (IF At(t, "settle") THEN {Settled(t)} ELSE {})

Settle(t) ==
  /\ At(t, "settle")
  /\ gen' = [gen EXCEPT ![t] =
       [Settled(t) EXCEPT !.pc = IF t \in Retrieving THEN "cite" ELSE "end"]]
  /\ UNCHANGED <<conv, msg, buf, streams, reader, scan, faults, others>>

EmitCitations(t) ==
  /\ At(t, "cite") /\ Append1(t, "citations") /\ Goto(t, "end")
  /\ UNCHANGED <<conv, msg, streams, reader, scan, faults, others>>

End(t) ==
  /\ At(t, "end") /\ Append1(t, gen[t].out.event) /\ Goto(t, "free")
  /\ UNCHANGED <<conv, msg, streams, reader, scan, faults, others>>

(* A provider error or any other exception inside the try; in a handler it *)
(* escapes to the background task.                                         *)
Raise(t) ==
  /\ gen[t].pc \in Producing \union {"persist"} /\ Fault
  /\ IF gen[t].caught THEN Goto(t, "free") ELSE Finish(t, Failed, gen[t].usage, TRUE)
  /\ MaybeTold(t) /\ MaybeWritten(t)
  /\ UNCHANGED <<conv, streams, reader, scan, others>>

SeededDegrade(t) ==                   \* seeded fault: the failure is failed once more
  /\ gen[t].pc \in {"settle", "cite", "end"} /\ Fault
  /\ IF gen[t].caught THEN Goto(t, "free") ELSE Finish(t, Failed, gen[t].usage, TRUE)
  /\ MaybeTold(t)
  /\ UNCHANGED <<conv, msg, streams, reader, scan, others>>

(* The one-way valve: after the row is written an exception only ends it.  *)
Degrade(t) ==
  /\ gen[t].pc \in {"settle", "cite", "end"} /\ Fault
  /\ \E g \in MaybeSettled(t) : gen' = [gen EXCEPT ![t] = [g EXCEPT !.pc = "free"]]
  /\ MaybeTold(t)
  /\ UNCHANGED <<conv, msg, streams, reader, scan, others>>

(* generate: the finally clause.                                           *)
Free(t) ==
  /\ At(t, "free") /\ Goto(t, "ended") /\ streams' = streams - 1
  /\ UNCHANGED <<conv, msg, buf, reader, scan, faults, others>>

Produce(t) == Compose(t) \/ TextDelta(t) \/ UsageDelta(t) \/ Tell(t) \/ DoneDelta(t) \/ SeeStop(t)
Wrap(t) == Persist(t) \/ Settle(t) \/ EmitCitations(t) \/ End(t) \/ Free(t)

-----------------------------------------------------------------------------
(***************************************************************************)
(* drain and the death of the process                                      *)
(***************************************************************************)
(* CancelledError is no Exception: it passes the valve and starts _fail,   *)
(* unless a handler was running already.                                   *)
Cancel(t) ==
  /\ gen[t].pc \in Background \ {"free"} /\ ~gen[t].cancelled /\ Fault
  /\ \E g \in MaybeSettled(t) :
       gen' = [gen EXCEPT ![t] =
         IF g.caught THEN [g EXCEPT !.pc = "free", !.cancelled = TRUE]
         ELSE [g EXCEPT !.pc = "persist", !.out = Interrupted, !.caught = TRUE,
                        !.cancelled = TRUE]]
  /\ MaybeTold(t) /\ MaybeWritten(t)
  /\ UNCHANGED <<conv, streams, reader, scan, others>>

Die(t) ==
  /\ gen[t].pc \in Holding /\ Fault
  /\ Goto(t, "dead")
  /\ MaybeTold(t) /\ MaybeWritten(t)
  /\ UNCHANGED <<conv, streams, reader, scan, others>>

-----------------------------------------------------------------------------
(***************************************************************************)
(* The client: openEventStream against stream_message and _sse             *)
(***************************************************************************)
Exists(t) == buf[t].ttl = "live"
Log == buf[Followed].log
Set(r) == reader' = r

Follow ==
  /\ reader.st = "off" /\ msg[Followed].status # "none"
  /\ Set([reader EXCEPT !.st = "connect"])
  /\ UNCHANGED <<conv, msg, gen, buf, streams, scan, faults, others>>

(* A broken connection or an error answer: again, up to MaxRetries times   *)
(* in a row; what was on the wire is lost.                                 *)
Retried(r) ==
  IF r.tries < MaxRetries THEN [r EXCEPT !.st = "connect", !.tries = @ + 1, !.wire = <<>>]
  ELSE [r EXCEPT !.st = "failed", !.wire = <<>>]

SeededResumeFrom(r) == r.pos          \* seeded fault: what was sent, not what arrived
ResumeFrom(r) == r.last

Connect ==
  /\ reader.st = "connect"
  /\ CASE conv = "deleted" -> Set(Retried(reader))
       [] conv = "live" /\ ~Exists(Followed)
            /\ (reader.last > 0 \/ msg[Followed].status # "streaming") ->
            Set([reader EXCEPT !.st = "expired"])
       [] OTHER -> Set([reader EXCEPT !.st = "open", !.pos = ResumeFrom(reader), !.misses = 0])
  /\ UNCHANGED <<conv, msg, gen, buf, streams, scan, faults, others>>

(* XREAD after the last number; the generator stops after a final event.   *)
Sent == \E i \in 1 .. reader.pos : Log[i] \in Final
Pump ==
  /\ reader.st = "open" /\ Exists(Followed) /\ ~Sent /\ reader.pos < Len(Log)
  /\ LET new == {i \in (reader.pos + 1) .. Len(Log) :
                   \A k \in (reader.pos + 1) .. (i - 1) : Log[k] \notin Final} IN
     Set([reader EXCEPT !.wire = @ \o [i \in 1 .. Cardinality(new) |-> reader.pos + i],
                        !.pos = @ + Cardinality(new), !.misses = 0])
  /\ UNCHANGED <<conv, msg, gen, buf, streams, scan, faults, others>>

Receive ==
  /\ reader.st = "open" /\ reader.wire # <<>>
  /\ LET n == Head(reader.wire) IN
     Set([reader EXCEPT !.wire = Tail(@), !.last = n, !.got = Append(@, n), !.tries = 0,
                        !.st = IF Log[n] \in Final THEN Log[n] ELSE "open"])
  /\ UNCHANGED <<conv, msg, gen, buf, streams, scan, faults, others>>

SeededMiss ==                         \* seeded fault: the absence is not counted
  /\ reader.st = "open" /\ reader.wire = <<>> /\ ~Exists(Followed) /\ ~Sent
  /\ Set([reader EXCEPT !.misses = 1])
  /\ UNCHANGED <<conv, msg, gen, buf, streams, scan, faults, others>>

(* A heartbeat without a stream to read: the second one in a row ends the  *)
(* answer with an error event of the endpoint's own.                       *)
Miss ==
  /\ reader.st = "open" /\ reader.wire = <<>> /\ ~Exists(Followed) /\ ~Sent
  /\ Set([reader EXCEPT !.misses = @ + 1,
                        !.st = IF reader.misses = 1 THEN "gaveup" ELSE "open"])
  /\ UNCHANGED <<conv, msg, gen, buf, streams, scan, faults, others>>

Drop ==
  /\ reader.st = "open" /\ Set(Retried(reader))
  /\ UNCHANGED <<conv, msg, gen, buf, streams, scan, faults, others>>

Read == Connect \/ Pump \/ Receive \/ Miss

(* stop_message: accepted whatever the state of the answer.                *)
Stop ==
  /\ conv = "live" /\ msg[Followed].status # "none" /\ ~buf[Followed].stop
  /\ buf' = [buf EXCEPT ![Followed].stop = TRUE]
  /\ UNCHANGED <<conv, msg, gen, streams, reader, scan, faults, others>>

Delete ==
  /\ conv = "live" /\ conv' = "deleted"
  /\ UNCHANGED <<msg, gen, buf, streams, reader, scan, faults, others>>

-----------------------------------------------------------------------------
(***************************************************************************)
(* Time and Beat                                                           *)
(***************************************************************************)
Expire(t) ==
  /\ Exists(t) /\ gen[t].pc \in {"ended", "dead"}
  /\ buf' = [buf EXCEPT ![t].ttl = "gone"]
  /\ UNCHANGED <<conv, msg, gen, streams, reader, scan, faults, others>>

SeededStuck ==                        \* seeded fault: only answers that have a stream
  {t \in Turns : msg[t].status = "streaming" /\ buf[t].ttl # "none"}
(* stuck_streaming: by the age of the row alone, so any answer that still  *)
(* streams may be old enough.                                              *)
Stuck == {t \in Turns : msg[t].status = "streaming"}

RescueList ==
  /\ scan = {} /\ scan' \in SUBSET Stuck \ {{}}
  /\ UNCHANGED <<conv, msg, gen, buf, streams, reader, faults, others>>

(* set_status of a listed answer, whatever it has become; content is kept. *)
RescueMark(t) ==
  /\ t \in scan /\ scan' = scan \ {t}
  /\ msg' = [msg EXCEPT ![t].status = "interrupted"]
  /\ UNCHANGED <<conv, gen, buf, streams, reader, faults, others>>

Next ==
  \/ \E t \in Turns :
       \/ Ask(t) \/ Reserve(t) \/ Create(t) \/ Spawn(t)
       \/ Produce(t) \/ ErrorDelta(t) \/ Raise(t) \/ Wrap(t) \/ Degrade(t)
       \/ Cancel(t) \/ Die(t) \/ Expire(t) \/ RescueMark(t)
  \/ RescueList \/ Stop \/ Follow \/ Read \/ Drop \/ Delete

Spec == Init /\ [][Next]_vars

(* The event loop keeps running, requests finish, keys expire, Beat scans. *)
Fairness ==
  /\ \A t \in Turns : /\ WF_vars(Reserve(t) \/ Create(t) \/ Spawn(t))
                      /\ WF_vars(Produce(t)) /\ WF_vars(Wrap(t))
                      /\ WF_vars(Expire(t)) /\ WF_vars(RescueMark(t))
  /\ WF_vars(RescueList) /\ WF_vars(Read)

FairSpec == Spec /\ Fairness

-----------------------------------------------------------------------------
(* Who has seen the end of an answer finds the finished row, with every    *)
(* word that was streamed: the row is written before the final event, and  *)
(* whatever a failure, a shutdown or the scan writes later keeps the       *)
(* words.  At most the one word whose event could not be written is in the *)
(* row alone, and none when the answer ended with done (chat.py:278-279,   *)
(* 563-567, rescue.py:58-60).                                              *)
Told(t, kind) == {i \in DOMAIN buf[t].log : buf[t].log[i] = kind}

FinalEventIsPersisted ==
  \A t \in Turns : Told(t, "done") \union Told(t, "error") # {} =>
    LET words == Cardinality(Told(t, "delta")) IN
    /\ msg[t].status \in Ended /\ msg[t].len \in {words, words + 1}
    /\ Told(t, "done") # {} => msg[t].len = words

(* Over any number of broken connections the client gets every event once  *)
(* and in order (sse.ts:186-193, streams.py:103-107).                      *)
EventsArriveOnce == reader.got = [i \in 1 .. Len(reader.got) |-> i]

(* The tenant's stream counter is the turns at work and those whose        *)
(* process died: no other path keeps a slot (chat.py:201-206).             *)
SlotsAreReturned ==
  streams = others + Cardinality({t \in Turns : gen[t].pc \in Holding \union {"dead"}})

(* The token reservation is settled once, whatever fails, unless the       *)
(* shutdown cancels the turn (chat.py:494-499, 586-588).                   *)
SettledOnce == \A t \in Turns : gen[t].settled <= 1 \/ gen[t].cancelled

(* Every answer that was begun ends, also when its process dies            *)
(* (rescue.py:1-20).                                                       *)
AnswersEnd == \A t \in Turns : msg[t].status = "streaming" ~> msg[t].status \in Ended

(* No client waits for ever (conversations.py:337-344).                    *)
ReadersEnd == reader.st \in {"connect", "open"} ~> reader.st \notin {"connect", "open"}

(* ChatService._run_turn, _settle and the rescue: a turn is settled on     *)
(* both books, the stream counter and the token reservation.               *)
TurnsAreSettled == SlotsAreReturned /\ SettledOnce

(* StreamRescueService and the SSE endpoint: neither an answer nor its     *)
(* reader is left hanging.                                                 *)
ChatEnds == AnswersEnd /\ ReadersEnd

(***************************************************************************)
(* A claim of the sources that the code does not keep                      *)
(***************************************************************************)
(* usage.py:3-4, chat.py:447-451: usage the provider reported reaches      *)
(* usage_logs, from which quota is reconciled; a finished turn that had    *)
(* usage has a row there.                                                  *)
UsageIsLogged ==
  \A t \in Turns : gen[t].pc = "ended" /\ gen[t].settled = 1 /\ gen[t].usage => gen[t].logged
=============================================================================
