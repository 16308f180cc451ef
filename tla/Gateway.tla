------------------------------ MODULE Gateway ------------------------------
(***************************************************************************)
(* AIGateway: one call of stream_chat or embed, through the adapter of an  *)
(* OpenAI-compatible provider.  The provider and the network answer as     *)
(* they like; the caller of a stream may leave at any time.                *)
(*                                                                         *)
(* A piece of text is the attempt it comes from; the wire is what the      *)
(* adapter has understood of the current answer.                           *)
(***************************************************************************)
EXTENDS Naturals, Sequences, FiniteSets

CONSTANTS
  Models,       \* the model that was asked for and the fall-backs
  Tries,        \* attempts for each model
  MaxTexts,     \* bound on the pieces of one answer
  Batch,        \* texts in a call of embed
  Providers     \* settings: the name of the provider and its key

ASSUME GatewayAssumption ==
  /\ {Models, Tries, Batch} \subseteq Nat \ {0} /\ MaxTexts \in Nat
  /\ Providers \subseteq [name : {"mock", "cloud", "local", "typo"}, key : {"unset", "empty", "set"}]

VARIABLES
  provider, \* the settings the gateway is built from
  ask,      \* "chat" or "embed"
  phase,
  at,       \* model and attempt
  wire,     \* what the adapter has read of the answer
  queue,    \* what is ready to be handed over
  counted,  \* usage_seen
  out,      \* what the caller has got
  conn,     \* a connection to the provider is open
  paid      \* batches the provider has computed: usable, of a wrong width, garbled

gatewayVars == <<provider, ask, phase, at, wire, queue, counted, out, conn, paid>>

-----------------------------------------------------------------------------
Closed == {"off", "misconfigured", "done", "raised", "left"}
Quiet == [texts |-> 0, tool |-> FALSE, finish |-> FALSE, usage |-> FALSE, done |-> FALSE]
Part(kind) == [kind |-> kind, from |-> at]
Started == out # <<>>
Unpaid == [good |-> 0, wide |-> 0, garbled |-> 0]

GatewayTypeOK ==
  /\ provider \in Providers /\ ask \in {"chat", "embed"}
  /\ phase \in Closed \union {"build", "try", "read", "flush", "tail"}
  /\ at \in [model : 1 .. Models, try : 1 .. Tries] /\ wire.texts \in 0 .. MaxTexts
  /\ ask = "embed" => at.model = 1
  /\ {counted, conn} \subseteq BOOLEAN /\ Len(queue) <= 3
  /\ Len(out) <= IF ask = "chat" THEN MaxTexts + 3 ELSE Batch
  /\ paid.good + paid.wide + paid.garbled <= Tries

GatewayBegin(first) ==
  /\ provider \in Providers /\ ask \in {"chat", "embed"} /\ phase = first
  /\ at = [model |-> 1, try |-> 1] /\ wire = Quiet /\ queue = <<>> /\ counted = FALSE
  /\ out = <<>> /\ conn = FALSE /\ paid = Unpaid
GatewayInit == GatewayBegin("build")
GatewayOff == GatewayBegin("off") /\ ask = "chat" /\ provider = CHOOSE p \in Providers : TRUE

(* build_gateway: an unknown name or a missing key fails at once.          *)
NeedsKey(p) == p.name = "cloud"
SeededBuildable(p) == p.name # "typo" /\ (NeedsKey(p) => p.key # "unset")  \* seeded fault: an empty key is a key
Buildable(p) == p.name # "typo" /\ (NeedsKey(p) => p.key = "set")

Build ==
  /\ phase = "build" /\ phase' = IF Buildable(provider) THEN "try" ELSE "misconfigured"
  /\ UNCHANGED <<provider, ask, at, wire, queue, counted, out, conn, paid>>

-----------------------------------------------------------------------------
(***************************************************************************)
(* Failures                                                                *)
(***************************************************************************)
(* _error_for: 429, 401 and 403, 400 and 404, the rest; and _post, of what *)
(* gives no answer, or one that is none.  The type decides.                *)
Refusals == {"limited", "refused", "not_enabled", "unavailable"}
Breakdowns == {"timeout", "unavailable"}
Errors == Refusals \union Breakdowns
SeededRetryable(e) == e # "refused"   \* seeded fault: a wrong width and an unknown model are retried
Retryable(e) == e \notin {"refused", "not_enabled", "width"}

LastTry == at.try = Tries
SeededLastModel == at.model = Models  \* seeded fault: vectors of another model are taken
LastModel == ask = "embed" \/ at.model = Models
NextTry == IF LastTry THEN [model |-> at.model + 1, try |-> 1] ELSE [at EXCEPT !.try = @ + 1]

(* _StreamState.interrupted: what was made is counted, then the error.     *)
SeededTail == <<Part("error")>>       \* seeded fault: a broken stream is not counted
ErrorTail == (IF counted THEN <<>> ELSE <<Part("usage")>>) \o <<Part("error")>>

SeededOver == FALSE                   \* seeded fault: the watershed is forgotten
Over == Started

(* The connection of the attempt is closed, whatever follows.              *)
Raise(e) ==
  /\ conn' = FALSE /\ wire' = Quiet
  /\ \/ Over /\ phase' = "tail" /\ queue' = ErrorTail /\ UNCHANGED at
     \/ /\ ~Over /\ (~Retryable(e) \/ (LastTry /\ LastModel))
        /\ phase' = "raised" /\ queue' = <<>> /\ UNCHANGED at
     \/ /\ ~Over /\ Retryable(e) /\ ~(LastTry /\ LastModel)
        /\ phase' = "try" /\ at' = NextTry /\ queue' = <<>>

-----------------------------------------------------------------------------
(***************************************************************************)
(* stream_chat                                                             *)
(***************************************************************************)
Open ==
  /\ phase = "try" /\ ask = "chat"
  /\ phase' = "read" /\ conn' = TRUE /\ wire' = Quiet
  /\ UNCHANGED <<provider, ask, at, queue, counted, out, paid>>

Rejected ==
  /\ phase = "try" /\ ask = "chat" /\ \E e \in Errors : Raise(e)
  /\ UNCHANGED <<provider, ask, counted, out, paid>>

(* _parse_stream: a line that carries text is handed over at once.         *)
Text ==
  /\ phase = "read" /\ wire.texts < MaxTexts
  /\ wire' = [wire EXCEPT !.texts = @ + 1] /\ out' = Append(out, Part("text"))
  /\ UNCHANGED <<provider, ask, phase, at, queue, counted, conn, paid>>

(* Everything else is kept until the answer has ended.                     *)
Line ==
  /\ phase = "read"
  /\ wire' \in {[wire EXCEPT !.tool = TRUE], [wire EXCEPT !.finish = TRUE],
                [wire EXCEPT !.usage = TRUE]}
  /\ UNCHANGED <<provider, ask, phase, at, queue, counted, out, conn, paid>>

SeededWhole(done) == TRUE             \* seeded fault: a closed connection is the end of an answer
Whole(done) == done \/ wire.finish

(* [DONE], or the connection is closed.                                    *)
Kept == (IF wire.tool THEN <<Part("tool")>> ELSE <<>>)
        \o (IF wire.usage THEN <<Part("usage")>> ELSE <<>>) \o <<Part("done")>>
End ==
  /\ phase = "read"
  /\ \E done \in BOOLEAN :
       \/ /\ Whole(done) /\ phase' = "flush" /\ queue' = Kept
          /\ wire' = [wire EXCEPT !.done = done] /\ UNCHANGED <<at, conn>>
       \/ ~Whole(done) /\ Raise("unavailable")
  /\ UNCHANGED <<provider, ask, counted, out, paid>>

(* The network breaks, the first piece or the whole answer takes too long, *)
(* or the adapter fails in a way it does not translate.                    *)
SeededMayExpire == phase = "read" /\ ~Started   \* seeded fault: only the first piece has a time
MayExpire == phase \in {"read", "flush"}
Expire ==
  /\ MayExpire /\ Raise("timeout")
  /\ UNCHANGED <<provider, ask, counted, out, paid>>

Drop ==
  /\ phase = "read" /\ Raise("unavailable")
  /\ UNCHANGED <<provider, ask, counted, out, paid>>

(* _attempt: the usage is made up when the provider sent none.             *)
SeededOwed == <<>>                    \* seeded fault: no estimate
Owed == IF counted THEN <<>> ELSE <<Part("usage")>>

Hand ==
  /\ phase = "flush" /\ Head(queue).kind # "done"
  /\ out' = Append(out, Head(queue)) /\ queue' = Tail(queue)
  /\ counted' = (counted \/ Head(queue).kind = "usage")
  /\ UNCHANGED <<provider, ask, phase, at, wire, conn, paid>>

(* Handed over before the end, so that it is never left out.               *)
HandOwed ==
  /\ phase = "flush" /\ Head(queue).kind = "done" /\ Owed # <<>>
  /\ out' = out \o Owed /\ counted' = TRUE
  /\ UNCHANGED <<provider, ask, phase, at, wire, queue, conn, paid>>

HandDone ==
  /\ phase = "flush" /\ Head(queue).kind = "done" /\ Owed = <<>>
  /\ out' = Append(out, Head(queue)) /\ queue' = <<>> /\ phase' = "done" /\ conn' = FALSE
  /\ UNCHANGED <<provider, ask, at, wire, counted, paid>>

HandTail ==
  /\ phase = "tail"
  /\ out' = Append(out, Head(queue)) /\ queue' = Tail(queue)
  /\ phase' = IF Len(queue) = 1 THEN "done" ELSE "tail"
  /\ UNCHANGED <<provider, ask, at, wire, counted, conn, paid>>

(* The caller stops reading: the chain of generators is closed.            *)
SeededAfterLeave == conn              \* seeded fault: left to the garbage collector
AfterLeave == FALSE
Leave ==
  /\ ask = "chat" /\ phase \in {"try", "read", "flush", "tail"}
  /\ phase' = "left" /\ conn' = AfterLeave
  /\ UNCHANGED <<provider, ask, at, wire, queue, counted, out, paid>>

-----------------------------------------------------------------------------
(***************************************************************************)
(* embed                                                                   *)
(***************************************************************************)
(* A row names the text it is for, 0 when that name is left out.  Providers *)
(* name every row, leave out the first, or name none and keep the order.   *)
Orders == {p \in [1 .. Batch -> 1 .. Batch] : \A i, j \in 1 .. Batch : i # j => p[i] # p[j]}
Rows(p, named) == [i \in 1 .. Batch |-> [of |-> p[i], named |-> named[i], index |-> p[i] - 1]]
Answers ==
  {Rows(p, [i \in 1 .. Batch |-> TRUE]) : p \in Orders}
    \union {Rows(p, [i \in 1 .. Batch |-> p[i] # 1]) : p \in Orders}
    \union {Rows([i \in 1 .. Batch |-> i], [i \in 1 .. Batch |-> FALSE])}
Garbled == {[i \in 1 .. n |-> [of |-> i, named |-> TRUE, index |-> 1]] : n \in {Batch - 1, Batch}}

(* _parse and _ordered: <<>> is a refusal.                                 *)
OneEach(rows) == Len(rows) = Batch
IndexOf(row) == IF row.named THEN row.index ELSE 0
SeededOrdered(rows) == rows           \* seeded fault: the order of the answer is taken
Ordered(rows) ==
  IF ~OneEach(rows) THEN <<>>
  ELSE IF {IndexOf(rows[i]) : i \in 1 .. Batch} = 0 .. (Batch - 1)
       THEN [k \in 1 .. Batch |-> rows[CHOOSE i \in 1 .. Batch : IndexOf(rows[i]) = k - 1]]
  ELSE IF \A i \in 1 .. Batch : ~rows[i].named THEN rows ELSE <<>>

Embedded ==
  /\ phase = "try" /\ ask = "embed"
  /\ \E rows \in Answers \union Garbled, wide \in BOOLEAN :
       LET vectors == Ordered(rows) IN
       \/ /\ vectors = <<>> /\ Raise("unavailable")
          /\ paid' = [paid EXCEPT !.garbled = @ + 1] /\ UNCHANGED out
       \/ /\ vectors # <<>> /\ wide /\ Raise("width")
          /\ paid' = [paid EXCEPT !.wide = @ + 1] /\ UNCHANGED out
       \/ /\ vectors # <<>> /\ ~wide /\ phase' = "done"
          /\ out' = [i \in 1 .. Len(vectors) |-> vectors[i].of]
          /\ paid' = [paid EXCEPT !.good = @ + 1] /\ UNCHANGED <<at, wire, queue, conn>>
  /\ UNCHANGED <<provider, ask, counted>>

(* _call_once: what an adapter did not translate is unavailable or, when   *)
(* it took long, a timeout; both are retried.                              *)
NotEmbedded ==
  /\ phase = "try" /\ ask = "embed" /\ \E e \in Errors : Raise(e)
  /\ UNCHANGED <<provider, ask, counted, out, paid>>

-----------------------------------------------------------------------------
GatewayNext ==
  \/ Build \/ Open \/ Rejected \/ Text \/ Line \/ End \/ Expire \/ Drop
  \/ Hand \/ HandOwed \/ HandDone \/ HandTail \/ Leave \/ Embedded \/ NotEmbedded

(* The gateway goes on, and its clock runs while a provider answers.       *)
GatewayFairness ==
  /\ WF_gatewayVars(Build \/ Open \/ Rejected \/ Hand \/ HandOwed \/ HandDone \/ HandTail
                    \/ Embedded \/ NotEmbedded)
  /\ WF_gatewayVars(Expire)

-----------------------------------------------------------------------------
CountOf(kind) == Cardinality({i \in 1 .. Len(out) : out[i].kind = kind})

Said == IF ask = "chat" THEN CountOf("text") + CountOf("tool") ELSE 0
Ending ==
  IF ask # "chat" THEN "open"
  ELSE IF phase = "raised" THEN "refused"
  ELSE IF phase = "left" THEN "left"
  ELSE IF CountOf("done") > 0 THEN "complete"
  ELSE IF CountOf("error") > 0 THEN "interrupted"
  ELSE IF CountOf("usage") > 0 THEN "counted" ELSE "open"
Promise == INSTANCE DeltaStream WITH said <- Said, ending <- Ending

(* stream_chat, its four guarantees: one usage and before the end, the end *)
(* last and only once, an exception only while nothing was handed over.    *)
StreamKeepsItsPromise == Promise!Spec

(* stream_chat: all that a caller reads comes from one attempt with one    *)
(* model, and nothing is tried after it began.                             *)
OneVoice == ask = "chat" =>
  \A i \in 1 .. Len(out) : out[i].from = at

(* _parse_stream and _attempt: a stream that ends in done is the whole     *)
(* answer of the provider: it said so, and every piece was handed over.    *)
DoneIsWhole == ask = "chat" /\ CountOf("done") > 0 =>
  (wire.finish \/ wire.done) /\ CountOf("text") = wire.texts

(* aclosing: when a call is over, however it ended, no connection is left. *)
NothingStaysOpen == phase \in Closed => ~conn

(* build_gateway: no call is made without the key it needs.                *)
CallsCarryAKey ==
  phase \notin Closed \union {"build"} /\ NeedsKey(provider) => provider.key = "set"

(* _ordered: the vector of a text is the one the provider made for it.     *)
VectorsMatch == ask = "embed" /\ phase = "done" => out = [i \in 1 .. Batch |-> i]

(* _check_dimensions: vectors that no retry can make usable are bought     *)
(* once, and usable ones are never bought twice.                           *)
BoughtOnce == paid.good + paid.wide <= 1

(* ChatTimeouts: every call ends, also when the provider never does.       *)
CallsEnd == (phase = "build") ~> (phase \in Closed)

(* stream_chat and its adapters: what the caller reads is the whole answer *)
(* of one attempt, and nothing stays behind.                               *)
StreamsAreWhole == OneVoice /\ DoneIsWhole /\ NothingStaysOpen

(* embed and build_gateway: what is paid for can be used.                  *)
CallsAreSound == CallsCarryAKey /\ VectorsMatch /\ BoughtOnce
=============================================================================
