----------------------------- MODULE ChatClient -----------------------------
(***************************************************************************)
(* The chat page: many conversations, one list of messages, one buffer for *)
(* the answer that is being written, one connection that fills it.  The    *)
(* store outlives the page; what a page awaits goes on after it has left.  *)
(*                                                                         *)
(* Answers are numbers, in the order the server creates them.  A delta is  *)
(* <<answer, position>>.                                                   *)
(***************************************************************************)
EXTENDS Integers, FiniteSets, Sequences, FiniteSetsExt

CONSTANTS
  Chats,          \* conversations that exist
  Landing,        \* where the page is opened: some of them, or "new"
  Fresh,          \* the one that a first question creates
  Answers,        \* how many answers there may be
  Beginnings,     \* what may be written at first: the conversations of the first answers
  Deltas,         \* deltas of an answer
  MaxMoves        \* bound on what the user opens, asks, leaves or deletes, and on what fails

ASSUME ChatClientAssumption ==
  /\ Fresh \notin Chats /\ {"new", "away"} \intersect (Chats \union {Fresh}) = {}
  /\ Landing \subseteq Chats \union {"new"}
  /\ {Answers, Deltas, MaxMoves} \subseteq Nat /\ \A b \in Beginnings : Len(b) <= Answers

VARIABLES
  page,       \* the conversation of the route, "new", or "away"
  tab,        \* how many pages there were: a page has its own connection
  current,    \* currentConversationId
  shown,      \* messages: [of, asked, pending, ended]
  buffer,     \* streaming: [id, chat, got, status]
  newest,     \* messagesRequestId
  fetches,    \* requests for messages: [no, chat, why, tab, id, run, reply]
  posts,      \* questions on their way: [chat, tab, id], id = 0 before the server has it
  runs,       \* by page: runId
  streams,      \* connections: [tab, run, id, chat, next, live]
  answer,     \* the server: [chat, made, status]
  deserted,   \* history: a page was left that still waited for an answer
  moves

chatClientVars ==
  <<page, tab, current, shown, buffer, newest, fetches, posts, runs, streams, answer, deserted, moves>>

-----------------------------------------------------------------------------
None == "none"
Ids == 1 .. Answers
AllChats == Chats \union {Fresh}
NoAnswer == [chat |-> None, made |-> 0, status |-> "none"]
Blank == [of |-> None, asked |-> {}, pending |-> {}, ended |-> {}]
NoBuffer == [id |-> 0, chat |-> None, got |-> <<>>, status |-> None]
NoReply == Blank

FetchOf(no, c, why, t, id, run) ==
  [no |-> no, chat |-> c, why |-> why, tab |-> t, id |-> id, run |-> run, reply |-> NoReply]

(* What the server answers for a conversation, at one moment.              *)
Snapshot(c) ==
  LET of == {i \in Ids : answer[i].chat = c}
  IN [of |-> c, asked |-> of, pending |-> {i \in of : answer[i].status = "streaming"},
      ended |-> {i \in of : answer[i].status \in {"completed", "failed"}}]

(* streamingHere, isGenerating                                             *)
Here == buffer.id # 0 /\ buffer.chat = page
GeneratingHere == Here /\ buffer.status \in {"streaming", "stopping"}

(* bufferFor                                                               *)
SeededBufferFor(id) == buffer.id # 0
BufferFor(id) == buffer.id # 0 /\ buffer.id = id

(* The guard of every handler: this run was not replaced.                  *)
SeededOwn(t, run) == TRUE
Own(t, run) == run = runs[t]

ChatClientTypeOK ==
  /\ page \in AllChats \union {"new", "away"} /\ current \in AllChats \union {None} /\ tab \in 1 .. MaxMoves + 1
  /\ shown.of \in AllChats \union {None} /\ shown.pending \intersect shown.ended = {}
  /\ buffer.id \in 0 .. Answers /\ buffer.status \in {None, "streaming", "stopping", "error"}
  /\ \A f \in fetches : f.no \in 1 .. newest /\ f.reply.of \in {None, f.chat}
  /\ \A k \in streams : k.live => k.run = runs[k.tab]
  /\ \A i \in Ids : answer[i].made \in 0 .. Deltas /\ (answer[i].status = "none" <=> answer[i].chat = None)

ChatClientBegin(first, begun) ==
  /\ page = first /\ tab = 1 /\ shown = Blank /\ buffer = NoBuffer /\ posts = {} /\ streams = {} /\ moves = 0
  /\ deserted = FALSE
  /\ runs = [t \in 1 .. MaxMoves + 1 |-> 0]
  /\ answer = [i \in Ids |->
       IF i <= Len(begun) THEN [chat |-> begun[i], made |-> 0, status |-> "streaming"] ELSE NoAnswer]
  /\ IF first \in Chats
       THEN newest = 1 /\ current = first /\ fetches = {FetchOf(1, first, "open", 1, 0, 0)}
       ELSE newest = 0 /\ current = None /\ fetches = {}
ChatClientInit == \E p \in Landing, b \in Beginnings : ChatClientBegin(p, b)
ChatClientOff == ChatClientBegin("away", <<>>)     \* nobody opens the page

-----------------------------------------------------------------------------
(* fetchMessages, up to the answer                                         *)
Fetch(c, why, t, id, run) ==
  /\ newest' = newest + 1 /\ current' = c
  /\ fetches' = fetches \union {FetchOf(newest + 1, c, why, t, id, run)}

(* beginStreaming, then start: the connection this page had is aborted,    *)
(* the one of an earlier page is not.                                      *)
Stream(t, id, c) ==
  /\ buffer' = [id |-> id, chat |-> c, got |-> <<>>, status |-> "streaming"]
  /\ runs' = [runs EXCEPT ![t] = @ + 1]
  /\ streams' = {[k EXCEPT !.live = @ /\ k.tab # t] : k \in streams}
                \union {[tab |-> t, run |-> runs[t] + 1, id |-> id, chat |-> c, next |-> 1, live |-> TRUE]}

(* The route changes to a conversation: the watch fetches it.  From        *)
(* elsewhere it is a new page, with a composable of its own.               *)
OpenChat(c) ==
  /\ page # c /\ moves < MaxMoves
  /\ c \in Chats \/ \E i \in Ids : answer[i].chat = c
  /\ page = "away" => moves > 0
  /\ page' = c /\ moves' = moves + 1
  /\ tab' = IF page = "away" THEN tab + 1 ELSE tab
  /\ Fetch(c, "open", tab', 0, 0)
  /\ UNCHANGED <<shown, buffer, posts, runs, streams, answer, deserted>>

(* startNew: the page is emptied, messagesRequestId stays.                 *)
StartNew ==
  /\ page \in AllChats /\ moves < MaxMoves
  /\ page' = "new" /\ current' = None /\ shown' = Blank /\ moves' = moves + 1
  /\ UNCHANGED <<tab, buffer, newest, fetches, posts, runs, streams, answer, deserted>>

(* Unmounted: onScopeDispose aborts the connection, and nothing else.      *)
Leave ==
  /\ page # "away" /\ moves < MaxMoves
  /\ deserted' = (deserted \/ fetches \union posts # {})
  /\ page' = "away" /\ moves' = moves + 1
  /\ streams' = {k \in streams : k.tab # tab}
  /\ UNCHANGED <<tab, current, shown, buffer, newest, fetches, posts, runs, answer>>

(* send: the composer is open while nothing is generated here.             *)
Ask ==
  /\ page # "away" /\ ~GeneratingHere /\ moves < MaxMoves /\ moves' = moves + 1
  /\ Cardinality({i \in Ids : answer[i].status # "none"}) + Cardinality({p \in posts : p.id = 0}) < Answers
  /\ page = "new" => \A p \in posts : p.chat # Fresh
  /\ page = "new" => \A i \in Ids : answer[i].chat # Fresh
  /\ posts' =
       posts \union {[chat |-> IF page = "new" THEN Fresh ELSE page, tab |-> tab, id |-> 0, made |-> page # "new"]}
  /\ UNCHANGED <<page, tab, current, shown, buffer, newest, fetches, runs, streams, answer, deserted>>

(* createConversation has answered: the page goes to it without a fetch,   *)
(* and the question is sent.  Navigating from another route mounts a page. *)
Created(p) ==
  /\ ~p.made /\ current' = p.chat /\ page' = p.chat
  /\ tab' = IF page = "away" THEN tab + 1 ELSE tab
  /\ posts' = (posts \ {p}) \union {[p EXCEPT !.made = TRUE]}
  /\ IF page = "away"
       THEN /\ newest' = newest + 1
            /\ fetches' = fetches \union {FetchOf(newest + 1, p.chat, "open", tab', 0, 0)}
       ELSE UNCHANGED <<newest, fetches>>
  /\ UNCHANGED <<shown, buffer, runs, streams, answer, moves, deserted>>

Accept(p) ==
  /\ p.made /\ p.id = 0
  /\ LET i == Min({j \in Ids : answer[j].status = "none"})
     IN /\ answer' = [answer EXCEPT ![i] = [chat |-> p.chat, made |-> 0, status |-> "streaming"]]
        /\ posts' = (posts \ {p}) \union {[p EXCEPT !.id = i]}
  /\ UNCHANGED <<page, tab, current, shown, buffer, newest, fetches, runs, streams, moves, deserted>>

SendReturns(p) ==
  /\ p.id # 0 /\ posts' = posts \ {p}
  /\ shown' = IF p.chat = current THEN [shown EXCEPT !.asked = @ \union {p.id}] ELSE shown
  /\ Stream(p.tab, p.id, p.chat)
  /\ UNCHANGED <<page, tab, current, newest, fetches, answer, moves, deserted>>

NotSent(p) ==
  /\ moves < MaxMoves /\ moves' = moves + 1 /\ posts' = posts \ {p}
  /\ UNCHANGED <<page, tab, current, shown, buffer, newest, fetches, runs, streams, answer, deserted>>

-----------------------------------------------------------------------------
(* The server reads the messages; its answer arrives later, or not.        *)
Reply(f) ==
  /\ f.reply = NoReply
  /\ fetches' = (fetches \ {f}) \union {[f EXCEPT !.reply = Snapshot(f.chat)]}
  /\ UNCHANGED <<page, tab, current, shown, buffer, newest, posts, runs, streams, answer, moves, deserted>>

(* An answer that was overtaken is dropped.  Then resumeUnfinished looks   *)
(* for a pending answer in whatever the store has, or finishStreaming      *)
(* clears the buffer if it is still its own.                               *)
Fetched(f) ==
  /\ f.reply # NoReply /\ fetches' = fetches \ {f}
  /\ shown' = IF f.no = newest THEN f.reply ELSE shown
  /\ CASE f.why = "open" /\ shown'.pending # {} -> Stream(f.tab, Min(shown'.pending), f.chat)
       [] f.why # "open" /\ BufferFor(f.id) -> buffer' = NoBuffer /\ UNCHANGED <<runs, streams>>
       [] OTHER -> UNCHANGED <<buffer, runs, streams>>
  /\ UNCHANGED <<page, tab, current, newest, posts, answer, moves, deserted>>

(* finishStreaming: only what is on the page is fetched again.             *)
Finish(id, why, t, run) ==
  IF BufferFor(id) /\ buffer.chat = current
    THEN Fetch(buffer.chat, why, t, id, run) /\ UNCHANGED buffer
    ELSE buffer' = (IF BufferFor(id) THEN NoBuffer ELSE buffer) /\ UNCHANGED <<newest, current, fetches>>

(* A fetch fails: a page that opened shows a toast; after done, the end of *)
(* the run tries once more and then says that the connection is lost.      *)
NotFetched(f) ==
  /\ moves < MaxMoves /\ moves' = moves + 1
  /\ IF f.why = "done" /\ Own(f.tab, f.run) /\ BufferFor(f.id) /\ buffer.chat = current
       THEN /\ newest' = newest + 1
            /\ fetches' = (fetches \ {f}) \union
                 {[f EXCEPT !.no = newest + 1, !.why = "again", !.chat = buffer.chat, !.reply = NoReply]}
            /\ current' = buffer.chat /\ UNCHANGED buffer
       ELSE /\ fetches' = fetches \ {f}
            /\ buffer' = CASE f.why = "done" /\ Own(f.tab, f.run) /\ BufferFor(f.id) -> NoBuffer
                           [] f.why = "again" /\ BufferFor(f.id) -> [buffer EXCEPT !.status = "error"]
                           [] OTHER -> buffer
            /\ UNCHANGED <<newest, current>>
  /\ UNCHANGED <<page, tab, shown, posts, runs, streams, answer, deserted>>

-----------------------------------------------------------------------------
Write(i) ==
  /\ answer[i].status = "streaming"
  /\ \/ answer[i].made < Deltas /\ answer' = [answer EXCEPT ![i].made = @ + 1]
     \/ answer' = [answer EXCEPT ![i].status = "completed"]
     \/ answer' = [answer EXCEPT ![i].status = "failed"]
  /\ UNCHANGED <<page, tab, current, shown, buffer, newest, fetches, posts, runs, streams, moves, deserted>>

(* onEvent.  An aborted connection has at most one event in the air.       *)
Hear(k) ==
  LET a == answer[k.id] IN
  /\ a.chat = k.chat
  /\ IF k.next <= a.made
       THEN /\ buffer' = IF Own(k.tab, k.run) /\ BufferFor(k.id)
                           THEN [buffer EXCEPT !.got = Append(@, <<k.id, k.next>>)] ELSE buffer
            /\ streams' = (streams \ {k}) \union IF k.live THEN {[k EXCEPT !.next = @ + 1]} ELSE {}
            /\ UNCHANGED <<newest, current, fetches>>
       ELSE /\ a.status \in {"completed", "failed"} /\ streams' = streams \ {k}
            /\ CASE ~Own(k.tab, k.run) -> UNCHANGED <<buffer, newest, current, fetches>>
                 [] Own(k.tab, k.run) /\ a.status = "completed" -> Finish(k.id, "done", k.tab, k.run)
                 [] OTHER -> /\ buffer' = IF BufferFor(k.id) THEN [buffer EXCEPT !.status = "error"] ELSE buffer
                             /\ UNCHANGED <<newest, current, fetches>>
  /\ UNCHANGED <<page, tab, shown, posts, runs, answer, moves, deserted>>

(* openEventStream gives up: no such message in that conversation, the     *)
(* retries are used up, or the buffer of the server has expired.  A retry  *)
(* that succeeds goes on after the last event.                             *)
GiveUp(k) ==
  LET lost == answer[k.id].chat # k.chat IN
  /\ k.live /\ (lost \/ moves < MaxMoves) /\ moves' = (IF lost THEN moves ELSE moves + 1)
  /\ streams' = streams \ {k}
  /\ \/ /\ buffer' = IF BufferFor(k.id) THEN [buffer EXCEPT !.status = "error"] ELSE buffer
        /\ UNCHANGED <<newest, current, fetches>>
     \/ ~lost /\ Finish(k.id, "again", k.tab, k.run)
  /\ UNCHANGED <<page, tab, shown, posts, runs, answer, deserted>>

Silence(k) ==
  /\ ~k.live /\ streams' = streams \ {k}
  /\ UNCHANGED <<page, tab, current, shown, buffer, newest, fetches, posts, runs, answer, moves, deserted>>

(* stopStreaming: accepted, not yet stopped.                               *)
Stop ==
  /\ Here /\ buffer.status = "streaming" /\ buffer' = [buffer EXCEPT !.status = "stopping"]
  /\ UNCHANGED <<page, tab, current, shown, newest, fetches, posts, runs, streams, answer, moves, deserted>>

(* deleteConversation; the sidebar then starts a new one if it was open.   *)
DeleteChat(c) ==
  /\ page # "away" /\ moves < MaxMoves /\ moves' = moves + 1
  /\ answer' = [i \in Ids |->
       IF answer[i].chat = c THEN [answer[i] EXCEPT !.chat = "gone", !.status = "gone"] ELSE answer[i]]
  /\ \E i \in Ids : answer[i].chat = c
  /\ page' = IF page = c THEN "new" ELSE page
  /\ current' = IF c \in {current, page} THEN None ELSE current
  /\ shown' = IF c \in {current, page} THEN Blank ELSE shown
  /\ buffer' = IF buffer.chat = c THEN NoBuffer ELSE buffer
  /\ UNCHANGED <<tab, newest, fetches, posts, runs, streams, deserted>>

-----------------------------------------------------------------------------
ChatClientNext ==
  \/ \E c \in AllChats : OpenChat(c) \/ DeleteChat(c)
  \/ StartNew \/ Leave \/ Ask \/ Stop
  \/ \E p \in posts : Created(p) \/ Accept(p) \/ SendReturns(p) \/ NotSent(p)
  \/ \E f \in fetches : Reply(f) \/ Fetched(f) \/ NotFetched(f)
  \/ \E i \in Ids : Write(i)
  \/ \E k \in streams : Hear(k) \/ GiveUp(k) \/ Silence(k)

-----------------------------------------------------------------------------
(* useChatStream, "only one connection": whatever is opened, left, asked,  *)
(* deleted or cut meanwhile, the text of the buffer is that of one answer, *)
(* from its first delta, in order, nothing twice.                          *)
AnswerGrowsInOrder == \A n \in 1 .. Len(buffer.got) : buffer.got[n] = <<buffer.id, n>>

(* bufferFor: the text of the buffer is that of the answer the buffer is   *)
(* for, whoever writes into it; and until a page has been left that still  *)
(* waited, it grows in order.                                              *)
BufferIsSound ==
  /\ \A n \in 1 .. Len(buffer.got) : buffer.got[n][1] = buffer.id
  /\ deserted \/ AnswerGrowsInOrder

(* messagesRequestId, "a slow answer must not replace a later choice".     *)
SlowAnswersAreDropped == [][shown' # shown /\ shown'.of # None => shown'.of = current']_chatClientVars

(* resumeUnfinished: the buffer of a conversation has an answer of it.     *)
BufferFitsItsConversation == buffer.id # 0 => answer[buffer.id].chat = buffer.chat
=============================================================================
