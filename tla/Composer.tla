------------------------------ MODULE Composer ------------------------------
(***************************************************************************)
(* How the request to the model is put together (composer.py): the system  *)
(* prompt that is in force, the recent messages of the conversation, what  *)
(* the retrieval found, and the question.  Several turns of a conversation *)
(* are under way at a time, their rows are written by transactions that    *)
(* overlap, and the templates are edited meanwhile.                        *)
(***************************************************************************)
EXTENDS Integers, Sequences, FiniteSets, Picks

CONSTANTS
  TurnsBefore,    \* turns that are over at the beginning; the others are numbered after them
  Scenes,         \* what may begin: [said, turns, own, edits]
  Window,         \* HISTORY_WINDOW_MESSAGES
  HistoryTurns    \* query_history_turns

ASSUME ComposerAssumption ==
  /\ TurnsBefore \in Nat /\ Window \in Nat \ {0} /\ HistoryTurns \in Nat
  /\ \A s \in Scenes : /\ s.turns \subseteq Nat \ (0 .. TurnsBefore) /\ s.own \in BOOLEAN /\ s.edits \in Nat
                       /\ s.said \in [1 .. TurnsBefore -> {"empty", "part", "whole"}]

VARIABLES
  talk,       \* rows of messages, in the order of created_at
  stage,      \* of each turn
  text,       \* content of the answer of each turn: "empty", "part" or "whole"
  template,   \* rows of Prompt: the tenant's own and the system's
  version,    \* PromptVersion.status of each version of each
  chosen,     \* what by_key has returned to each turn
  offered,    \* history: the templates there were while the turn was being composed
  seen,       \* history: the rows that were visible when the history was read
  request,    \* PreparedTurn of each turn
  edits       \* bound: what may still be done to the templates

composerVars == <<talk, stage, text, template, version, chosen, offered, seen, request, edits>>

-----------------------------------------------------------------------------
Owners == {"own", "system"}
Versions == 1 .. 2
Nothing == <<"none", 0>>
Message(t, role) == [turn |-> t, role |-> role]
Unsent == [prompt |-> Nothing, history |-> <<>>, query |-> <<>>, retrieved |-> FALSE, context |-> FALSE]
Question(t) == Message(t, "user")

(* by_key: the tenant's own comes first.                                   *)
SeededByKey(rows) ==                  \* seeded fault: ordered the other way round
  IF rows["system"].live THEN "system" ELSE IF rows["own"].live THEN "own" ELSE "none"
ByKey(rows) ==
  IF rows["own"].live THEN "own" ELSE IF rows["system"].live THEN "system" ELSE "none"
InForce(rows) == LET o == ByKey(rows) IN IF o = "none" THEN Nothing ELSE <<o, rows[o].active>>
(* active_version, of the row that was read: published, or none at all.    *)
SeededServable(o, n) == version[o][n] # "none"   \* seeded fault: a draft will do
Servable(o, n) == version[o][n] = "published"

ComposerBegin(scene) ==
  /\ text = [t \in 1 .. TurnsBefore \union scene.turns |-> IF t \in scene.turns THEN "empty" ELSE scene.said[t]]
  /\ talk = [i \in 1 .. 2 * TurnsBefore |-> Message((i + 1) \div 2, IF i % 2 = 1 THEN "user" ELSE "assistant")]
  /\ stage = [t \in 1 .. TurnsBefore \union scene.turns |-> IF t \in scene.turns THEN "idle" ELSE "over"]
  /\ template = [o \in Owners |-> IF o = "own" THEN [live |-> scene.own, active |-> IF scene.own THEN 1 ELSE 0]
                                  ELSE [live |-> TRUE, active |-> 1]]
  /\ version = [o \in Owners |-> IF o = "system" THEN <<"published", "draft">>
                                 ELSE IF scene.own THEN <<"published", "none">> ELSE <<"none", "none">>]
  /\ chosen = [t \in scene.turns |-> Nothing] /\ offered = [t \in scene.turns |-> {}]
  /\ seen = [t \in scene.turns |-> {}]
  /\ request = [t \in scene.turns |-> Unsent] /\ edits = scene.edits
ComposerInit == \E scene \in Scenes : ComposerBegin(scene)
ComposerOff ==
  ComposerBegin([said |-> [t \in 1 .. TurnsBefore |-> "empty"], turns |-> {}, own |-> FALSE, edits |-> 0])

Moves(t, from, to) == t \in DOMAIN request /\ stage[t] = from /\ stage' = [stage EXCEPT ![t] = to]
Composing == {"started", "prompt", "rendered", "history"}

-----------------------------------------------------------------------------
(* _create_turn, append: the question is stamped before its transaction    *)
(* has the row of the conversation to itself, the place of the answer after*)
(* that; nobody sees them until it commits.                                *)
Ask(t) ==
  /\ Moves(t, "idle", "asked") /\ talk' = Append(talk, Question(t))
  /\ UNCHANGED <<text, template, version, chosen, offered, seen, request, edits>>
OpenTurn(t) ==
  /\ Moves(t, "asked", "started") /\ talk' = Append(talk, Message(t, "assistant"))
  /\ offered' = [offered EXCEPT ![t] = {template}]
  /\ UNCHANGED <<text, template, version, chosen, seen, request, edits>>

(* render: two statements of one transaction.                              *)
FindPrompt(t) ==
  /\ Moves(t, "started", IF InForce(template)[2] = 0 THEN "over" ELSE "prompt")
  /\ chosen' = [chosen EXCEPT ![t] = InForce(template)]
  /\ UNCHANGED <<talk, text, template, version, offered, seen, request, edits>>
FindVersion(t) ==
  LET o == chosen[t][1]  n == chosen[t][2] IN
  /\ Moves(t, "prompt", IF Servable(o, n) THEN "rendered" ELSE "over")
  /\ request' = [request EXCEPT ![t].prompt = IF Servable(o, n) THEN chosen[t] ELSE Nothing]
  /\ UNCHANGED <<talk, text, template, version, chosen, offered, seen, edits>>
(* validate_variables, render_template: a template that asks for variables *)
(* nobody gives, or that is not one.                                       *)
RenderFails(t) ==
  /\ Moves(t, "prompt", "over")
  /\ UNCHANGED <<talk, text, template, version, chosen, offered, seen, request, edits>>

(* _history, for_conversation: the newest rows, oldest first, without those*)
(* that are empty and without those of the turn itself.                    *)
VisibleRows == Picked(talk, {i \in 1 .. Len(talk) : stage[talk[i].turn] \notin {"idle", "asked"}})
SeededRecent(s) ==                    \* seeded fault: from the top
  SubSeq(s, 1, IF Len(s) > Window THEN Window ELSE Len(s))
Recent(s) == SubSeq(s, IF Len(s) > Window THEN Len(s) - Window + 1 ELSE 1, Len(s))
SeededTold(t, m) == m.role = "user" \/ text[m.turn] # "empty"   \* seeded fault: nothing is skipped
Told(t, m) == m.turn # t /\ (m.role = "user" \/ text[m.turn] # "empty")
(* build_search_query: the last questions, and the one that is asked.      *)
QueryOf(t, history) ==
  LET asked == Picked(history, {i \in 1 .. Len(history) : history[i].role = "user"})
      n == IF Len(asked) > HistoryTurns THEN HistoryTurns ELSE Len(asked)
  IN SubSeq(asked, Len(asked) - n + 1, Len(asked)) \o <<Question(t)>>
ReadHistory(t) ==
  /\ Moves(t, "rendered", "history")
  /\ LET recent == Recent(VisibleRows)
         history == Picked(recent, {i \in 1 .. Len(recent) : Told(t, recent[i])})
     IN request' = [request EXCEPT ![t].history = history, ![t].query = QueryOf(t, history)]
  /\ seen' = [seen EXCEPT ![t] = {m \in SetOf(VisibleRows) : m.role = "user" \/ text[m.turn] # "empty"}]
  /\ UNCHANGED <<talk, text, template, version, chosen, offered, edits>>

(* _retrieve, then the last message of the request: the context is there   *)
(* when something was found.                                               *)
Compose(t) ==
  /\ Moves(t, "history", "sent")
  /\ \E kbs, some \in BOOLEAN :
       (some => kbs) /\ request' = [request EXCEPT ![t].retrieved = kbs, ![t].context = some]
  /\ UNCHANGED <<talk, text, template, version, chosen, offered, seen, edits>>
RetrievalFails(t) ==
  /\ Moves(t, "history", "over")
  /\ UNCHANGED <<talk, text, template, version, chosen, offered, seen, request, edits>>

(* _complete, _fail: what was said is written, however far it went.        *)
Finish(t) ==
  /\ Moves(t, "sent", "over") /\ \E said \in {"empty", "part", "whole"} : text' = [text EXCEPT ![t] = said]
  /\ UNCHANGED <<talk, template, version, chosen, offered, seen, request, edits>>

(* The templates: a version is written, published, put in force, retired; a*)
(* prompt of the tenant comes and goes.                                    *)
Write(o) ==
  /\ version[o][2] = "none"
  /\ version' = [version EXCEPT ![o][IF version[o][1] = "none" THEN 1 ELSE 2] = "draft"]
  /\ template' = [template EXCEPT ![o].live = TRUE]
Becomes(o, n, status) == version' = [version EXCEPT ![o][n] = status] /\ UNCHANGED template
Publish(o, n) == version[o][n] = "draft" /\ Becomes(o, n, "published")
Retire(o, n) == version[o][n] = "published" /\ Becomes(o, n, "archived")
Activate(o, n) ==
  version[o][n] # "none" /\ template' = [template EXCEPT ![o].active = n] /\ UNCHANGED version
Withdraws ==
  template["own"].live /\ template' = [template EXCEPT !["own"].live = FALSE] /\ UNCHANGED version
Edit ==
  /\ edits > 0 /\ edits' = edits - 1
  /\ \/ \E o \in Owners : Write(o) \/ \E n \in Versions : Publish(o, n) \/ Retire(o, n) \/ Activate(o, n)
     \/ Withdraws
  /\ offered' = [t \in DOMAIN offered |->
                   offered[t] \union (IF stage[t] \in Composing THEN {template'} ELSE {})]
  /\ UNCHANGED <<talk, stage, text, chosen, seen, request>>

ComposerNext ==
  \/ Edit
  \/ \E t \in DOMAIN request :
       Ask(t) \/ OpenTurn(t) \/ FindPrompt(t) \/ FindVersion(t) \/ RenderFails(t)
       \/ ReadHistory(t) \/ Compose(t) \/ RetrievalFails(t) \/ Finish(t)

-----------------------------------------------------------------------------
ComposerTypeOK ==
  /\ \A t \in DOMAIN stage : stage[t] \in {"idle", "asked", "sent", "over"} \union Composing
  /\ \A t \in DOMAIN text : text[t] \in {"empty", "part", "whole"}
  /\ edits \in Nat /\ \A o \in Owners : template[o].active \in 0 .. 2

(* compose: the question is asked once, by the message that ends the       *)
(* request, and nothing stands before it that nobody has said, whoever else *)
(* is asking.                                                              *)
QuestionIsAskedOnce ==
  \A t \in DOMAIN request : \A i \in 1 .. Len(request[t].history) :
    LET m == request[t].history[i] IN m.turn # t /\ (m.role = "assistant" => text[m.turn] # "empty")

(* for_conversation: the history goes back from the newest message without *)
(* a gap, in the order of the conversation, and is cut only by the window. *)
HistoryIsRecent ==
  \A t \in DOMAIN request : stage[t] \in {"history", "sent"} =>
    LET told == request[t].history
        At(m) == CHOOSE i \in 1 .. Len(talk) : talk[i] = m
        others == {m \in seen[t] : m.turn # t}
    IN /\ \A i \in 1 .. Len(told) - 1 : At(told[i]) < At(told[i + 1])
       /\ \A m \in others : At(m) > Len(talk) - Window => m \in SetOf(told)
       /\ \A m \in others \ SetOf(told), k \in SetOf(told) : At(m) < At(k)

Foremost(rows, p) ==
  /\ rows[p[1]].live /\ rows[p[1]].active = p[2]
  /\ p[1] = "system" => ~rows["own"].live

(* render, by_key, active_version: the version that is recorded was in     *)
(* force at some time while the turn was composed, the tenant's own before *)
(* the system's, and was never a draft, whatever is edited between the two *)
(* statements.                                                             *)
PromptIsSound ==
  \A t \in DOMAIN request : LET p == request[t].prompt IN
    p # Nothing => /\ version[p[1]][p[2]] \in {"published", "archived"}
                   /\ \E rows \in offered[t] : Foremost(rows, p)

(* compose: all three of a request, whatever is said and edited meanwhile. *)
TurnsAreComposed == QuestionIsAskedOnce /\ HistoryIsRecent /\ PromptIsSound

(* composer.py, "the questions before": what a search is made with, and    *)
(* what a model is told, was said before the question.                     *)
HistoryIsThePast ==
  \A t \in DOMAIN request : \A i \in 1 .. Len(request[t].history) :
    \A k \in 1 .. Len(talk) : talk[k] = Question(t) =>
      \E j \in 1 .. k : talk[j] = request[t].history[i]

(* build_context_block, "an empty list still gives the whole structure": a *)
(* model is shown that its search found nothing.                           *)
EmptySearchIsShown == \A t \in DOMAIN request : request[t].retrieved => request[t].context
=============================================================================
