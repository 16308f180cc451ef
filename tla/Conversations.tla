--------------------------- MODULE Conversations ---------------------------
(***************************************************************************)
(* The conversations of the users of a tenant, their messages, and a       *)
(* reader who turns the pages of a list while others go on writing.        *)
(*                                                                         *)
(* A row is [key, id]: the sort key is the time of the last message, or of *)
(* the creation; the clock is coarse enough for two rows to share a key.   *)
(* Messages carry the time their writer took before its transaction.       *)
(***************************************************************************)
EXTENDS Naturals, Sequences, FiniteSets

CONSTANTS
  Talks,          \* conversations; the number is the id
  Owner,          \* who each belongs to
  Authors,        \* requests that write a message: the conversation of each
  Page,           \* rows on a page
  MaxClock        \* bound on the clock

ASSUME ConversationsAssumption ==
  /\ Talks \subseteq Nat /\ IsFiniteSet(Talks) /\ Page \in Nat \ {0} /\ MaxClock \in Nat
  /\ Authors \in Seq(Talks)

VARIABLES
  clock,
  talks,      \* rows of conversations
  messages,   \* rows of messages: [talk, key, id]
  writers,    \* [at, key, count]
  reader,     \* [at, of, listed, cursor, still, touched]
  pruned      \* conversations whose messages are gone

conversationsVars == <<clock, talks, messages, writers, reader, pruned>>

-----------------------------------------------------------------------------
NoCursor == [key |-> 0, id |-> 0]
Present(c) == talks[c].state # "none"
Shown(c) == talks[c].state = "live"
MessagesOf(c) == {m \in messages : m.talk = c}

ConversationsTypeOK ==
  /\ clock \in 0 .. MaxClock
  /\ \A c \in Talks : talks[c].state \in {"none", "live", "deleted", "old", "gone"}
  /\ \A m \in messages : m.talk \in Talks /\ m.key \in 1 .. MaxClock
  /\ \A a \in DOMAIN Authors : writers[a].at \in {"off", "stamp", "insert", "done", "not_found"}
  /\ reader.at \in {"off", "choose", "talks", "messages", "done", "not_found"}
  /\ Len(reader.listed) <= Cardinality(Talks) + Len(Authors)

ConversationsBegin(first) ==
  /\ clock = 1 /\ messages = {} /\ pruned = {}
  /\ talks = [c \in Talks |-> [state |-> "none", key |-> 0, count |-> 0]]
  /\ writers = [a \in DOMAIN Authors |-> [at |-> IF first THEN "stamp" ELSE "off", key |-> 0, count |-> 0]]
  /\ reader = [at |-> IF first THEN "choose" ELSE "off", of |-> 0, listed |-> <<>>, cursor |-> NoCursor,
               still |-> {}]
ConversationsInit == ConversationsBegin(TRUE)
ConversationsOff == ConversationsBegin(FALSE)

On == \E a \in DOMAIN Authors : writers[a].at # "off"
Tick ==
  /\ On /\ clock < MaxClock /\ clock' = clock + 1
  /\ UNCHANGED <<talks, messages, writers, reader, pruned>>

-----------------------------------------------------------------------------
(***************************************************************************)
(* Writing                                                                 *)
(***************************************************************************)
(* A reader of the list is promised what nobody touches meanwhile.         *)
Touched(c) == reader' = IF reader.at = "talks" THEN [reader EXCEPT !.still = @ \ {c}] ELSE reader

New(c) ==
  /\ On /\ talks[c].state = "none"
  /\ talks' = [talks EXCEPT ![c].state = "live", ![c].key = clock]
  /\ UNCHANGED <<clock, messages, writers, reader, pruned>>

(* _require_own: of somebody else is like not there.                       *)
RequireOwn(user, c) == Shown(c) /\ Owner[c] = user

DeleteTalk(c) ==
  /\ On /\ Shown(c) /\ talks' = [talks EXCEPT ![c].state = "deleted"] /\ Touched(c)
  /\ UNCHANGED <<clock, messages, writers, pruned>>

(* A turn asks for its conversation, takes the time, and writes.           *)
Stamp(a) ==
  /\ writers[a].at = "stamp"
  /\ LET c == Authors[a] IN
     writers' = [writers EXCEPT ![a] =
       IF RequireOwn(Owner[c], c) THEN [at |-> "insert", key |-> clock, count |-> talks[c].count]
                                  ELSE [@ EXCEPT !.at = "not_found"]]
  /\ UNCHANGED <<clock, talks, messages, reader, pruned>>

(* append: the row, the count and the time of the conversation.  The time  *)
(* of the writer that commits last stays, also when it is the earlier one. *)
SeededCount(a) == writers[a].count + 1   \* seeded fault: read first, written later
CountNow(a) == talks[Authors[a]].count + 1
Insert(a) ==
  /\ writers[a].at = "insert" /\ Present(Authors[a]) /\ talks[Authors[a]].state # "gone"
  /\ messages' = messages \union {[talk |-> Authors[a], key |-> writers[a].key, id |-> a]}
  /\ talks' = [talks EXCEPT ![Authors[a]].key = writers[a].key, ![Authors[a]].count = CountNow(a)]
  /\ writers' = [writers EXCEPT ![a] = [at |-> "done", key |-> 0, count |-> 0]]
  /\ Touched(Authors[a]) /\ UNCHANGED <<clock, pruned>>

(* DeletedConversationPurgeService: snapshots, messages and conversations  *)
(* in one transaction; a request has ended long before.                    *)
AgeTalk ==
  /\ \A a \in DOMAIN Authors : writers[a].at # "insert"
  /\ \E c \in Talks : talks[c].state = "deleted" /\ talks' = [talks EXCEPT ![c].state = "old"]
  /\ UNCHANGED <<clock, messages, writers, reader, pruned>>
SeededPrunable == {c \in Talks : talks[c].state \in {"deleted", "old"}}  \* seeded fault: no window
Prunable == {c \in Talks : talks[c].state = "old"}
Prune ==
  /\ Prunable # {} /\ pruned' = pruned \union Prunable
  /\ messages' = {m \in messages : m.talk \notin Prunable}
  /\ talks' = [c \in Talks |-> IF c \in Prunable THEN [talks[c] EXCEPT !.state = "gone"] ELSE talks[c]]
  /\ UNCHANGED <<clock, writers, reader>>

-----------------------------------------------------------------------------
(***************************************************************************)
(* Reading page by page                                                    *)
(***************************************************************************)
Later(a, b) == a.key > b.key \/ (a.key = b.key /\ a.id > b.id)
SeededBeyond(a, b) == a.key > b.key   \* seeded fault: rows with the key of the last one are skipped
Beyond(a, b) == Later(a, b)
(* The rows in an order, one more than a page.                             *)
First(rows, n, Before(_, _)) ==
  LET At(i) == CHOOSE r \in rows : Cardinality({s \in rows : Before(s, r)}) = i - 1
  IN [i \in 1 .. (IF Cardinality(rows) < n THEN Cardinality(rows) ELSE n) |-> At(i)]

(* page_for_user, newest first, and page_for_conversation, oldest first.   *)
TalkRows == {[key |-> talks[c].key, id |-> c] : c \in {d \in Talks : RequireOwn(reader.of, d)}}
TalkPage ==
  First({r \in TalkRows : reader.cursor = NoCursor \/ Beyond(reader.cursor, r)}, Page + 1, Later)
MessageRows == {[key |-> m.key, id |-> m.id] : m \in MessagesOf(reader.of)}
MessagePage ==
  LET Sooner(r, s) == Later(s, r)
  IN First({r \in MessageRows : reader.cursor = NoCursor \/ Beyond(r, reader.cursor)}, Page + 1, Sooner)

ListTalks ==
  /\ reader.at = "choose"
  /\ \E user \in {Owner[c] : c \in Talks} :
       reader' = [reader EXCEPT !.at = "talks", !.of = user,
                    !.still = {c \in Talks : RequireOwn(user, c)}]
  /\ UNCHANGED <<clock, talks, messages, writers, pruned>>

ListMessages ==
  /\ reader.at = "choose"
  /\ \E c \in Talks :
       /\ Present(c)
       /\ reader' = IF Shown(c)
                    THEN [reader EXCEPT !.at = "messages", !.of = c, !.still = {m.id : m \in MessagesOf(c)}]
                    ELSE [reader EXCEPT !.at = "not_found"]
  /\ UNCHANGED <<clock, talks, messages, writers, pruned>>

(* split_page: the row too many says that there is another page.           *)
SeededMore(rows) == Len(rows) = Page  \* seeded fault: a full page is followed by another one
More(rows) == Len(rows) > Page
Turn(rows, next) ==
  LET page == SubSeq(rows, 1, IF Len(rows) < Page THEN Len(rows) ELSE Page)
  IN reader' = [reader EXCEPT !.listed = @ \o [i \in 1 .. Len(page) |-> page[i].id],
                  !.cursor = IF page = <<>> THEN @ ELSE page[Len(page)],
                  !.at = IF More(rows) THEN next ELSE "done"]
TurnTalks == reader.at = "talks" /\ Turn(TalkPage, "talks")
             /\ UNCHANGED <<clock, talks, messages, writers, pruned>>
TurnMessages ==
  /\ reader.at = "messages"
  /\ IF Shown(reader.of) THEN Turn(MessagePage, "messages")
                         ELSE reader' = [reader EXCEPT !.at = "not_found"]
  /\ UNCHANGED <<clock, talks, messages, writers, pruned>>

-----------------------------------------------------------------------------
ConversationsNext ==
  \/ Tick \/ (\E c \in Talks : New(c) \/ DeleteTalk(c))
  \/ (\E a \in DOMAIN Authors : Stamp(a) \/ Insert(a))
  \/ AgeTalk \/ Prune \/ ListTalks \/ ListMessages \/ TurnTalks \/ TurnMessages

-----------------------------------------------------------------------------
Times(x) == Cardinality({i \in 1 .. Len(reader.listed) : reader.listed[i] = x})

(* page_for_user, page_for_conversation and split_page: whatever is        *)
(* written between two pages, what was there and was left alone is listed  *)
(* exactly once, and nobody sees what belongs to somebody else.            *)
PagesAreWhole ==
  /\ reader.at = "done" => \A x \in reader.still : Times(x) = 1
  /\ \A x \in reader.still : Times(x) <= 1
  /\ reader.at = "talks" => \A i \in 1 .. Len(reader.listed) : Owner[reader.listed[i]] = reader.of

(* append: the count of a conversation is the number of its messages,      *)
(* however many were written at once; nothing is lost within the window.   *)
CountsAreRight ==
  /\ \A c \in Talks : talks[c].state # "gone" => talks[c].count = Cardinality(MessagesOf(c))
  /\ \A m \in messages : Present(m.talk) /\ talks[m.talk].state # "gone"

(* ConversationRepository, MessageRepository: what is listed and counted   *)
(* is what there is.                                                       *)
ListsAreTrue == PagesAreWhole /\ CountsAreRight
=============================================================================
