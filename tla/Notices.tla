------------------------------ MODULE Notices ------------------------------
(***************************************************************************)
(* Notifications: events that several processes write into the inboxes of  *)
(* several people, each in one transaction, with a row per person and key, *)
(* the mails that follow, and the people who read.                         *)
(*                                                                         *)
(* A transaction reads what is committed (READ COMMITTED), and waits where *)
(* another one has written or locked the row it needs: rows holds what is  *)
(* committed, lock who must end first.                                     *)
(***************************************************************************)
EXTENDS Integers, Sequences, FiniteSets

CONSTANTS
  Events,         \* callers of notify_*
  EventPlans,     \* what they tell: [Events -> [kind, used, to]]
  People,
  Thresholds,     \* of the quota, in percent, in order
  Limit,          \* of the quota
  MaxSlips        \* bound on failures

(* quota_thresholds sorts a set; active_with_roles: the notices of a quota *)
(* go to the same people, who administer the tenant.                       *)
ASSUME NoticesAssumption ==
  /\ Events \subseteq Nat \ {0} /\ IsFiniteSet(Events) /\ People \subseteq Nat \ {0}
  /\ Limit \in Nat \ {0} /\ MaxSlips \in Nat
  /\ Thresholds \in Seq(1 .. 100) /\ \A i, j \in 1 .. Len(Thresholds) : i < j => Thresholds[i] < Thresholds[j]
  /\ \A plan \in EventPlans : \A e, f \in Events :
       /\ plan[e].kind \in {"ready", "quota"} /\ plan[e].used \in Nat /\ plan[e].to \in Seq(People)
       /\ plan[e].kind = "quota" /\ plan[f].kind = "quota" => plan[e].to = plan[f].to

VARIABLES
  rows,       \* committed rows: [People \X Keys -> [count, unread, by]]
  lock,       \* the transaction that has written or locked a row, 0 for none
  event,      \* the transactions
  guards,     \* "notified" marks of the quota in Redis
  mails,      \* messages of send_notification_email: [row, tries, sent]; sent: not acknowledged yet
  mailed,     \* how often the server took the mail of a row
  again,      \* history: how often the message of a row came back after that
  inbox,      \* a request for the inbox of one person
  slips

noticesVars == <<rows, lock, event, guards, mails, mailed, again, inbox, slips>>

-----------------------------------------------------------------------------
Bucket == 0                           \* collapse_bucket: one knowledge base and window
Keys == {Bucket} \union {Thresholds[i] : i \in 1 .. Len(Thresholds)}
Absent == [count |-> 0, unread |-> FALSE, by |-> 0]
EventEnds == {"off", "guarded", "quiet", "lost", "done"}
Kind(e) == event[e].kind
AtEvent(e, at) == event[e].at = at

(* notify_quota_threshold rounds the percentage down; _maybe_notify does   *)
(* not divide.                                                             *)
SeededReached(used) == {i \in 1 .. Len(Thresholds) : (used * 100) \div Limit > Thresholds[i]}
                                      \* seeded fault: at the limit is not over it
Reached(used) == {i \in 1 .. Len(Thresholds) : (used * 100) \div Limit >= Thresholds[i]}
Crossed(used) == {i \in 1 .. Len(Thresholds) : used * 100 >= Thresholds[i] * Limit}

(* The rows an event visits: every threshold, every recipient.             *)
Recipients(e) ==
  IF Kind(e) = "ready" THEN [i \in 1 .. Len(event[e].to) |-> <<event[e].to[i], Bucket>>]
  ELSE LET people == Len(event[e].to)
       IN [i \in 1 .. people * Cardinality(Reached(event[e].used)) |->
             <<event[e].to[((i - 1) % people) + 1], Thresholds[((i - 1) \div people) + 1]>>]
Recipient(e) == Recipients(e)[event[e].next]

NoticesTypeOK ==
  /\ \A r \in People \X Keys : rows[r].count \in 0 .. Cardinality(Events) /\ lock[r] \in Events \union {0}
  /\ \A e \in Events :
       /\ event[e].at \in EventEnds \union {"guard", "look", "insert", "flush"}
       /\ \A r \in DOMAIN event[e].draft : lock[r] = e
  /\ \A m \in mails : m.row \in People \X Keys /\ m.tries \in 0 .. 2 /\ m.sent \in BOOLEAN
  /\ inbox.at \in {"off", "choose", "count", "shown"} /\ slips \in 0 .. MaxSlips

NoticesBegin(on, plans) ==
  /\ rows = [r \in People \X Keys |-> Absent] /\ lock = [r \in People \X Keys |-> 0]
  /\ guards = {} /\ mails = {} /\ mailed = [r \in People \X Keys |-> 0]
  /\ again = [r \in People \X Keys |-> 0] /\ slips = 0
  /\ inbox = [at |-> IF on THEN "choose" ELSE "off", who |-> 0, listed |-> {}, unread |-> 0]
  /\ \E plan \in plans :
       event = [e \in Events |->
         [at |-> IF ~on THEN "off" ELSE IF plan[e].kind = "quota" THEN "guard" ELSE "look",
          kind |-> plan[e].kind, used |-> plan[e].used, to |-> plan[e].to,
          next |-> 1, draft |-> <<>>, fresh |-> {}]]
NoticesInit == NoticesBegin(TRUE, EventPlans)
NoticesOff == NoticesBegin(FALSE, {CHOOSE p \in EventPlans : TRUE})

-----------------------------------------------------------------------------
(***************************************************************************)
(* Writing                                                                 *)
(***************************************************************************)
(* _maybe_notify: SET NX for the highest threshold crossed, then the       *)
(* database.  A mark stays when what follows fails.                        *)
Guard(e) ==
  /\ AtEvent(e, "guard")
  /\ LET crossed == Crossed(event[e].used)
         mark == CHOOSE i \in crossed : \A j \in crossed : j <= i
     IN IF crossed = {} THEN event' = [event EXCEPT ![e].at = "quiet"] /\ UNCHANGED guards
        ELSE IF mark \in guards THEN event' = [event EXCEPT ![e].at = "guarded"] /\ UNCHANGED guards
        ELSE event' = [event EXCEPT ![e].at = "look"] /\ guards' = guards \union {mark}
  /\ UNCHANGED <<rows, lock, mails, mailed, again, inbox, slips>>

Ongoing(e) == event[e].next <= Len(Recipients(e))
Draft(e, row) ==
  LET d == event[e].draft
  IN [r \in DOMAIN d \union {Recipient(e)} |-> IF r = Recipient(e) THEN row ELSE d[r]]
Onward(e, draft) == event' = [event EXCEPT ![e].at = "look", ![e].next = @ + 1, ![e].draft = draft]

(* _deliver: get_by_dedupe without a lock saves a collision.               *)
LookOnce(e) ==
  /\ AtEvent(e, "look") /\ Kind(e) = "quota" /\ Ongoing(e)
  /\ IF rows[Recipient(e)] # Absent THEN Onward(e, event[e].draft)
                                ELSE event' = [event EXCEPT ![e].at = "insert"]
  /\ UNCHANGED <<rows, lock, guards, mails, mailed, again, inbox, slips>>

(* collapse: one more event in the row, which is new to its reader again.  *)
Collapsed(row) == [row EXCEPT !.count = @ + 1, !.unread = TRUE]

(* _deliver_ready: FOR UPDATE waits for the row, then reads it.            *)
SeededLockable(e, r) == TRUE              \* seeded fault: no FOR UPDATE, the last writer stays
Lockable(e, r) == lock[r] \in {0, e}
LookReady(e) ==
  /\ AtEvent(e, "look") /\ Kind(e) = "ready" /\ Ongoing(e)
  /\ LET r == Recipient(e) IN
     \/ /\ rows[r] = Absent /\ event' = [event EXCEPT ![e].at = "insert"] /\ UNCHANGED lock
     \/ /\ rows[r] # Absent /\ Lockable(e, r) /\ lock' = [lock EXCEPT ![r] = e]
        /\ Onward(e, Draft(e, Collapsed(rows[r])))
  /\ UNCHANGED <<rows, guards, mails, mailed, again, inbox, slips>>

(* create_if_absent: the unique index waits for who has inserted the same  *)
(* key; the savepoint keeps the rest of the transaction when it is taken.  *)
SeededOnTaken(e) ==                   \* seeded fault: no savepoint, what was written is undone
  /\ event' = [event EXCEPT ![e].at = "done", ![e].draft = <<>>, ![e].fresh = {}]
  /\ lock' = [r \in DOMAIN lock |-> IF lock[r] = e THEN 0 ELSE lock[r]]
OnTaken(e) ==
  /\ UNCHANGED lock
  /\ IF Kind(e) = "ready" THEN event' = [event EXCEPT ![e].at = "look"] ELSE Onward(e, event[e].draft)
InsertNotice(e) ==
  /\ AtEvent(e, "insert") /\ lock[Recipient(e)] = 0
  /\ IF rows[Recipient(e)] # Absent THEN OnTaken(e)
     ELSE /\ lock' = [lock EXCEPT ![Recipient(e)] = e]
          /\ event' = [event EXCEPT ![e].at = "look", ![e].next = @ + 1,
                         ![e].draft = Draft(e, [count |-> 1, unread |-> TRUE, by |-> e]),
                         ![e].fresh = @ \union {Recipient(e)}]
  /\ UNCHANGED <<rows, guards, mails, mailed, again, inbox, slips>>

Unlocked(e) == [r \in DOMAIN lock |-> IF lock[r] = e THEN 0 ELSE lock[r]]
Commit(e) ==
  /\ AtEvent(e, "look") /\ ~Ongoing(e)
  /\ rows' = [r \in DOMAIN rows |-> IF r \in DOMAIN event[e].draft THEN event[e].draft[r] ELSE rows[r]]
  /\ lock' = Unlocked(e)
  /\ event' = [event EXCEPT ![e].at = "flush", ![e].draft = <<>>]
  /\ UNCHANGED <<guards, mails, mailed, again, inbox, slips>>

(* The transaction is undone, and nobody hears of it.                      *)
Undo(e) ==
  /\ event[e].at \in {"look", "insert"} /\ slips < MaxSlips /\ slips' = slips + 1
  /\ lock' = Unlocked(e) /\ event' = [event EXCEPT ![e].at = "lost", ![e].draft = <<>>, ![e].fresh = {}]
  /\ UNCHANGED <<rows, guards, mails, mailed, again, inbox>>

(* _flush_emails after the commit: channels_for says which kinds; a broker *)
(* that is down costs the mail and nothing else.                           *)
SeededByMail(e) ==
  IF Kind(e) = "quota" THEN {<<event[e].to[i], k>> : i \in 1 .. Len(event[e].to), k \in Keys \ {Bucket}}
                   ELSE {}            \* seeded fault: also the rows somebody else has written
ByMail(e) == IF Kind(e) = "quota" THEN event[e].fresh ELSE {}
Flush(e) ==
  /\ AtEvent(e, "flush") /\ event' = [event EXCEPT ![e].at = "done"]
  /\ \/ mails' = mails \union {[row |-> r, tries |-> 0, sent |-> FALSE] : r \in ByMail(e)} /\ UNCHANGED slips
     \/ slips < MaxSlips /\ slips' = slips + 1 /\ UNCHANGED mails
  /\ UNCHANGED <<rows, lock, guards, mailed, again, inbox>>

(* send_email: the row is read, and the server takes the mail.             *)
SendMail(m) ==
  /\ ~m.sent /\ mails' = (mails \ {m}) \union {[m EXCEPT !.sent = TRUE]}
  /\ mailed' = [mailed EXCEPT ![m.row] = @ + 1]
  /\ UNCHANGED <<rows, lock, event, guards, again, inbox, slips>>
Acknowledge(m) ==
  /\ m.sent /\ mails' = mails \ {m}
  /\ UNCHANGED <<rows, lock, event, guards, mailed, again, inbox, slips>>

(* The message comes back, whether or not the server had taken the mail.   *)
Back(m, message) ==
  /\ slips < MaxSlips /\ slips' = slips + 1
  /\ mails' = (mails \ {m}) \union message
  /\ again' = IF m.sent THEN [again EXCEPT ![m.row] = @ + 1] ELSE again
  /\ UNCHANGED <<rows, lock, event, guards, mailed, inbox>>
(* send_notification_email, of any exception: two more tries, then the     *)
(* inbox has to do.                                                        *)
MailFails(m) == Back(m, IF m.tries < 2 THEN {[m EXCEPT !.tries = @ + 1, !.sent = FALSE]} ELSE {})
(* task_acks_late: the worker died before it acknowledged.                 *)
MailRedelivered(m) == Back(m, {[m EXCEPT !.sent = FALSE]})

-----------------------------------------------------------------------------
(***************************************************************************)
(* Reading                                                                 *)
(***************************************************************************)
UnreadOf(u) == {k \in Keys : rows[<<u, k>>].unread}

(* inbox: the list and the number are two statements of one transaction.   *)
ListInbox ==
  /\ inbox.at = "choose"
  /\ \E u \in People : inbox' = [at |-> "count", who |-> u, listed |-> UnreadOf(u), unread |-> 0]
  /\ UNCHANGED <<rows, lock, event, guards, mails, mailed, again, slips>>
CountUnread ==
  /\ inbox.at = "count"
  /\ inbox' = [inbox EXCEPT !.at = "shown", !.unread = Cardinality(UnreadOf(inbox.who))]
  /\ UNCHANGED <<rows, lock, event, guards, mails, mailed, again, slips>>

MarkRead ==
  /\ inbox.at = "shown"
  /\ \E k \in inbox.listed :
       /\ lock[<<inbox.who, k>>] = 0
       /\ rows' = [rows EXCEPT ![<<inbox.who, k>>].unread = FALSE]
       /\ inbox' = [inbox EXCEPT !.listed = @ \ {k}, !.unread = 0]
  /\ UNCHANGED <<lock, event, guards, mails, mailed, again, slips>>

NoticesNext ==
  \/ \E e \in Events : \/ Guard(e) \/ LookOnce(e) \/ LookReady(e) \/ InsertNotice(e)
                       \/ Commit(e) \/ Undo(e) \/ Flush(e)
  \/ \E m \in mails : SendMail(m) \/ Acknowledge(m) \/ MailFails(m) \/ MailRedelivered(m)
  \/ ListInbox \/ CountUnread \/ MarkRead

-----------------------------------------------------------------------------
Told(e) == event[e].at \in {"flush", "done"}

(* _deliver_ready, "two workers that finish two documents of one batch are *)
(* the normal case": the count of a row is the number of documents that    *)
(* became ready, each counted once, whoever opened the row.                *)
EveryDocumentCounts ==
  \A u \in People :
    rows[<<u, Bucket>>].count =
      Cardinality({e \in Events : Told(e) /\ Kind(e) = "ready" /\ \E i \in 1 .. Len(event[e].to) : event[e].to[i] = u})

(* _maybe_notify, notify_quota_threshold: unless a write failed, everybody *)
(* is told of every threshold that was crossed once nobody is at it any    *)
(* more, whatever the others committed meanwhile.                          *)
ThresholdsAreTold ==
  \A e \in Events :
    Kind(e) = "quota" /\ event[e].at \in {"guarded", "done"}
      /\ (\A f \in Events : event[f].at \in EventEnds \ {"lost"}) =>
      \A i \in Crossed(event[e].used) : \A j \in 1 .. Len(event[e].to) :
        rows[<<event[e].to[j], Thresholds[i]>>] # Absent

(* _flush_emails: a mail is about a row that is there and goes to the      *)
(* person of the row; however many crossed the line, a row has one message *)
(* on its way, and is mailed once more only when that message came back    *)
(* after the server had taken the mail.                                    *)
MailedOnce ==
  \A r \in People \X Keys :
    /\ Cardinality({m \in mails : m.row = r /\ ~m.sent}) + mailed[r] <= 1 + again[r]
    /\ Cardinality({m \in mails : m.row = r}) <= 1
    /\ (\E m \in mails : m.row = r) \/ mailed[r] > 0 => rows[r] # Absent

(* NotificationService: everybody is told of everything; nobody is told    *)
(* twice by two who crossed the same line.                                 *)
NoticesAreTold == EveryDocumentCounts /\ ThresholdsAreTold /\ MailedOnce

(* inbox, "the number and the list are computed in one transaction": they  *)
(* say the same.                                                           *)
NumberMatchesList == inbox.at = "shown" /\ inbox.unread > 0 => inbox.unread = Cardinality(inbox.listed)

(* test_notification_events, "one mail a day": not when the message of the *)
(* mail comes back.                                                        *)
OneMailADay == \A r \in People \X Keys : mailed[r] <= 1
=============================================================================
