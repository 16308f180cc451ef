------------------------------- MODULE Quota -------------------------------
(***************************************************************************)
(* The counters of one tenant in Redis.  A chat turn reserves messages_day,*)
(* tokens_month and streams one after the other, gives all back when one   *)
(* is refused, and settles the tokens at the end; a worker task takes a    *)
(* slot of the fair queue; the nightly reconciliation overwrites the       *)
(* counters with what the database says.                                   *)
(*                                                                         *)
(* One action is one Redis command or one transaction.  A counter is       *)
(* [n, ttl]: ttl is "absent" for a missing key, "none" for one that never  *)
(* expires.  Day and month roll over together, at midnight of the last day *)
(* of a month.                                                             *)
(***************************************************************************)
EXTENDS Integers, Sequences, FiniteSets

CONSTANTS
  Turns,        \* chat turns
  Tasks,        \* worker tasks that want a slot
  Limits,       \* limit of messages, tokens, streams and slots
  Estimate,     \* token_reserve_for: what a turn reserves
  Actuals,      \* token counts that providers report
  Scenes,       \* who takes part, whether the nightly run does, the first period
  MaxPeriod,    \* bound on the periods
  MaxFaults     \* bound on failed commands, crashes and losses of data

Order == <<"messages", "tokens", "streams">>
Resources == {"messages", "tokens", "streams", "slots"}
Periodic == {"messages", "tokens"}

ASSUME QuotaAssumption ==
  /\ Limits \in [Resources -> Nat] /\ Estimate \in Nat \ {0} /\ Actuals \subseteq Nat
  /\ Turns \intersect Tasks = {} /\ IsFiniteSet(Turns \union Tasks)
  /\ Scenes \subseteq [who : SUBSET (Turns \union Tasks), nightly : BOOLEAN, start : 0 .. MaxPeriod]
  /\ {MaxPeriod, MaxFaults} \subseteq Nat

VARIABLES
  ctr,     \* the Redis counters, by resource and period
  now,     \* the current period
  cl,      \* the turns and tasks
  rows,    \* assistant messages created in each period
  logged,  \* llm tokens in usage_logs of each period
  recon,   \* the reconciliation: the facts it has read and not yet written
  snap,    \* quota_counters: the snapshot of each resource and period
  lost,    \* Redis has lost a counter: "no", "yes", or "torn" amid a reservation
  faults

vars == <<ctr, now, cl, rows, logged, recon, snap, lost, faults>>

-----------------------------------------------------------------------------
Periods == 0 .. MaxPeriod
Clients == Turns \union Tasks
Missing == [n |-> 0, ttl |-> "absent"]
KeyPeriod(r) == IF r \in Periodic THEN now ELSE 0
Amount(r) == IF r = "tokens" THEN Estimate ELSE 1

(* usage: tokens the provider reported, or -1 when it reported none.       *)
(* todo: corrections still to be sent, each [res, by]; then: where to next.*)
Idle == [pc |-> "off", i |-> 1, per |-> [r \in Resources |-> 0], got |-> {}, seen |-> 0,
         usage |-> -1, todo |-> <<>>, then |-> "off"]

Rest(pc) == [Idle EXCEPT !.pc = pc]

Reserving == {"incr", "expire", "undo"}
Adjusting == {"adjust", "clamp", "keep"}
Resting == {"off", "absent", "done", "refused", "dead"}
Faulty == faults > IF lost = "no" THEN 0 ELSE 1

(* A turn that was refused or has ended holds nothing; a dead one still    *)
(* counts.                                                                 *)
Quiet == \A c \in Clients : cl[c].pc \in Resting

TypeOK ==
  /\ \A r \in Resources, p \in Periods :
       ctr[r][p].n \in Int /\ ctr[r][p].ttl \in {"absent", "none", "set"}
  /\ now \in Periods /\ recon.st \in {"off", "never", "idle", "tokens", "messages"}
  /\ \A c \in Clients :
       /\ cl[c].pc \in Reserving \union Adjusting \union Resting
                        \union {"incr", "held", "run", "record", "work"}
       /\ cl[c].got \subseteq Resources /\ cl[c].i \in 1 .. 3
       /\ cl[c].pc \in Adjusting => cl[c].todo # <<>>
  /\ \A p \in Periods : rows[p] <= Cardinality(Turns)
  /\ faults \in 0 .. MaxFaults

(* Turns and tasks use different keys: a scene has either.                 *)
Init ==
  /\ ctr = [r \in Resources |-> [p \in Periods |-> Missing]]
  /\ \E s \in Scenes :
       /\ cl = [c \in Clients |-> Rest(IF c \in s.who THEN "off" ELSE "absent")]
       /\ recon = [st |-> IF s.nightly THEN "never" ELSE "off", per |-> 0,
                   tokens |-> 0, messages |-> 0]
       /\ now = s.start
  /\ rows = [p \in Periods |-> 0] /\ logged = [p \in Periods |-> 0]
  /\ snap = [r \in Periodic |-> [p \in Periods |-> 0]]
  /\ lost = "no" /\ faults = 0

At(c, pc) == cl[c].pc = pc
Goto(c, pc) == cl' = [cl EXCEPT ![c].pc = pc]
Fault == faults < MaxFaults /\ faults' = faults + 1
DbSame == UNCHANGED <<rows, logged, recon, snap>>

(* INCRBY creates a missing key, without an expiry.                        *)
IncrBy(r, p, by) ==
  ctr' = [ctr EXCEPT ![r][p] = [n |-> @.n + by, ttl |-> IF @.ttl = "absent" THEN "none" ELSE @.ttl]]

-----------------------------------------------------------------------------
(***************************************************************************)
(* QuotaService.check_and_reserve, for each resource of TurnBudget.reserve;*)
(* TenantSlotLimiter.acquire has the same three commands                   *)
(***************************************************************************)
Res(c) == IF c \in Tasks THEN "slots" ELSE Order[cl[c].i]
Per(c, r) == cl[c].per[r]

Incr(c) ==
  /\ cl[c].pc \in {"off", "incr"}
  /\ LET r == Res(c)  p == KeyPeriod(r) IN
     /\ IncrBy(r, p, Amount(r))
     /\ cl' = [cl EXCEPT ![c] = [@ EXCEPT !.pc = "expire", !.per[r] = p,
                                          !.seen = ctr[r][p].n + Amount(r)]]
  /\ UNCHANGED <<now, lost, faults>> /\ DbSame

(* What is given back, in the order it was taken: a turn has taken the     *)
(* first of Order.                                                         *)
Releases(c) ==
  [n \in 1 .. Cardinality(cl[c].got) |-> [res |-> Order[n], by |-> 0 - Amount(Order[n])]]

SeededUndo(c, r) == UNCHANGED ctr     \* seeded fault: the refused amount stays
Undo(c, r) == IncrBy(r, Per(c, r), 0 - Amount(r))

SeededRollback(c) ==                  \* seeded fault: earlier resources are kept
  Rest("refused")
Rollback(c) ==
  IF cl[c].got = {} THEN Rest("refused")
  ELSE [cl[c] EXCEPT !.pc = "adjust", !.todo = Releases(c), !.then = "refused", !.got = {},
                     !.i = 1, !.seen = 0]

SeededAdmitted(c) == cl[c].seen - Amount(Res(c)) <= Limits[Res(c)]  \* seeded fault: old value
Admitted(c) == cl[c].seen <= Limits[Res(c)]

(* EXPIRE, and then the comparison, which needs no command.                *)
Check(c) ==
  /\ At(c, "expire")
  /\ LET r == Res(c) IN
     /\ ctr' = [ctr EXCEPT ![r][Per(c, r)].ttl = IF @ = "absent" THEN @ ELSE "set"]
     /\ cl' = [cl EXCEPT ![c] =
          IF ~Admitted(c) THEN [@ EXCEPT !.pc = "undo", !.seen = 0]
          ELSE [@ EXCEPT !.got = cl[c].got \union {r}, !.i = IF cl[c].i = 3 THEN 1 ELSE cl[c].i + 1, !.seen = 0,
                         !.pc = IF c \in Tasks THEN "work"
                                ELSE IF cl[c].i = 3 THEN "held" ELSE "incr"]]
  /\ UNCHANGED <<now, lost, faults>> /\ DbSame

(* Refused: the amount is taken off again, without a clamp.                *)
Refuse(c) ==
  /\ At(c, "undo") /\ Undo(c, Res(c)) /\ cl' = [cl EXCEPT ![c] = Rollback(c)]
  /\ UNCHANGED <<now, lost, faults>> /\ DbSame

-----------------------------------------------------------------------------
(***************************************************************************)
(* QuotaService.commit and release: a correction, the clamp of a negative  *)
(* result, and an expiry for a key that has none                           *)
(***************************************************************************)
Op(c) == Head(cl[c].todo)

Adjust(c) ==
  /\ At(c, "adjust")
  /\ LET p == Per(c, Op(c).res)
         n == ctr[Op(c).res][p].n + Op(c).by IN
     /\ IncrBy(Op(c).res, p, Op(c).by)
     /\ cl' = [cl EXCEPT ![c] = [@ EXCEPT !.seen = IF n < 0 THEN n ELSE 0, !.got = cl[c].got \ {Op(c).res},
                                          !.pc = IF n < 0 THEN "clamp" ELSE "keep"]]
  /\ UNCHANGED <<now, lost, faults>> /\ DbSame

(* The limiter of the worker puts back one; the quota the whole deficit.   *)
SeededClampBy(c) == 0                 \* seeded fault: a negative counter is left
ClampBy(c) == IF c \in Tasks THEN 1 ELSE 0 - cl[c].seen

Clamp(c) ==
  /\ At(c, "clamp") /\ Goto(c, "keep")
  /\ IncrBy(Op(c).res, Per(c, Op(c).res), ClampBy(c))
  /\ UNCHANGED <<now, lost, faults>> /\ DbSame

(* generate's finally and the task's: the place is given back.  After that *)
(* list of corrections, or that of a refused turn, nothing is held.        *)
Close(c) ==
  [Rest("adjust") EXCEPT !.todo = <<[res |-> IF c \in Tasks THEN "slots" ELSE "streams",
                                     by |-> -1]>>,
                         !.then = "done", !.got = cl[c].got]
Leave(c) == IF cl[c].then = "give" THEN Close(c) ELSE Rest(cl[c].then)

SeededKept(c, t) == t                 \* seeded fault: no expiry for a revived key
(* EXPIRE NX; the limiter of the worker does without.                      *)
Kept(c, t) == IF t = "none" /\ c \in Turns THEN "set" ELSE t

Keep(c) ==
  /\ At(c, "keep")
  /\ ctr' = [ctr EXCEPT ![Op(c).res][Per(c, Op(c).res)].ttl = Kept(c, @)]
  /\ cl' = [cl EXCEPT ![c] =
       IF Len(cl[c].todo) > 1 THEN [@ EXCEPT !.todo = Tail(cl[c].todo), !.pc = "adjust", !.seen = 0]
       ELSE Leave(c)]
  /\ UNCHANGED <<now, lost, faults>> /\ DbSame

-----------------------------------------------------------------------------
(***************************************************************************)
(* The turn between reserve and settlement; the task between acquire and   *)
(* release                                                                 *)
(***************************************************************************)
SeededCorrect(c, todo, then) ==       \* seeded fault: an empty correction is begun
  [cl[c] EXCEPT !.pc = "adjust", !.todo = todo, !.then = then]
Correct(c, todo, then) ==
  IF todo = <<>> THEN Close(c)
  ELSE [cl[c] EXCEPT !.pc = "adjust", !.todo = todo, !.then = then, !.usage = -1]

Create(c) ==
  /\ At(c, "held")
  /\ \/ /\ rows' = [rows EXCEPT ![now] = @ + 1] /\ UNCHANGED faults
        /\ cl' = [cl EXCEPT ![c] = [@ EXCEPT !.pc = "run", !.got = cl[c].got \ {"messages"},
                                             !.per["messages"] = 0]]
     \/ /\ Fault /\ cl' = [cl EXCEPT ![c] = Correct(c, Releases(c), "refused")]
        /\ UNCHANGED rows
  /\ UNCHANGED <<ctr, now, logged, recon, snap, lost>>

SeededSettlement(u) ==                \* seeded fault: nothing reported is taken for a count
  IF u = Estimate THEN <<>> ELSE <<[res |-> "tokens", by |-> u - Estimate]>>
(* TurnBudget.settle_tokens                                                *)
Settlement(u) ==
  CASE u = -1 -> <<[res |-> "tokens", by |-> 0 - Estimate]>>
    [] u = Estimate -> <<>>
    [] OTHER -> <<[res |-> "tokens", by |-> u - Estimate]>>

(* The provider has reported tokens, or nothing; only a turn that          *)
(* completes goes to the usage log before it settles.                      *)
Generate(c) ==
  /\ At(c, "run")
  /\ \E u \in Actuals \union {-1} :
       \/ /\ cl' = [cl EXCEPT ![c] =
                 IF u = -1 THEN Correct(c, Settlement(u), "give")
                 ELSE [@ EXCEPT !.usage = u, !.pc = "record"]]
          /\ UNCHANGED faults
       \/ cl' = [cl EXCEPT ![c] = Correct(c, Settlement(u), "give")] /\ Fault
  /\ UNCHANGED <<ctr, now, lost>> /\ DbSame

(* UsageService.record swallows its own failure.                           *)
Record(c) ==
  /\ At(c, "record")
  /\ cl' = [cl EXCEPT ![c] = Correct(c, Settlement(@.usage), "give")]
  /\ \/ logged' = [logged EXCEPT ![now] = @ + cl[c].usage] /\ UNCHANGED faults
     \/ Fault /\ UNCHANGED logged
  /\ UNCHANGED <<ctr, now, rows, recon, snap, lost>>

Work(c) ==
  /\ At(c, "work") /\ cl' = [cl EXCEPT ![c] = Close(c)]
  /\ UNCHANGED <<ctr, now, lost, faults>> /\ DbSame

(* A refused task goes back to its queue.                                  *)
Requeue(c) ==
  /\ c \in Tasks /\ At(c, "refused") /\ cl' = [cl EXCEPT ![c] = Idle]
  /\ UNCHANGED <<ctr, now, lost, faults>> /\ DbSame

(* A command fails: reserve rolls back what it had, a correction is given  *)
(* up with the rest of its list.                                           *)
Raise(c) ==
  /\ cl[c].pc \in Reserving \union Adjusting /\ Fault
  /\ cl' = [cl EXCEPT ![c] =
       IF cl[c].pc \in Reserving THEN Rollback(c)
       ELSE Leave(c)]
  /\ UNCHANGED <<ctr, now, lost>> /\ DbSame

Die(c) ==
  /\ cl[c].pc \notin Resting /\ Fault
  /\ cl' = [cl EXCEPT ![c] = Rest("dead")]
  /\ UNCHANGED <<ctr, now, lost>> /\ DbSame

Step(c) ==
  \/ Incr(c) \/ Check(c) \/ Refuse(c) \/ Adjust(c) \/ Clamp(c) \/ Keep(c)
  \/ Create(c) \/ Generate(c) \/ Record(c) \/ Work(c) \/ Requeue(c)

-----------------------------------------------------------------------------
(***************************************************************************)
(* QuotaReconciliationService.reconcile_tenant: the facts in one           *)
(* transaction; then for each its snapshot and, by the clock of that       *)
(* moment, its counter                                                     *)
(***************************************************************************)
ReadFacts ==
  /\ recon.st \in {"off", "never", "idle"}
  /\ recon' = [st |-> "tokens", per |-> now, tokens |-> logged[now], messages |-> rows[now]]
  /\ UNCHANGED <<ctr, now, cl, rows, logged, snap, lost, faults>>

SeededCorrected(r) ==                 \* seeded fault: a correction only raises
  [n |-> IF recon[r] > ctr[r][now].n THEN recon[r] ELSE ctr[r][now].n, ttl |-> "set"]
Corrected(r) == [n |-> recon[r], ttl |-> "set"]

WriteFact(r) ==
  /\ recon.st = r
  /\ recon' = [recon EXCEPT !.st = IF r = "tokens" THEN "messages" ELSE "idle"]
  /\ snap' = [snap EXCEPT ![r][recon.per] = recon[r]]
  /\ ctr' = [ctr EXCEPT ![r][now] = Corrected(r)]
  /\ UNCHANGED <<now, cl, rows, logged, lost, faults>>

Reconcile == ReadFacts \/ WriteFact("tokens") \/ WriteFact("messages")

-----------------------------------------------------------------------------
(***************************************************************************)
(* Time and Redis                                                          *)
(***************************************************************************)
Rollover ==
  /\ now < MaxPeriod /\ now' = now + 1
  /\ UNCHANGED <<ctr, cl, lost, faults>> /\ DbSame

(* A gauge that nobody has touched for an hour.  The key of a period that  *)
(* is over is never looked at again.                                       *)
ExpireGauge(r) ==
  /\ ctr[r][0].ttl = "set" /\ Quiet
  /\ ctr' = [ctr EXCEPT ![r][0] = Missing]
  /\ UNCHANGED <<now, cl, lost, faults>> /\ DbSame

(* A fail-over to a replica that lags, a deleted key; or a task that works *)
(* for longer than the life of its slot.                                   *)
Lose(r) ==
  /\ lost = "no" /\ Fault
  /\ lost' = IF \E c \in Clients : cl[c].pc \in Reserving THEN "torn" ELSE "yes"
  /\ ctr[r][KeyPeriod(r)].ttl # "absent"
  /\ ctr' = [ctr EXCEPT ![r][KeyPeriod(r)] = Missing]
  /\ UNCHANGED <<now, cl>> /\ DbSame

Next ==
  \/ \E c \in Clients : Step(c) \/ Raise(c) \/ Die(c)
  \/ Reconcile \/ Rollover
  \/ \E r \in {"streams", "slots"} : ExpireGauge(r)
  \/ \E r \in Resources : Lose(r)

Spec == Init /\ [][Next]_vars

(* Clients run on; Beat reconciles every night.                            *)
FairSpec == Spec /\ WF_vars(Reconcile) /\ \A c \in Clients : WF_vars(Step(c))

-----------------------------------------------------------------------------
(* When no command has failed and Redis has kept its data, what is left on *)
(* the counters once everybody is through is what really happened: a       *)
(* refused turn has cost nothing, whichever resource refused it, a turn    *)
(* that failed gave its tokens back, and a midnight in between moves       *)
(* nothing from one period to another (budget.py:66-75, quota.py:258-276). *)
UpTo(f, last) ==                      \* f[0] + ... + f[last]
  LET upTo[n \in 0 .. last] == IF n = 0 THEN f[0] ELSE upTo[n - 1] + f[n]
  IN  upTo[last]
SumOver(f) == UpTo(f, MaxPeriod)
Counted(r) == SumOver([p \in Periods |-> ctr[r][p].n])
Undisturbed == Quiet /\ lost = "no" /\ ~Faulty
PlacesReturned == Undisturbed => \A p \in Periods : ctr["streams"][p].n = 0 /\ ctr["slots"][p].n = 0
BooksBalance == Undisturbed /\ recon.st = "off" =>
  /\ Counted("tokens") = SumOver(logged) /\ Counted("messages") = SumOver(rows)
EveryReservationReturned == PlacesReturned /\ BooksBalance

(* Also after Redis has lost a counter that turns were still going to      *)
(* correct, no quota key is left that never expires (quota.py:278-294).    *)
KeysExpire ==
  Quiet /\ ~Faulty /\ lost # "torn" => \A r \in Resources \ {"slots"}, p \in Periods : ctr[r][p].ttl # "none"

(* Nor does such a late correction leave a negative counter, which would   *)
(* let others over the limit (quota.py:263-266, fairness.py:49-54); the    *)
(* rollback of a refused reservation has no such clamp, and takes what     *)
(* others added after the loss.                                            *)
Refusing(c) == "refused" \in {cl[c].pc, cl[c].then} \/ At(c, "undo")
NeverNegative ==
  Quiet /\ ~Faulty /\ lost # "torn" /\ recon.st = "off" =>
    /\ lost = "no" => \A r \in Resources, p \in Periods : ctr[r][p].n >= 0
    /\ (\A c \in Turns : ~Refusing(c)) =>
         \A r \in Resources \ {"slots"}, p \in Periods : ctr[r][p].n >= 0

(* Whatever failed, died, was lost or overlapped, the nightly run brings   *)
(* the counters of the current period and their snapshots back to what the *)
(* database says (reconciliation.py:1-13).                                 *)
BooksSettle ==
  recon.st = "off" \/ <>[](/\ ctr["tokens"][now].n = logged[now] /\ ctr["messages"][now].n = rows[now]
       /\ snap["tokens"][now] = logged[now] /\ snap["messages"][now] = rows[now])

(* INCR, look and take back, with refused requests in flight, keep to the  *)
(* limit as one indivisible check would (quota.py:199-208,                 *)
(* fairness.py:36-47).                                                     *)
Holding(r) == {c \in Clients : r \in cl[c].got}
Streams == INSTANCE Allowance WITH
  Clients <- Turns, Limit <- Limits["streams"], holders <- Holding("streams"), intact <- lost = "no"
Slots == INSTANCE Allowance WITH
  Clients <- Tasks, Limit <- Limits["slots"], holders <- Holding("slots"), intact <- lost = "no"
StreamsKeepTheLimit == Streams!Spec
SlotsKeepTheLimit == Slots!Spec

(* QuotaService._adjust: whatever order the corrections come in, a counter *)
(* is neither immortal nor below zero.                                     *)
CountersStaySound == KeysExpire /\ NeverNegative

(* acquire_stream and FairnessService.acquire keep the promise of an       *)
(* indivisible check.                                                      *)
LimitsAreKept == StreamsKeepTheLimit /\ SlotsKeepTheLimit

(***************************************************************************)
(* A claim of the sources that the code does not keep                      *)
(***************************************************************************)
(* quota.py:263-266 and 270-271: a counter below zero has no meaning and   *)
(* is clamped, so that no allowance is given away.  The rollback of a      *)
(* refused reservation is not: it meets the counter the nightly run has    *)
(* just overwritten.                                                       *)
NothingIsGivenAway ==
  Quiet /\ ~Faulty /\ lost = "no" => \A r \in Periodic, p \in Periods : ctr[r][p].n >= 0
=============================================================================
