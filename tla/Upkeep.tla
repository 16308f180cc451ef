------------------------------- MODULE Upkeep -------------------------------
(***************************************************************************)
(* The partitions of the tables that grow by the month, and the daily      *)
(* figures of the usage log: what the scheduled jobs keep up while usage   *)
(* is written.  A job may not come, die halfway, or overlap with the next. *)
(*                                                                         *)
(* One table stands for the three; a day is the unit of time.              *)
(***************************************************************************)
EXTENDS Integers, FiniteSets

CONSTANTS
  Days,           \* bound on time
  DaysPerMonth,
  Prebuilt,       \* months the migration has built
  MonthsAhead,    \* ensure_future_partitions
  Retention,      \* retention_months of the table, 0 for no policy
  PerDay,         \* bound on the usage of a day
  LastUse,        \* bound on the days with usage; the figures are kept up one day more
  Rollers,        \* runs of rollup_all that may overlap
  MaxOutages      \* bound on rounds that fail or do not come

ASSUME UpkeepAssumption ==
  /\ {Days, DaysPerMonth, Prebuilt, PerDay, LastUse} \subseteq Nat \ {0}
  /\ {MonthsAhead, Retention, MaxOutages} \subseteq Nat /\ Prebuilt > MonthsAhead

VARIABLES
  day,
  parts,      \* partitions: none, bare (no policy yet), attached, detached
  job,        \* maintain_partitions: [at, existing, index]
  due,        \* the round of this month is to come
  made,       \* the month of the last round that went through
  logs,       \* rows of the usage log by day, refused ones not
  figures,    \* usage_daily
  roller,     \* [at, today, seen, clean]
  settled,    \* days after which a round of the roll-up went through
  outages

upkeepVars == <<day, parts, job, due, made, logs, figures, roller, settled, outages>>

-----------------------------------------------------------------------------
MonthOf(d) == (d - 1) \div DaysPerMonth + 1
Month == MonthOf(day)
Months == 1 .. (MonthOf(Days) + MonthsAhead)
Listed(m) == parts[m] \in {"bare", "attached"}

UpkeepTypeOK ==
  /\ day \in 0 .. Days /\ made \in 0 .. MonthOf(Days) /\ outages \in 0 .. MaxOutages
  /\ \A m \in Months : parts[m] \in {"none", "bare", "attached", "detached"}
  /\ job.at \in {"idle", "make", "policy", "prune"} /\ job.index \in 0 .. (MonthsAhead + 1)
  /\ \A d \in 1 .. Days : figures[d] \in 0 .. logs[d] /\ logs[d] \in 0 .. PerDay
  /\ \A r \in Rollers : roller[r].at \in {"idle", "read", "write"} /\ roller[r].of \in {"before", "today"}

UpkeepBegin(first) ==
  /\ day = first
  /\ parts = [m \in Months |-> IF m <= Prebuilt THEN "attached" ELSE "none"]
  /\ job = [at |-> "idle", existing |-> {}, index |-> 0] /\ due = FALSE /\ made = 1
  /\ logs = [d \in 1 .. Days |-> 0] /\ figures = [d \in 1 .. Days |-> 0] /\ settled = {}
  /\ roller = [r \in Rollers |-> [at |-> "idle", of |-> "before", today |-> 1, seen |-> 0, clean |-> FALSE]]
  /\ outages = 0
UpkeepInit == UpkeepBegin(1)
UpkeepOff == UpkeepBegin(0)           \* before the first day

Outage == outages < MaxOutages /\ outages' = outages + 1

(* A day ends: its rounds have come, or that was an outage; a round never  *)
(* lasts longer than a day.                                                *)
NewDay ==
  /\ day \in 1 .. (Days - 1) /\ day' = day + 1 /\ job.at = "idle"
  /\ \A r \in Rollers : roller[r].at # "idle" => roller[r].today = day
  /\ LET skipped == due /\ MonthOf(day + 1) # Month
     IN IF skipped \/ (day <= LastUse + 1 /\ day \notin settled) THEN Outage ELSE UNCHANGED outages
  /\ due' = (due \/ MonthOf(day + 1) # Month)
  /\ UNCHANGED <<parts, job, made, logs, figures, roller, settled>>

(* UsageLogRepository.add: no partition for the day, no row.               *)
Record ==
  /\ day \in 1 .. LastUse /\ logs[day] < PerDay /\ Listed(Month)
  /\ logs' = [logs EXCEPT ![day] = @ + 1]
  /\ UNCHANGED <<day, parts, job, due, made, figures, roller, settled, outages>>

-----------------------------------------------------------------------------
(***************************************************************************)
(* maintain_partitions: every statement commits by itself                  *)
(***************************************************************************)
StartRound ==
  /\ due /\ job.at = "idle" /\ due' = FALSE
  /\ job' = [at |-> "make", existing |-> {m \in Months : Listed(m)}, index |-> 0]
  /\ UNCHANGED <<day, parts, made, logs, figures, roller, settled, outages>>

SeededAhead == MonthsAhead - 1        \* seeded fault: the last month is left out
Ahead == MonthsAhead
Make ==
  /\ job.at = "make"
  /\ LET m == Month + job.index IN
     IF job.index > Ahead
       THEN job' = [job EXCEPT !.at = "prune"] /\ made' = Month /\ UNCHANGED parts
     ELSE IF m \in job.existing
       THEN job' = [job EXCEPT !.index = @ + 1] /\ UNCHANGED <<parts, made>>
     ELSE parts' = [parts EXCEPT ![m] = "bare"] /\ job' = [job EXCEPT !.at = "policy"] /\ UNCHANGED made
  /\ UNCHANGED <<day, due, logs, figures, roller, settled, outages>>

Policy ==
  /\ job.at = "policy" /\ parts' = [parts EXCEPT ![Month + job.index] = "attached"]
  /\ job' = [job EXCEPT !.at = "make", !.index = @ + 1]
  /\ UNCHANGED <<day, due, made, logs, figures, roller, settled, outages>>

(* The rest of the round is for the next month.                            *)
RoundDies ==
  /\ job.at # "idle" /\ Outage /\ job' = [job EXCEPT !.at = "idle", !.index = 0]
  /\ UNCHANGED <<day, parts, due, made, logs, figures, roller, settled>>

(* cutoff_for: the first of the month, that many months back.  The bound   *)
(* of a partition is the first of the month after it.                      *)
SeededExpired(m) == m <= Month - Retention   \* seeded fault: its first day decides
Expired(m) == m + 1 <= Month - Retention
SomeStay(gone) == Outage /\ gone # {} /\ \E stays \in SUBSET gone \ {{}} :
  parts' = [m \in Months |-> IF m \in gone \ stays THEN "detached" ELSE parts[m]]
DropExpired ==
  /\ job.at = "prune" /\ job' = [job EXCEPT !.at = "idle", !.index = 0]
  /\ LET gone == {m \in Months : Retention > 0 /\ Listed(m) /\ Expired(m)} IN
     \/ parts' = [m \in Months |-> IF m \in gone THEN "detached" ELSE parts[m]] /\ UNCHANGED outages
     \/ SomeStay(gone)                \* no lock within lock_timeout
  /\ UNCHANGED <<day, due, made, logs, figures, roller, settled>>

-----------------------------------------------------------------------------
(***************************************************************************)
(* rollup_all: yesterday, then today, each counted again from the rows     *)
(***************************************************************************)
StartRollup(r) ==
  /\ roller[r].at = "idle" /\ day \in 1 .. (LastUse + 1) /\ day \notin settled
  /\ roller' = [roller EXCEPT ![r] =
       [at |-> "read", of |-> "before", today |-> day, seen |-> 0,
        clean |-> \A s \in Rollers : roller[s].at # "idle" => roller[s].today = day]]
  /\ UNCHANGED <<day, parts, job, due, made, logs, figures, settled, outages>>

DayOf(r) == IF roller[r].of = "before" THEN roller[r].today - 1 ELSE roller[r].today
LogRows(d) == IF d > 0 /\ Listed(MonthOf(d)) THEN logs[d] ELSE 0
ReadRows(r) ==
  /\ roller[r].at = "read"
  /\ roller' = [roller EXCEPT ![r].at = "write", ![r].seen = LogRows(DayOf(r))]
  /\ UNCHANGED <<day, parts, job, due, made, logs, figures, settled, outages>>

SeededPut(r) == figures[DayOf(r)] + roller[r].seen   \* seeded fault: what was counted is added
Put(r) == roller[r].seen
(* upsert_bucket: a day without rows has no bucket to write.               *)
WriteFigures(r) ==
  /\ roller[r].at = "write"
  /\ figures' = IF roller[r].seen = 0 THEN figures ELSE [figures EXCEPT ![DayOf(r)] = Put(r)]
  /\ roller' = [roller EXCEPT ![r].at = IF @ = "write" /\ roller[r].of = "today" THEN "idle" ELSE "read",
                              ![r].of = IF @ = "before" THEN "today" ELSE "before"]
  /\ settled' = IF roller[r].of = "today" /\ roller[r].clean /\ roller[r].today = day
                THEN settled \union {day} ELSE settled
  /\ UNCHANGED <<day, parts, job, due, made, logs, outages>>

UpkeepNext ==
  \/ NewDay \/ Record \/ StartRound \/ Make \/ Policy \/ RoundDies \/ DropExpired
  \/ \E r \in Rollers : StartRollup(r) \/ ReadRows(r) \/ WriteFigures(r)

-----------------------------------------------------------------------------
(* ensure_future_partitions: after a round, that many monthly rounds in a  *)
(* row may fail before a row finds no partition to go to; and              *)
(* detach_expired_partitions takes none away that a row within the         *)
(* retention may be in.                                                    *)
RowsHaveAPlace ==
  day > 0 =>
    /\ Month <= made + MonthsAhead => Listed(Month)
    /\ \A d \in 1 .. day : Retention > 0 /\ Month - MonthOf(d) <= Retention => parts[MonthOf(d)] # "detached"

(* rollup_all, "yesterday, too": whatever overlaps, and at whatever moment *)
(* of the day the last round comes, the figures of a day are final after   *)
(* the first undisturbed round of the next day.                            *)
FiguresSettle ==
  \A d \in 1 .. (day - 1) :
    (\E next \in settled : next = d + 1) /\ (\A r \in Rollers : roller[r].at = "idle") => figures[d] = logs[d]

(* The nightly and hourly work: the logs have room, and their sums hold.   *)
LogsAreKept == RowsHaveAPlace /\ FiguresSettle

(* maintain_partitions, "what failed this time is made up the next time":  *)
(* when a round has gone through, every partition carries its policy.      *)
MissedIsMadeUp == job.at = "idle" /\ made = Month /\ ~due => \A m \in Months : parts[m] # "bare"
=============================================================================
