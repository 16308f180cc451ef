--------------------------- MODULE PlatformProofs ---------------------------
(***************************************************************************)
(* Proofs about the parts around the pipeline and the chat: what surrounds *)
(* every request, the scheduled rounds that keep the logs and their sums,  *)
(* the notifications, the chat page, and settings with their credentials.  *)
(***************************************************************************)
EXTENDS Settings, Requests, Upkeep, Notices, ChatClient, SequenceTheorems, FiniteSetTheorems, WellFoundedInduction, TLAPS

-----------------------------------------------------------------------------
(* Requests: the values of the variables.                                  *)
Places == {"wait", "count", "body", "auth", "limits", "open", "rows", "close", "more", "end"}
Memos == [of : Nat, change : Nat]
LineRow ==
  [plan : Seq(Visits), at : Places, tenant : Tenants \union {0}, memo : [Tenants \union {0} -> Memos],
   uow : Tenants \union {0}, conn : Pool \union {NoConn}, since : [Tenants -> Nat], told : Memos]
Setting == [tenant : Tenants \union {0}, user : Lines \union {Unused}]
CounterKeys == Addresses \X (1 .. Windows)
RequestShape ==
  /\ window \in 0 .. Windows /\ blows \in 0 .. MaxBlows /\ quota \in [Tenants -> 0 .. MaxChanges]
  /\ counter \in [CounterKeys -> Nat] /\ admitted \in [CounterKeys -> [in : Nat, out : BOOLEAN]]
  /\ conns \in [Pool -> Setting] /\ line \in [Lines -> LineRow]

(* A context by itself: for whom it works, and what it remembers.          *)
ForIts(x) ==
  /\ x.tenant # 0
  /\ x.tenant = Head(x.plan).tenant \/ (Head(x.plan).how = "after" /\ x.tenant = Head(x.plan).other)
RowSound(x) ==
  /\ x.at # "wait" => x.plan # <<>>
  /\ x.at \in {"wait", "count", "body", "auth"} => x.tenant = 0 /\ x.told = Nothing
  /\ x.at = "auth" => Head(x.plan).tenant # 0
  /\ x.at \in {"limits", "rows", "close"} => ForIts(x)
  /\ x.at = "open" =>
       IF x.told = Nothing THEN x.tenant = 0
       ELSE ForIts(x) /\ x.told.of = x.tenant /\ x.told.change >= x.since[x.tenant]
  /\ x.at = "more" => Head(x.plan).how = "after"
  /\ IF x.at \in {"rows", "close"} THEN x.uow = x.tenant ELSE x.conn = NoConn /\ x.uow = 0
  /\ \A t \in Tenants : x.memo[t] # Nothing => x.memo[t].of = t /\ x.memo[t].change >= x.since[t]

(* A context among the others: it has its connection for itself.           *)
Working(l) == line[l].at \in {"rows", "close"}
LineFits(l) ==
  /\ line[l].at # "wait" => window > 0
  /\ \A t \in Tenants : line[l].since[t] <= quota[t]
  /\ Working(l) => /\ line[l].conn \in Pool /\ conns[line[l].conn].user = l
                   /\ conns[line[l].conn].tenant = line[l].tenant
ConnFits(k) ==
  IF conns[k].user = Unused THEN conns[k].tenant = 0
  ELSE Working(conns[k].user) /\ line[conns[k].user].conn = k

(* The counter of a minute, and whom it let in.                            *)
WindowFits(key) ==
  /\ admitted[key].in <= counter[key] /\ admitted[key].in <= PerMinute
  /\ counter[key] <= admitted[key].in + blows \/ PerMinute <= admitted[key].in + blows
  /\ admitted[key].out => counter[key] > PerMinute

LinesFit == \A l \in Lines : RowSound(line[l]) /\ LineFits(l)
ConnsFit == \A k \in Pool : ConnFits(k)
WindowsFit == \A key \in CounterKeys : WindowFits(key)
RequestsInv == RequestShape /\ LinesFit /\ ConnsFit /\ WindowsFit

-----------------------------------------------------------------------------
(* What the steps do to a context.                                         *)
LEMMA RequestNumbers ==
  ASSUME RequestShape
  PROVE  /\ Tenants \subseteq Nat \ {0} /\ Lines \subseteq Nat \ {0} /\ PerMinute \in Nat /\ MaxChanges \in Nat
         /\ MaxBlows \in Nat /\ blows \in Nat /\ window \in Nat /\ \A t \in Tenants : quota[t] \in Nat
<1>1. PerMinute \in Nat /\ MaxChanges \in Nat /\ MaxBlows \in Nat /\ Windows \in Nat
  BY RequestsAssumption
<1>2. blows \in 0 .. MaxBlows /\ window \in 0 .. Windows /\ \A t \in Tenants : quota[t] \in 0 .. MaxChanges
  BY DEF RequestShape
<1>3. blows \in Nat /\ window \in Nat /\ \A t \in Tenants : quota[t] \in Nat
  BY <1>1, <1>2
<1>4. Tenants \subseteq Nat \ {0} /\ Lines \subseteq Nat \ {0}
  BY RequestsAssumption
<1>. QED  BY <1>1, <1>3, <1>4

LEMMA RowIs ==
  ASSUME RequestShape, NEW l \in Lines
  PROVE  /\ line[l] \in LineRow /\ line[l].plan \in Seq(Visits) /\ line[l].tenant \in Tenants \union {0}
         /\ line[l].memo \in [Tenants \union {0} -> Memos] /\ line[l].since \in [Tenants -> Nat]
         /\ line[l].told \in Memos /\ line[l].uow \in Tenants \union {0} /\ line[l].at \in Places
         /\ line[l].conn \in Pool \union {NoConn}
BY DEF RequestShape, LineRow

LEMMA VisitIs ==
  ASSUME NEW plan \in Seq(Visits), plan # <<>>
  PROVE  /\ Head(plan) \in Visits /\ Tail(plan) \in Seq(Visits)
         /\ Head(plan).from \in Addresses /\ Head(plan).tenant \in Tenants \union {0}
         /\ Head(plan).other \in Tenants \union {0} /\ (Head(plan).how = "after" => Head(plan).other \in Tenants)
<1>1. Head(plan) \in Visits /\ Tail(plan) \in Seq(Visits)
  BY HeadTailProperties
<1>. QED  BY <1>1 DEF Visits

Becomes(l, y) == line' = [line EXCEPT ![l] = y]

LEMMA TurnsTo ==
  ASSUME RequestShape, NEW l \in Lines, NEW at \in Places, GoTo(l, at)
  PROVE  \E y \in LineRow : /\ Becomes(l, y) /\ y.at = at /\ y.plan = line[l].plan /\ y.tenant = line[l].tenant
                            /\ y.memo = line[l].memo /\ y.uow = line[l].uow /\ y.conn = line[l].conn
                            /\ y.since = line[l].since /\ y.told = line[l].told
<1>. DEFINE y == [line[l] EXCEPT !.at = at]
<1>1. /\ y \in LineRow /\ y.at = at /\ y.plan = line[l].plan /\ y.tenant = line[l].tenant
      /\ y.memo = line[l].memo /\ y.uow = line[l].uow /\ y.conn = line[l].conn
      /\ y.since = line[l].since /\ y.told = line[l].told
  BY RowIs DEF LineRow
<1>2. Becomes(l, y)
  BY DEF GoTo, Becomes, RequestShape
<1>. HIDE DEF y
<1>. QED  BY <1>1, <1>2

TurnsFor(l, at, t) == line' = [line EXCEPT ![l].at = at, ![l].tenant = t]

LEMMA WorksFor ==
  ASSUME RequestShape, NEW l \in Lines, NEW at \in Places, NEW t \in Tenants \union {0}, TurnsFor(l, at, t)
  PROVE  \E y \in LineRow : /\ Becomes(l, y) /\ y.at = at /\ y.plan = line[l].plan /\ y.tenant = t
                            /\ y.memo = line[l].memo /\ y.uow = line[l].uow /\ y.conn = line[l].conn
                            /\ y.since = line[l].since /\ y.told = line[l].told
<1>. DEFINE y == [line[l] EXCEPT !.at = at, !.tenant = t]
<1>1. /\ y \in LineRow /\ y.at = at /\ y.plan = line[l].plan /\ y.tenant = t
      /\ y.memo = line[l].memo /\ y.uow = line[l].uow /\ y.conn = line[l].conn
      /\ y.since = line[l].since /\ y.told = line[l].told
  BY RowIs DEF LineRow
<1>2. Becomes(l, y)
  BY DEF Becomes, TurnsFor, RequestShape
<1>. HIDE DEF y
<1>. QED  BY <1>1, <1>2

LEMMA ArrivalIs ==
  ASSUME RequestShape, NEW l \in Lines, Arrive(l)
  PROVE  \E y \in LineRow : /\ Becomes(l, y) /\ y.at \in {"body", "count"} /\ y.plan = line[l].plan
                            /\ y.tenant = line[l].tenant
                            /\ y.memo = Unknown /\ y.uow = line[l].uow /\ y.conn = line[l].conn
                            /\ y.since = quota /\ y.told = line[l].told
<1>1. PICK at \in {"body", "count"} : line' = [line EXCEPT ![l].at = at, ![l].memo = Unknown, ![l].since = quota]
  BY DEF Arrive
<1>2. Unknown \in [Tenants \union {0} -> Memos] /\ quota \in [Tenants -> Nat] /\ at \in Places
  BY DEF Unknown, Nothing, Memos, RequestShape, Places
<1>. DEFINE y == [line[l] EXCEPT !.at = at, !.memo = Unknown, !.since = quota]
<1>3. /\ y \in LineRow /\ y.at = at /\ y.plan = line[l].plan /\ y.tenant = line[l].tenant
      /\ y.memo = Unknown /\ y.uow = line[l].uow /\ y.conn = line[l].conn
      /\ y.since = quota /\ y.told = line[l].told
  BY <1>2, RowIs DEF LineRow
<1>4. Becomes(l, y)
  BY <1>1 DEF Becomes, RequestShape
<1>. HIDE DEF y
<1>. QED  BY <1>1, <1>3, <1>4

LEMMA EndIs ==
  ASSUME RequestShape, NEW l \in Lines, End(l), line[l].plan # <<>>
  PROVE  \E y \in LineRow : /\ Becomes(l, y) /\ y.at = "wait" /\ y.tenant = 0
                            /\ y.memo = line[l].memo /\ y.uow = line[l].uow /\ y.conn = line[l].conn
                            /\ y.since = line[l].since /\ y.told = Nothing
<1>. DEFINE at == "wait"
            zero == 0
            plan == Tail(line[l].plan)
            told == Nothing
            y == [line[l] EXCEPT !.at = at, !.plan = plan, !.tenant = zero, !.told = told]
<1>1. at \in Places /\ zero \in Tenants \union {0} /\ plan \in Seq(Visits) /\ told \in Memos
  BY VisitIs, RowIs DEF Places, Memos, Nothing
<1>2. line' = [line EXCEPT ![l].at = at, ![l].plan = plan, ![l].tenant = zero, ![l].told = told]
  BY DEF End, Left
<1>. HIDE DEF at, zero, plan, told
<1>3. /\ y \in LineRow /\ y.at = at /\ y.tenant = zero
      /\ y.memo = line[l].memo /\ y.uow = line[l].uow /\ y.conn = line[l].conn
      /\ y.since = line[l].since /\ y.told = told
  BY <1>1, RowIs DEF LineRow
<1>4. Becomes(l, y)
  BY <1>2 DEF Becomes, RequestShape
<1>. HIDE DEF y
<1>. QED  BY <1>3, <1>4 DEF at, zero, told

LEMMA LimitsAre ==
  ASSUME RequestShape, NEW l \in Lines, Limits(l), line[l].tenant \in Tenants
  PROVE  \E y \in LineRow, v \in Memos :
           /\ Becomes(l, y) /\ y.at = "open" /\ y.plan = line[l].plan /\ y.tenant = line[l].tenant
           /\ y.uow = line[l].uow /\ y.conn = line[l].conn /\ y.since = line[l].since /\ y.told = v
           /\ y.memo[line[l].tenant] = v
           /\ \A t \in Tenants : t # line[l].tenant => y.memo[t] = line[l].memo[t]
           /\ \/ v = line[l].memo[line[l].tenant] /\ v # Nothing
              \/ v.of = line[l].tenant /\ v.change = quota[line[l].tenant] /\ v # Nothing
<1>. DEFINE t == line[l].tenant
            new == [of |-> t, change |-> quota[t]]
            v == IF line[l].memo[t] # Nothing THEN line[l].memo[t] ELSE new
            at == "open"
            memo == [line[l].memo EXCEPT ![t] = v]
            y == [line[l] EXCEPT !.memo = memo, !.told = v, !.at = at]
<1>1. t \in Nat \ {0} /\ quota[t] \in Nat
  BY RequestNumbers
<1>2. new \in Memos /\ new # Nothing /\ new.of = t /\ new.change = quota[t]
  BY <1>1 DEF Memos, Nothing
<1>3. line' = [line EXCEPT ![l].memo[t] = v, ![l].told = v, ![l].at = at]
  BY DEF Limits, MemoKey
<1>4. at \in Places
  BY DEF Places
<1>. HIDE DEF new, at
<1>5. v \in Memos /\ (v = line[l].memo[t] \/ v = new) /\ v # Nothing
  BY <1>2, RowIs
<1>6. line' = [line EXCEPT ![l] = [line[l] EXCEPT !.memo = [line[l].memo EXCEPT ![t] = v], !.told = v, !.at = at]]
  BY <1>3 DEF RequestShape
<1>. HIDE DEF v
<1>7. memo \in [Tenants \union {0} -> Memos] /\ memo[t] = v /\ \A s \in Tenants : s # t => memo[s] = line[l].memo[s]
  BY <1>5, RowIs
<1>8. Becomes(l, y)
  BY <1>6 DEF Becomes
<1>. HIDE DEF memo
<1>9. /\ y \in LineRow /\ y.at = at /\ y.plan = line[l].plan /\ y.tenant = line[l].tenant
      /\ y.memo = memo /\ y.uow = line[l].uow /\ y.conn = line[l].conn
      /\ y.since = line[l].since /\ y.told = v
  BY <1>4, <1>5, <1>7, RowIs DEF LineRow
<1>. HIDE DEF y
<1>. QED  BY <1>2, <1>5, <1>7, <1>8, <1>9 DEF at

LEMMA OpeningIs ==
  ASSUME RequestShape, NEW l \in Lines, NEW k \in Pool,
         line' = [line EXCEPT ![l].at = "rows", ![l].conn = k, ![l].uow = line[l].tenant]
  PROVE  \E y \in LineRow : /\ Becomes(l, y) /\ y.at = "rows" /\ y.plan = line[l].plan /\ y.tenant = line[l].tenant
                            /\ y.memo = line[l].memo /\ y.uow = line[l].tenant /\ y.conn = k
                            /\ y.since = line[l].since /\ y.told = line[l].told
<1>. DEFINE at == "rows"
            t == line[l].tenant
            y == [line[l] EXCEPT !.at = at, !.conn = k, !.uow = t]
<1>1. at \in Places /\ t \in Tenants \union {0} /\ k \in Pool \union {NoConn}
  BY RowIs DEF Places
<1>2. line' = [line EXCEPT ![l].at = at, ![l].conn = k, ![l].uow = t]
  OBVIOUS
<1>. HIDE DEF at, t
<1>3. /\ y \in LineRow /\ y.at = at /\ y.plan = line[l].plan /\ y.tenant = line[l].tenant
      /\ y.memo = line[l].memo /\ y.uow = t /\ y.conn = k
      /\ y.since = line[l].since /\ y.told = line[l].told
  BY <1>1, RowIs DEF LineRow
<1>4. Becomes(l, y)
  BY <1>2 DEF Becomes, RequestShape
<1>. HIDE DEF y
<1>. QED  BY <1>3, <1>4 DEF at, t

LEMMA ClosingIs ==
  ASSUME RequestShape, NEW l \in Lines, NEW at \in Places, Closed(l, at), line[l].plan # <<>>
  PROVE  \E y \in LineRow : /\ Becomes(l, y) /\ y.at = at /\ y.plan = line[l].plan
                            /\ y.tenant = Head(line[l].plan).tenant
                            /\ y.memo = line[l].memo /\ y.uow = 0 /\ y.conn = NoConn
                            /\ y.since = line[l].since /\ y.told = line[l].told
<1>. DEFINE zero == 0
            none == NoConn
            t == Head(line[l].plan).tenant
            y == [line[l] EXCEPT !.at = at, !.conn = none, !.uow = zero, !.tenant = t]
<1>1. zero \in Tenants \union {0} /\ t \in Tenants \union {0} /\ none \in Pool \union {NoConn}
  BY RowIs, VisitIs
<1>2. line' = [line EXCEPT ![l].at = at, ![l].conn = none, ![l].uow = zero, ![l].tenant = t]
  BY DEF Closed, Plan
<1>. HIDE DEF zero, none, t
<1>3. /\ y \in LineRow /\ y.at = at /\ y.plan = line[l].plan /\ y.tenant = t
      /\ y.memo = line[l].memo /\ y.uow = zero /\ y.conn = none
      /\ y.since = line[l].since /\ y.told = line[l].told
  BY <1>1, RowIs DEF LineRow
<1>4. Becomes(l, y)
  BY <1>2 DEF Becomes, RequestShape
<1>. HIDE DEF y
<1>. QED  BY <1>3, <1>4 DEF zero, none, t

-----------------------------------------------------------------------------
(* What a step of one context leaves of the others.                        *)
Settled == UNCHANGED <<window, quota>>
Timely(y) == (y.at # "wait" => window > 0) /\ \A t \in Tenants : y.since[t] <= quota[t]
Busy(y) == y.at \in {"rows", "close"}

LEMMA OneMoves ==
  ASSUME RequestShape, NEW l \in Lines, NEW y \in LineRow, Becomes(l, y)
  PROVE  line' \in [Lines -> LineRow] /\ line'[l] = y /\ \A m \in Lines \ {l} : line'[m] = line[m]
BY DEF RequestShape, Becomes

LEMMA Keeps ==
  ASSUME RequestShape, LinesFit, ConnsFit, Settled, NEW l \in Lines, NEW y \in LineRow, Becomes(l, y),
         RowSound(y), Timely(y), conns' = conns, Busy(y) <=> Working(l),
         Working(l) => y.conn = line[l].conn /\ y.tenant = line[l].tenant
  PROVE  LinesFit' /\ ConnsFit'
<1>. line' \in [Lines -> LineRow] /\ line'[l] = y /\ \A m \in Lines \ {l} : line'[m] = line[m]
  BY OneMoves
<1>1. \A m \in Lines : Working(m)' <=> Working(m)
  BY DEF Working, Busy
<1>2. \A m \in Lines : Working(m) => line'[m].conn = line[m].conn /\ line'[m].tenant = line[m].tenant
  OBVIOUS
<1>3. \A m \in Lines : RowSound(line'[m])
  BY DEF LinesFit
<1>4. ASSUME NEW m \in Lines  PROVE LineFits(m)'
  <2>1. LineFits(m)
    BY DEF LinesFit
  <2>2. (line'[m].at # "wait" => window' > 0) /\ \A t \in Tenants : line'[m].since[t] <= quota'[t]
    BY <2>1 DEF LineFits, Timely, Settled
  <2>3. Working(m)' => /\ line'[m].conn \in Pool /\ conns'[line'[m].conn].user = m
                       /\ conns'[line'[m].conn].tenant = line'[m].tenant
    BY <1>1, <1>2, <2>1 DEF LineFits
  <2>. QED  BY <2>2, <2>3 DEF LineFits
<1>5. ASSUME NEW k \in Pool  PROVE ConnFits(k)'
  <2>1. ConnFits(k) /\ conns[k].user \in Lines \union {Unused}
    BY DEF ConnsFit, RequestShape, Setting
  <2>. QED  BY <1>1, <1>2, <2>1 DEF ConnFits
<1>6. LinesFit'
  BY <1>3, <1>4 DEF LinesFit
<1>. QED  BY <1>5, <1>6 DEF ConnsFit

LEMMA Opens ==
  ASSUME RequestShape, LinesFit, ConnsFit, Settled, NEW l \in Lines, NEW y \in LineRow, Becomes(l, y),
         RowSound(y), Timely(y), ~ Working(l), NEW k \in Pool, conns[k].user = Unused, Busy(y), y.conn = k,
         conns' = [conns EXCEPT ![k] = [tenant |-> y.tenant, user |-> l]]
  PROVE  LinesFit' /\ ConnsFit'
<1>. line' \in [Lines -> LineRow] /\ line'[l] = y /\ \A m \in Lines \ {l} : line'[m] = line[m]
  BY OneMoves
<1>1. conns'[k].user = l /\ conns'[k].tenant = y.tenant /\ \A j \in Pool \ {k} : conns'[j] = conns[j]
  BY DEF RequestShape
<1>2. Working(l)' /\ \A m \in Lines \ {l} : Working(m)' <=> Working(m)
  BY DEF Working, Busy
<1>3. \A m \in Lines : RowSound(line'[m])
  BY DEF LinesFit
<1>4. \A m \in Lines : LineFits(m) /\ m # Unused
  BY RequestNumbers DEF LinesFit, Unused
<1>5. ASSUME NEW m \in Lines  PROVE LineFits(m)'
  <2>1. (line'[m].at # "wait" => window' > 0) /\ \A t \in Tenants : line'[m].since[t] <= quota'[t]
    BY <1>4 DEF LineFits, Timely, Settled
  <2>2. Working(m)' => /\ line'[m].conn \in Pool /\ conns'[line'[m].conn].user = m
                       /\ conns'[line'[m].conn].tenant = line'[m].tenant
    <3>1. CASE m = l  BY <3>1, <1>1
    <3>2. CASE m # l
      <4>1. Working(m)' => line[m].conn \in Pool /\ conns[line[m].conn].user = m
                           /\ conns[line[m].conn].tenant = line[m].tenant
        BY <3>2, <1>2, <1>4 DEF LineFits
      <4>2. Working(m)' => line[m].conn # k
        BY <4>1, <1>4
      <4>. QED  BY <3>2, <4>1, <4>2, <1>1
    <3>. QED  BY <3>1, <3>2
  <2>. QED  BY <2>1, <2>2 DEF LineFits
<1>6. ASSUME NEW j \in Pool  PROVE ConnFits(j)'
  <2>1. CASE j = k
    <3>1. conns'[j].user = l /\ l # Unused /\ line'[l].conn = j
      BY <2>1, <1>1, <1>4
    <3>. QED  BY <3>1, <1>2 DEF ConnFits, Working
  <2>2. CASE j # k
    <3>1. ConnFits(j) /\ conns[j].user \in Lines \union {Unused} /\ conns'[j] = conns[j]
      BY <2>2, <1>1 DEF ConnsFit, RequestShape, Setting
    <3>2. conns[j].user # Unused => conns[j].user \in Lines \ {l}
      BY <3>1 DEF ConnFits
    <3>. QED  BY <3>1, <3>2, <1>2 DEF ConnFits
  <2>. QED  BY <2>1, <2>2
<1>7. LinesFit'
  BY <1>3, <1>5 DEF LinesFit
<1>. QED  BY <1>6, <1>7 DEF ConnsFit

LEMMA Closes ==
  ASSUME RequestShape, LinesFit, ConnsFit, Settled, NEW l \in Lines, NEW y \in LineRow, Becomes(l, y),
         RowSound(y), Timely(y), Working(l), ~ Busy(y),
         conns' = [conns EXCEPT ![line[l].conn] = [tenant |-> 0, user |-> Unused]]
  PROVE  LinesFit' /\ ConnsFit'
<1>. line' \in [Lines -> LineRow] /\ line'[l] = y /\ \A m \in Lines \ {l} : line'[m] = line[m]
  BY OneMoves
<1>. DEFINE k == line[l].conn
<1>0. k \in Pool /\ conns[k].user = l
  BY DEF LinesFit, LineFits
<1>1. conns'[k].user = Unused /\ conns'[k].tenant = 0 /\ \A j \in Pool \ {k} : conns'[j] = conns[j]
  BY <1>0 DEF RequestShape
<1>2. ~ Working(l)' /\ \A m \in Lines \ {l} : Working(m)' <=> Working(m)
  BY DEF Working, Busy
<1>3. \A m \in Lines : RowSound(line'[m])
  BY DEF LinesFit
<1>4. \A m \in Lines : LineFits(m) /\ m # Unused
  BY RequestNumbers DEF LinesFit, Unused
<1>5. ASSUME NEW m \in Lines  PROVE LineFits(m)'
  <2>1. (line'[m].at # "wait" => window' > 0) /\ \A t \in Tenants : line'[m].since[t] <= quota'[t]
    BY <1>4 DEF LineFits, Timely, Settled
  <2>2. Working(m)' => /\ line'[m].conn \in Pool /\ conns'[line'[m].conn].user = m
                       /\ conns'[line'[m].conn].tenant = line'[m].tenant
    <3>1. CASE m = l  BY <3>1, <1>2
    <3>2. CASE m # l
      <4>1. Working(m)' => line[m].conn \in Pool /\ conns[line[m].conn].user = m
                           /\ conns[line[m].conn].tenant = line[m].tenant
        BY <3>2, <1>2, <1>4 DEF LineFits
      <4>2. Working(m)' => line[m].conn # line[l].conn
        BY <4>1, <1>0, <3>2
      <4>. QED  BY <3>2, <4>1, <4>2, <1>1
    <3>. QED  BY <3>1, <3>2
  <2>. QED  BY <2>1, <2>2 DEF LineFits
<1>6. ASSUME NEW j \in Pool  PROVE ConnFits(j)'
  <2>1. CASE j = k
    BY <2>1, <1>1 DEF ConnFits
  <2>2. CASE j # k
    <3>1. ConnFits(j) /\ conns[j].user \in Lines \union {Unused} /\ conns'[j] = conns[j]
      BY <2>2, <1>1 DEF ConnsFit, RequestShape, Setting
    <3>2. conns[j].user # Unused => conns[j].user \in Lines \ {l}
      BY <2>2, <3>1 DEF ConnFits
    <3>. QED  BY <3>1, <3>2, <1>2 DEF ConnFits
  <2>. QED  BY <2>1, <2>2
<1>7. LinesFit'
  BY <1>3, <1>5 DEF LinesFit
<1>. QED  BY <1>6, <1>7 DEF ConnsFit

-----------------------------------------------------------------------------
(* The steps, one by one.                                                  *)
Calm == UNCHANGED <<window, counter, admitted, quota, blows>>

LEMMA Rest ==
  ASSUME RequestShape, WindowsFit, Calm, NEW l \in Lines, NEW y \in LineRow, Becomes(l, y),
         conns' \in [Pool -> Setting]
  PROVE  RequestShape' /\ WindowsFit'
<1>1. RequestShape'
  BY OneMoves DEF RequestShape, Calm
<1>2. WindowsFit'
  BY DEF WindowsFit, WindowFits, Calm
<1>. QED  BY <1>1, <1>2

(* Most steps leave the connections and the transactions alone.            *)
LEMMA Simply ==
  ASSUME RequestsInv, Calm, conns' = conns, NEW l \in Lines, NEW y \in LineRow, Becomes(l, y),
         RowSound(y), Timely(y), Busy(y) <=> Working(l),
         Working(l) => y.conn = line[l].conn /\ y.tenant = line[l].tenant
  PROVE  RequestsInv'
<1>1. RequestShape /\ LinesFit /\ ConnsFit /\ WindowsFit /\ Settled
  BY DEF RequestsInv, Settled, Calm
<1>2. LinesFit' /\ ConnsFit'
  BY <1>1, Keeps
<1>3. conns' \in [Pool -> Setting]
  BY <1>1 DEF RequestShape
<1>4. RequestShape' /\ WindowsFit'
  BY <1>1, <1>3, Rest
<1>. QED  BY <1>2, <1>4 DEF RequestsInv

LEMMA Facts ==
  ASSUME RequestsInv, NEW l \in Lines
  PROVE  RequestShape /\ RowSound(line[l]) /\ LineFits(l)
BY DEF RequestsInv, LinesFit

LEMMA ArriveKeeps == ASSUME RequestsInv, NEW l \in Lines, Arrive(l)  PROVE RequestsInv'
<1>. RequestShape /\ RowSound(line[l]) /\ LineFits(l)
  BY Facts
<1>1. PICK y \in LineRow : /\ Becomes(l, y) /\ y.at \in {"body", "count"} /\ y.plan = line[l].plan
                           /\ y.tenant = line[l].tenant
                           /\ y.memo = Unknown /\ y.uow = line[l].uow /\ y.conn = line[l].conn
                           /\ y.since = quota /\ y.told = line[l].told
  BY ArrivalIs
<1>2. line[l].at = "wait" /\ line[l].plan # <<>> /\ window > 0 /\ Calm /\ conns' = conns
  BY DEF Arrive, AtLine, Calm
<1>3. \A t \in Tenants : y.memo[t] = Nothing
  BY <1>1 DEF Unknown
<1>4. RowSound(y)
  BY <1>1, <1>2, <1>3, EmptySeq DEF RowSound
<1>5. Timely(y)
  BY <1>1, <1>2, RequestNumbers DEF Timely
<1>6. ~ Busy(y) /\ ~ Working(l)
  BY <1>1, <1>2 DEF Busy, Working
<1>. QED  BY <1>1, <1>2, <1>4, <1>5, <1>6, Simply

(* A step of the request that only goes on: where to, and for whom.        *)
LEMMA GoesOn ==
  ASSUME RequestsInv, NEW l \in Lines, NEW at \in Places, GoTo(l, at), line[l].at # "wait",
         at \in {"count", "body", "auth"} => line[l].tenant = 0 /\ line[l].told = Nothing,
         at = "auth" => Head(line[l].plan).tenant # 0,
         at = "open" => line[l].told = Nothing /\ line[l].tenant = 0,
         at \notin {"limits", "more", "wait"}, at \in {"rows", "close"} <=> Working(l)
  PROVE  \E y \in LineRow : /\ Becomes(l, y) /\ RowSound(y) /\ Timely(y) /\ (Busy(y) <=> Working(l))
                            /\ y.conn = line[l].conn /\ y.tenant = line[l].tenant
<1>. RequestShape /\ RowSound(line[l]) /\ LineFits(l)
  BY Facts
<1>1. PICK y \in LineRow : /\ Becomes(l, y) /\ y.at = at /\ y.plan = line[l].plan /\ y.tenant = line[l].tenant
                           /\ y.memo = line[l].memo /\ y.uow = line[l].uow /\ y.conn = line[l].conn
                           /\ y.since = line[l].since /\ y.told = line[l].told
  BY TurnsTo
<1>2. Timely(y)
  BY <1>1 DEF Timely, LineFits
<1>3. Busy(y) <=> Working(l)
  BY <1>1 DEF Busy
<1>4. y.plan # <<>>
  BY <1>1 DEF RowSound
<1>5. at \in {"rows", "close"} => ForIts(y)
  BY <1>1 DEF RowSound, ForIts, Working
<1>6. \A t \in Tenants : y.memo[t] # Nothing => y.memo[t].of = t /\ y.memo[t].change >= y.since[t]
  BY <1>1 DEF RowSound
<1>7. IF y.at \in {"rows", "close"} THEN y.uow = y.tenant ELSE y.conn = NoConn /\ y.uow = 0
  BY <1>1 DEF RowSound, Working
<1>8. RowSound(y)
  BY <1>1, <1>4, <1>5, <1>6, <1>7 DEF RowSound
<1>. QED  BY <1>1, <1>2, <1>3, <1>8

LEMMA BodyKeeps == ASSUME RequestsInv, NEW l \in Lines, Body(l)  PROVE RequestsInv'
<1>. RequestShape /\ RowSound(line[l]) /\ LineFits(l)
  BY Facts
<1>1. line[l].at = "body" /\ Calm /\ conns' = conns
  BY DEF Body, AtLine, Calm
<1>2. PICK at \in {"end", "open", "auth"} : GoTo(l, at) /\ (at = "auth" => Head(line[l].plan).tenant # 0)
  BY DEF Body, Plan
<1>3. line[l].tenant = 0 /\ line[l].told = Nothing /\ ~ Working(l)
  BY <1>1 DEF RowSound, Working
<1>4. at \in Places
  BY <1>2 DEF Places
<1>5. PICK y \in LineRow : /\ Becomes(l, y) /\ RowSound(y) /\ Timely(y) /\ (Busy(y) <=> Working(l))
                           /\ y.conn = line[l].conn /\ y.tenant = line[l].tenant
  BY <1>1, <1>2, <1>3, <1>4, GoesOn
<1>. QED  BY <1>1, <1>5, Simply

LEMMA QueryKeeps == ASSUME RequestsInv, NEW l \in Lines, Query(l)  PROVE RequestsInv'
<1>. RequestShape /\ RowSound(line[l]) /\ LineFits(l)
  BY Facts
<1>. DEFINE at == "close"
<1>1. line[l].at = "rows" /\ Calm /\ conns' = conns /\ GoTo(l, at)
  BY DEF Query, AtLine, Calm
<1>2. Working(l) /\ at \in Places
  BY <1>1 DEF Working, Places
<1>3. PICK y \in LineRow : /\ Becomes(l, y) /\ RowSound(y) /\ Timely(y) /\ (Busy(y) <=> Working(l))
                           /\ y.conn = line[l].conn /\ y.tenant = line[l].tenant
  BY <1>1, <1>2, GoesOn
<1>. QED  BY <1>1, <1>3, Simply

LEMMA AuthenticateKeeps == ASSUME RequestsInv, NEW l \in Lines, Authenticate(l)  PROVE RequestsInv'
<1>. RequestShape /\ RowSound(line[l]) /\ LineFits(l)
  BY Facts
<1>. DEFINE at == "limits"
            t == Head(line[l].plan).tenant
<1>1. line[l].at = "auth" /\ Calm /\ conns' = conns /\ line' = [line EXCEPT ![l].at = at, ![l].tenant = t]
  BY DEF Authenticate, AtLine, Calm, Plan
<1>2. line[l].plan # <<>> /\ t # 0 /\ ~ Working(l)
  BY <1>1 DEF RowSound, Working
<1>3. t \in Tenants \union {0} /\ at \in Places
  BY <1>2, RowIs, VisitIs DEF Places
<1>. HIDE DEF at, t
<1>8. TurnsFor(l, at, t)
  BY <1>1 DEF TurnsFor
<1>4. PICK y \in LineRow : /\ Becomes(l, y) /\ y.at = at /\ y.plan = line[l].plan /\ y.tenant = t
                           /\ y.memo = line[l].memo /\ y.uow = line[l].uow /\ y.conn = line[l].conn
                           /\ y.since = line[l].since /\ y.told = line[l].told
  BY <1>3, <1>8, WorksFor
<1>5. ForIts(y)
  BY <1>2, <1>4 DEF ForIts, t
<1>6. RowSound(y)
  BY <1>1, <1>2, <1>4, <1>5 DEF RowSound, at
<1>7. Timely(y) /\ ~ Busy(y)
  BY <1>1, <1>4 DEF Timely, LineFits, Busy, at
<1>. QED  BY <1>1, <1>2, <1>4, <1>6, <1>7, Simply

LEMMA AsideKeeps == ASSUME RequestsInv, NEW l \in Lines, Aside(l)  PROVE RequestsInv'
<1>. RequestShape /\ RowSound(line[l]) /\ LineFits(l)
  BY Facts
<1>. DEFINE at == "limits"
            t == Head(line[l].plan).other
<1>1. line[l].at = "more" /\ Calm /\ conns' = conns /\ line' = [line EXCEPT ![l].at = at, ![l].tenant = t]
  BY DEF Aside, AtLine, Calm, Plan
<1>2. line[l].plan # <<>> /\ Head(line[l].plan).how = "after" /\ ~ Working(l)
  BY <1>1 DEF RowSound, Working
<1>3. t \in Tenants /\ at \in Places /\ t # 0 /\ t \in Tenants \union {0}
  <2>1. line[l].plan \in Seq(Visits)
    BY RowIs
  <2>2. t \in Tenants
    BY <1>2, <2>1, VisitIs
  <2>3. t # 0
    BY <2>2, RequestNumbers
  <2>. QED  BY <2>2, <2>3 DEF Places
<1>. HIDE DEF at, t
<1>8. TurnsFor(l, at, t)
  BY <1>1 DEF TurnsFor
<1>4. PICK y \in LineRow : /\ Becomes(l, y) /\ y.at = at /\ y.plan = line[l].plan /\ y.tenant = t
                           /\ y.memo = line[l].memo /\ y.uow = line[l].uow /\ y.conn = line[l].conn
                           /\ y.since = line[l].since /\ y.told = line[l].told
  BY <1>3, <1>8, WorksFor
<1>5. ForIts(y)
  BY <1>2, <1>3, <1>4 DEF ForIts, t
<1>6. RowSound(y)
  BY <1>1, <1>2, <1>4, <1>5 DEF RowSound, at
<1>7. Timely(y) /\ ~ Busy(y)
  BY <1>1, <1>4 DEF Timely, LineFits, Busy, at
<1>. QED  BY <1>1, <1>2, <1>4, <1>6, <1>7, Simply

LEMMA EndKeeps == ASSUME RequestsInv, NEW l \in Lines, End(l)  PROVE RequestsInv'
<1>. RequestShape /\ RowSound(line[l]) /\ LineFits(l)
  BY Facts
<1>1. line[l].at = "end" /\ Calm /\ conns' = conns
  BY DEF End, AtLine, Calm
<1>2. line[l].plan # <<>> /\ ~ Working(l) /\ line[l].conn = NoConn /\ line[l].uow = 0
  BY <1>1 DEF RowSound, Working
<1>3. PICK y \in LineRow : /\ Becomes(l, y) /\ y.at = "wait" /\ y.tenant = 0
                           /\ y.memo = line[l].memo /\ y.uow = line[l].uow /\ y.conn = line[l].conn
                           /\ y.since = line[l].since /\ y.told = Nothing
  BY <1>2, EndIs
<1>4. RowSound(y)
  BY <1>2, <1>3 DEF RowSound
<1>5. Timely(y) /\ ~ Busy(y)
  BY <1>3 DEF Timely, LineFits, Busy
<1>. QED  BY <1>1, <1>2, <1>3, <1>4, <1>5, Simply

LEMMA LimitsKeeps == ASSUME RequestsInv, NEW l \in Lines, Limits(l)  PROVE RequestsInv'
<1>. RequestShape /\ RowSound(line[l]) /\ LineFits(l)
  BY Facts
<1>1. line[l].at = "limits" /\ Calm /\ conns' = conns
  BY DEF Limits, AtLine, Calm
<1>2. ForIts(line[l]) /\ line[l].plan # <<>> /\ ~ Working(l) /\ line[l].tenant \in Tenants
  BY <1>1, RowIs DEF RowSound, Working, ForIts
<1>3. PICK y \in LineRow, v \in Memos :
           /\ Becomes(l, y) /\ y.at = "open" /\ y.plan = line[l].plan /\ y.tenant = line[l].tenant
           /\ y.uow = line[l].uow /\ y.conn = line[l].conn /\ y.since = line[l].since /\ y.told = v
           /\ y.memo[line[l].tenant] = v
           /\ \A t \in Tenants : t # line[l].tenant => y.memo[t] = line[l].memo[t]
           /\ \/ v = line[l].memo[line[l].tenant] /\ v # Nothing
              \/ v.of = line[l].tenant /\ v.change = quota[line[l].tenant] /\ v # Nothing
  BY <1>2, LimitsAre
<1>4. \A t \in Tenants : line[l].since[t] <= quota[t] /\ line[l].since[t] \in Nat /\ quota[t] \in Nat
  BY RowIs, RequestNumbers DEF LineFits
<1>5. \A t \in Tenants : line[l].memo[t] # Nothing =>
        line[l].memo[t].of = t /\ line[l].memo[t].change >= line[l].since[t]
  BY DEF RowSound
<1>6. v.of = line[l].tenant /\ v.change >= line[l].since[line[l].tenant] /\ v # Nothing
  <2>1. CASE v = line[l].memo[line[l].tenant] /\ v # Nothing
    BY <2>1, <1>2, <1>5
  <2>2. CASE v.of = line[l].tenant /\ v.change = quota[line[l].tenant] /\ v # Nothing
    BY <2>2, <1>2, <1>4
  <2>. QED  BY <2>1, <2>2, <1>3
<1>7. \A t \in Tenants : y.memo[t] # Nothing => y.memo[t].of = t /\ y.memo[t].change >= y.since[t]
  BY <1>3, <1>5, <1>6
<1>8. ForIts(y)
  BY <1>2, <1>3 DEF ForIts
<1>9. RowSound(y)
  BY <1>1, <1>2, <1>3, <1>6, <1>7, <1>8 DEF RowSound
<1>10. Timely(y) /\ ~ Busy(y)
  BY <1>1, <1>3 DEF Timely, LineFits, Busy
<1>. QED  BY <1>1, <1>2, <1>3, <1>9, <1>10, Simply

LEMMA OpenKeeps == ASSUME RequestsInv, NEW l \in Lines, OpenConn(l)  PROVE RequestsInv'
<1>. RequestShape /\ RowSound(line[l]) /\ LineFits(l)
  BY Facts
<1>1. line[l].at = "open" /\ Calm
  BY DEF OpenConn, AtLine, Calm
<1>2. line[l].plan # <<>> /\ ~ Working(l)
  BY <1>1 DEF RowSound, Working
<1>3. CASE line[l].tenant = 0 /\ GoTo(l, "end") /\ UNCHANGED conns
  <2>. DEFINE at == "end"
  <2>1. GoTo(l, at) /\ at \in Places
    BY <1>3 DEF Places
  <2>2. PICK y \in LineRow : /\ Becomes(l, y) /\ RowSound(y) /\ Timely(y) /\ (Busy(y) <=> Working(l))
                             /\ y.conn = line[l].conn /\ y.tenant = line[l].tenant
    BY <2>1, <1>1, <1>2, GoesOn
  <2>. QED  BY <1>1, <1>3, <2>2, Simply
<1>4. CASE line[l].tenant # 0 /\ \E k \in Pool :
             /\ conns[k].user = Unused /\ conns' = [conns EXCEPT ![k] = [tenant |-> line[l].tenant, user |-> l]]
             /\ line' = [line EXCEPT ![l].at = "rows", ![l].conn = k, ![l].uow = line[l].tenant]
  <2>1. PICK k \in Pool :
             /\ conns[k].user = Unused /\ conns' = [conns EXCEPT ![k] = [tenant |-> line[l].tenant, user |-> l]]
             /\ line' = [line EXCEPT ![l].at = "rows", ![l].conn = k, ![l].uow = line[l].tenant]
    BY <1>4
  <2>2. PICK y \in LineRow : /\ Becomes(l, y) /\ y.at = "rows" /\ y.plan = line[l].plan /\ y.tenant = line[l].tenant
                             /\ y.memo = line[l].memo /\ y.uow = line[l].tenant /\ y.conn = k
                             /\ y.since = line[l].since /\ y.told = line[l].told
    BY <2>1, OpeningIs
  <2>3. ForIts(y)
    BY <1>1, <1>4, <2>2 DEF RowSound, ForIts
  <2>4. RowSound(y)
    BY <1>2, <2>2, <2>3 DEF RowSound
  <2>5. Timely(y) /\ Busy(y)
    BY <1>1, <2>2 DEF Timely, LineFits, Busy
  <2>6. /\ LinesFit /\ ConnsFit /\ WindowsFit /\ Settled
        /\ conns' = [conns EXCEPT ![k] = [tenant |-> y.tenant, user |-> l]]
    BY <1>1, <2>1, <2>2 DEF RequestsInv, Settled, Calm
  <2>7. LinesFit' /\ ConnsFit'
    BY <1>2, <2>1, <2>2, <2>4, <2>5, <2>6, Opens
  <2>8. conns' \in [Pool -> Setting]
    BY <2>6, RowIs DEF RequestShape, Setting, LineRow
  <2>9. RequestShape' /\ WindowsFit'
    BY <1>1, <2>2, <2>6, <2>8, Rest
  <2>. QED  BY <2>7, <2>9 DEF RequestsInv
<1>. QED  BY <1>3, <1>4 DEF OpenConn

LEMMA EndsWork ==
  ASSUME RequestsInv, NEW l \in Lines, NEW at \in {"end", "more"}, Closed(l, at), Calm, Working(l),
         at = "more" => Head(line[l].plan).how = "after"
  PROVE  RequestsInv'
<1>. RequestShape /\ RowSound(line[l]) /\ LineFits(l)
  BY Facts
<1>1. line[l].plan # <<>> /\ at \in Places
  BY DEF RowSound, Working, Places
<1>2. PICK y \in LineRow : /\ Becomes(l, y) /\ y.at = at /\ y.plan = line[l].plan
                           /\ y.tenant = Head(line[l].plan).tenant
                           /\ y.memo = line[l].memo /\ y.uow = 0 /\ y.conn = NoConn
                           /\ y.since = line[l].since /\ y.told = line[l].told
  BY <1>1, ClosingIs
<1>3. RowSound(y)
  BY <1>1, <1>2 DEF RowSound
<1>4. Timely(y) /\ ~ Busy(y)
  BY <1>2 DEF Timely, LineFits, Busy, Working
<1>5. /\ LinesFit /\ ConnsFit /\ WindowsFit /\ Settled
      /\ conns' = [conns EXCEPT ![line[l].conn] = [tenant |-> 0, user |-> Unused]]
  BY DEF RequestsInv, Settled, Calm, Closed, After
<1>6. LinesFit' /\ ConnsFit'
  BY <1>2, <1>3, <1>4, <1>5, Closes
<1>7. conns' \in [Pool -> Setting]
  BY <1>5 DEF RequestShape, Setting
<1>8. RequestShape' /\ WindowsFit'
  BY <1>2, <1>5, <1>7, Rest
<1>. QED  BY <1>6, <1>8 DEF RequestsInv

LEMMA CloseKeeps == ASSUME RequestsInv, NEW l \in Lines, Close(l)  PROVE RequestsInv'
<1>1. line[l].at = "close" /\ Calm
  BY DEF Close, AtLine, Calm
<1>2. PICK at \in {"end", "more"} : Closed(l, at) /\ (at = "more" => Head(line[l].plan).how = "after")
  BY DEF Close, Plan
<1>3. Working(l)
  BY <1>1 DEF Working
<1>. QED  BY <1>1, <1>2, <1>3, EndsWork

(* An inner transaction is let in for the tenant of the outer one only, so *)
(* that its setting changes nothing.                                       *)
LEMMA NestKeeps == ASSUME RequestsInv, NEW l \in Lines, Nest(l)  PROVE RequestsInv'
<1>. RequestShape /\ RowSound(line[l]) /\ LineFits(l)
  BY Facts
<1>1. line[l].at = "rows" /\ Calm
  BY DEF Nest, AtLine, Calm
<1>2. Working(l)
  BY <1>1 DEF Working
<1>3. CASE MayNest(l)
  <2>. DEFINE at == "close"
              k == line[l].conn
  <2>1. conns' = [conns EXCEPT ![k].tenant = Head(line[l].plan).other] /\ GoTo(l, at) /\ at \in Places
    BY <1>3 DEF Nest, Plan, Places
  <2>2. k \in Pool /\ conns[k].tenant = line[l].tenant /\ line[l].uow = line[l].tenant
    BY <1>1, <1>2 DEF LineFits, RowSound
  <2>3. Head(line[l].plan).other = conns[k].tenant
    BY <1>3, <2>2 DEF MayNest, Plan
  <2>4. conns[k] = [conns[k] EXCEPT !.tenant = conns[k].tenant]
    BY <2>2 DEF RequestShape, Setting
  <2>5. conns' = conns
    BY <2>1, <2>2, <2>3, <2>4 DEF RequestShape
  <2>6. PICK y \in LineRow : /\ Becomes(l, y) /\ RowSound(y) /\ Timely(y) /\ (Busy(y) <=> Working(l))
                             /\ y.conn = line[l].conn /\ y.tenant = line[l].tenant
    BY <2>1, <1>1, <1>2, GoesOn
  <2>. QED  BY <1>1, <2>5, <2>6, Simply
<1>4. CASE ~ MayNest(l)
  <2>. DEFINE at == "end"
  <2>1. Closed(l, at) /\ at \in {"end", "more"} /\ at # "more"
    BY <1>4 DEF Nest
  <2>. QED  BY <2>1, <1>1, <1>2, EndsWork
<1>. QED  BY <1>3, <1>4

(* The counting: one key, of the address and the minute.                   *)
KeyOf(l) == <<Head(line[l].plan).from, window>>

LEMMA KeyIs ==
  ASSUME RequestsInv, NEW l \in Lines, line[l].at = "count"
  PROVE  /\ KeyOf(l) \in CounterKeys /\ counter[KeyOf(l)] \in Nat /\ admitted[KeyOf(l)] \in [in : Nat, out : BOOLEAN]
         /\ WindowFits(KeyOf(l))
<1>. RequestShape /\ RowSound(line[l]) /\ LineFits(l)
  BY Facts
<1>1. line[l].plan # <<>> /\ line[l].plan \in Seq(Visits)
  BY RowIs DEF RowSound
<1>2. Head(line[l].plan).from \in Addresses
  BY <1>1, VisitIs
<1>3. window \in 0 .. Windows /\ window > 0
  BY DEF RequestShape, LineFits
<1>4. window \in 1 .. Windows
  BY <1>3, RequestsAssumption
<1>5. KeyOf(l) \in CounterKeys
  BY <1>2, <1>4 DEF KeyOf, CounterKeys
<1>. QED  BY <1>5 DEF RequestShape, RequestsInv, WindowsFit

(* A counter that moves on, and the word of it.                            *)
LEMMA Admitted ==
  ASSUME RequestsInv, NEW key \in CounterKeys, NEW used \in Nat, used = counter[key] + 1,
         counter' = [counter EXCEPT ![key] = used], blows' = blows,
         admitted' = IF used <= PerMinute THEN [admitted EXCEPT ![key].in = @ + 1]
                                          ELSE [admitted EXCEPT ![key].out = TRUE]
  PROVE  /\ WindowsFit' /\ counter' \in [CounterKeys -> Nat] /\ admitted' \in [CounterKeys -> [in : Nat, out : BOOLEAN]]
<1>. DEFINE in == admitted[key].in
            out == admitted[key].out
            more == in + 1
            yes == TRUE
<1>0. /\ RequestShape /\ WindowsFit /\ PerMinute \in Nat /\ blows \in Nat
      /\ counter \in [CounterKeys -> Nat] /\ admitted \in [CounterKeys -> [in : Nat, out : BOOLEAN]]
  BY RequestNumbers DEF RequestsInv, RequestShape
<1>1. /\ in \in Nat /\ out \in BOOLEAN /\ counter[key] \in Nat /\ in <= counter[key] /\ in <= PerMinute
      /\ (counter[key] <= in + blows \/ PerMinute <= in + blows) /\ (out => counter[key] > PerMinute)
  BY <1>0 DEF WindowsFit, WindowFits
<1>2. counter'[key] = counter[key] + 1 /\ counter' \in [CounterKeys -> Nat]
  BY <1>0
<1>3. \A k \in CounterKeys \ {key} : counter'[k] = counter[k]
  BY <1>0
<1>4. /\ admitted' \in [CounterKeys -> [in : Nat, out : BOOLEAN]]
      /\ \A k \in CounterKeys \ {key} : admitted'[k] = admitted[k]
      /\ IF used <= PerMinute THEN admitted'[key].in = in + 1 /\ admitted'[key].out = out
                              ELSE admitted'[key].in = in /\ admitted'[key].out = TRUE
  <2>0. more \in Nat /\ yes \in BOOLEAN /\ (yes = TRUE) /\ more = in + 1
    BY <1>1
  <2>1. CASE used <= PerMinute
    <3>1. admitted' = [admitted EXCEPT ![key].in = more]
      BY <2>1, <1>0
    <3>. HIDE DEF more
    <3>2. /\ admitted' \in [CounterKeys -> [in : Nat, out : BOOLEAN]] /\ admitted'[key].in = more /\ admitted'[key].out = out
          /\ \A k \in CounterKeys \ {key} : admitted'[k] = admitted[k]
      BY <3>1, <1>0, <2>0
    <3>. QED  BY <2>0, <2>1, <3>2
  <2>2. CASE ~ (used <= PerMinute)
    <3>1. admitted' = [admitted EXCEPT ![key].out = yes]
      BY <2>2, <1>0
    <3>. HIDE DEF yes
    <3>2. /\ admitted' \in [CounterKeys -> [in : Nat, out : BOOLEAN]] /\ admitted'[key].in = in /\ admitted'[key].out = yes
          /\ \A k \in CounterKeys \ {key} : admitted'[k] = admitted[k]
      BY <3>1, <1>0, <2>0
    <3>. QED  BY <2>0, <2>2, <3>2
  <2>. QED  BY <2>1, <2>2
<1>5. \A k \in CounterKeys \ {key} : WindowFits(k)'
  BY <1>0, <1>3, <1>4 DEF WindowsFit, WindowFits
<1>. HIDE DEF in, out
<1>6. WindowFits(key)'
  <2>1. CASE used <= PerMinute
    <3>1. admitted'[key].in = in + 1 /\ admitted'[key].out = out
      BY <2>1, <1>4
    <3>2. ~ out
      BY <1>0, <1>1, <2>1
    <3>3. /\ in + 1 <= counter[key] + 1 /\ in + 1 <= PerMinute
          /\ (counter[key] + 1 <= in + 1 + blows \/ PerMinute <= in + 1 + blows)
      BY <1>0, <1>1, <2>1
    <3>. QED  BY <1>2, <3>1, <3>2, <3>3 DEF WindowFits
  <2>2. CASE ~ (used <= PerMinute)
    <3>1. admitted'[key].in = in
      BY <2>2, <1>4
    <3>2. /\ in <= counter[key] + 1 /\ PerMinute <= in + blows /\ counter[key] + 1 > PerMinute
      BY <1>0, <1>1, <2>2
    <3>. QED  BY <1>0, <1>1, <1>2, <3>1, <3>2 DEF WindowFits
  <2>. QED  BY <2>1, <2>2
<1>. QED  BY <1>2, <1>4, <1>5, <1>6 DEF WindowsFit

(* After the count, whatever it came to, the request goes on or is over.   *)
LEMMA AfterCount ==
  ASSUME RequestsInv, NEW l \in Lines, NEW at \in {"body", "end"}, GoTo(l, at), line[l].at = "count",
         UNCHANGED <<window, conns, quota>>
  PROVE  LinesFit' /\ ConnsFit' /\ line' \in [Lines -> LineRow]
<1>. RequestShape /\ RowSound(line[l]) /\ LineFits(l)
  BY Facts
<1>1. line[l].tenant = 0 /\ line[l].told = Nothing /\ ~ Working(l) /\ at \in Places
  BY DEF RowSound, Working, Places
<1>2. PICK y \in LineRow : /\ Becomes(l, y) /\ RowSound(y) /\ Timely(y) /\ (Busy(y) <=> Working(l))
                           /\ y.conn = line[l].conn /\ y.tenant = line[l].tenant
  BY <1>1, GoesOn
<1>3. LinesFit /\ ConnsFit /\ Settled /\ conns' = conns
  BY DEF RequestsInv, Settled
<1>. QED  BY <1>2, <1>3, Keeps, OneMoves

LEMMA CountKeeps == ASSUME RequestsInv, NEW l \in Lines, Count(l)  PROVE RequestsInv'
<1>1. line[l].at = "count" /\ UNCHANGED <<window, conns, quota, blows>>
  BY DEF Count, AtLine
<1>. DEFINE key == KeyOf(l)
            used == counter[key] + 1
<1>2. key \in CounterKeys /\ used \in Nat
  BY <1>1, KeyIs
<1>3. /\ counter' = [counter EXCEPT ![key] = used]
      /\ admitted' = IF used <= PerMinute THEN [admitted EXCEPT ![key].in = @ + 1]
                                          ELSE [admitted EXCEPT ![key].out = TRUE]
  BY DEF Count, Plan, WindowOf, Within, KeyOf
<1>4. PICK at \in {"body", "end"} : GoTo(l, at)
  BY DEF Count
<1>. HIDE DEF key
<1>5. /\ WindowsFit' /\ counter' \in [CounterKeys -> Nat] /\ admitted' \in [CounterKeys -> [in : Nat, out : BOOLEAN]]
  BY <1>1, <1>2, <1>3, Admitted
<1>6. LinesFit' /\ ConnsFit' /\ line' \in [Lines -> LineRow]
  BY <1>1, <1>4, AfterCount
<1>7. RequestShape'
  BY <1>1, <1>5, <1>6 DEF RequestsInv, RequestShape
<1>. QED  BY <1>5, <1>6, <1>7 DEF RequestsInv

LEMMA CountFailsKeeps == ASSUME RequestsInv, NEW l \in Lines, CountFails(l)  PROVE RequestsInv'
<1>1. /\ line[l].at = "count" /\ UNCHANGED <<window, admitted, conns, quota>>
      /\ blows < MaxBlows /\ blows' = blows + 1
  BY DEF CountFails, AtLine
<1>. DEFINE key == KeyOf(l)
            at == "body"
<1>2. key \in CounterKeys
  BY <1>1, KeyIs
<1>3. /\ counter' \in {counter, [counter EXCEPT ![key] = counter[key] + 1]} /\ GoTo(l, at)
  BY DEF CountFails, Plan, WindowOf, KeyOf
<1>. HIDE DEF key
<1>4. LinesFit' /\ ConnsFit' /\ line' \in [Lines -> LineRow]
  BY <1>1, <1>3, AfterCount
<1>5. /\ RequestShape /\ WindowsFit /\ PerMinute \in Nat /\ blows \in Nat /\ MaxBlows \in Nat
      /\ counter \in [CounterKeys -> Nat] /\ admitted \in [CounterKeys -> [in : Nat, out : BOOLEAN]]
  BY RequestNumbers DEF RequestsInv, RequestShape
<1>6. counter' \in [CounterKeys -> Nat] /\ \A k \in CounterKeys : counter'[k] = counter[k] \/ counter'[k] = counter[k] + 1
  BY <1>2, <1>3, <1>5
<1>7. blows' \in 0 .. MaxBlows
  BY <1>1, <1>5
<1>8. ASSUME NEW k \in CounterKeys  PROVE WindowFits(k)'
  <2>1. WindowFits(k) /\ counter[k] \in Nat /\ admitted[k].in \in Nat /\ admitted'[k] = admitted[k]
    BY <1>1, <1>5 DEF WindowsFit
  <2>2. counter'[k] \in Nat /\ (counter'[k] = counter[k] \/ counter'[k] = counter[k] + 1)
    BY <1>6
  <2>3. admitted[k].in <= counter'[k] /\ admitted[k].in <= PerMinute
    BY <1>5, <2>1, <2>2 DEF WindowFits
  <2>4. counter'[k] <= admitted[k].in + blows' \/ PerMinute <= admitted[k].in + blows'
    BY <1>1, <1>5, <2>1, <2>2 DEF WindowFits
  <2>5. admitted[k].out => counter'[k] > PerMinute
    <3>1. admitted[k].out => counter[k] > PerMinute
      BY <2>1 DEF WindowFits
    <3>2. counter[k] > PerMinute => counter'[k] > PerMinute
      BY <1>5, <2>1, <2>2
    <3>. QED  BY <3>1, <3>2
  <2>. QED  BY <2>1, <2>3, <2>4, <2>5 DEF WindowFits
<1>9. RequestShape'
  BY <1>1, <1>4, <1>5, <1>6, <1>7 DEF RequestShape
<1>. QED  BY <1>4, <1>8, <1>9 DEF RequestsInv, WindowsFit

LEMMA ChangeKeeps == ASSUME RequestsInv, NEW t \in Tenants, Change(t)  PROVE RequestsInv'
<1>1. RequestShape /\ LinesFit /\ ConnsFit /\ WindowsFit
  BY DEF RequestsInv
<1>2. /\ UNCHANGED <<window, counter, admitted, line, conns, blows>> /\ quota[t] < MaxChanges
      /\ quota' = [quota EXCEPT ![t] = quota[t] + 1]
  BY DEF Change
<1>3. MaxChanges \in Nat /\ \A s \in Tenants : quota[s] \in Nat /\ quota[s] \in 0 .. MaxChanges
  BY <1>1, RequestNumbers DEF RequestShape
<1>4. quota' \in [Tenants -> 0 .. MaxChanges]
  <2>1. quota[t] + 1 \in 0 .. MaxChanges
    BY <1>2, <1>3
  <2>. QED  BY <1>1, <1>2, <2>1 DEF RequestShape
<1>5. \A s \in Tenants : quota'[s] = quota[s] \/ quota'[s] = quota[s] + 1
  BY <1>1, <1>2 DEF RequestShape
<1>6. ASSUME NEW l \in Lines  PROVE (RowSound(line[l]) /\ LineFits(l))'
  <2>1. RowSound(line[l]) /\ LineFits(l) /\ line'[l] = line[l]
    BY <1>1, <1>2 DEF LinesFit
  <2>2. \A s \in Tenants : line[l].since[s] <= quota'[s]
    <3>1. \A s \in Tenants : line[l].since[s] <= quota[s] /\ line[l].since[s] \in Nat
      BY <1>1, <2>1, RowIs DEF LineFits
    <3>. QED  BY <3>1, <1>3, <1>5
  <2>3. RowSound(line'[l])
    BY <2>1
  <2>4. LineFits(l)'
    BY <1>2, <2>1, <2>2 DEF LineFits, Working
  <2>. QED  BY <2>3, <2>4
<1>7. LinesFit' /\ ConnsFit' /\ WindowsFit'
  BY <1>1, <1>2, <1>6 DEF LinesFit, ConnsFit, ConnFits, Working, WindowsFit, WindowFits
<1>8. RequestShape'
  BY <1>1, <1>2, <1>4 DEF RequestShape
<1>. QED  BY <1>7, <1>8 DEF RequestsInv

LEMMA NextWindowKeeps == ASSUME RequestsInv, NextWindow  PROVE RequestsInv'
<1>1. RequestShape /\ LinesFit /\ ConnsFit /\ WindowsFit
  BY DEF RequestsInv
<1>2. UNCHANGED <<counter, admitted, line, conns, quota, blows>> /\ window \in 1 .. (Windows - 1) /\ window' = window + 1
  BY DEF NextWindow
<1>3. window' \in 0 .. Windows /\ window' > 0
  BY <1>2, RequestsAssumption
<1>4. LinesFit' /\ ConnsFit' /\ WindowsFit'
  BY <1>1, <1>2, <1>3 DEF LinesFit, LineFits, RowSound, ForIts, ConnsFit, ConnFits, Working, WindowsFit, WindowFits
<1>5. RequestShape'
  BY <1>1, <1>2, <1>3 DEF RequestShape
<1>. QED  BY <1>4, <1>5 DEF RequestsInv

-----------------------------------------------------------------------------
(* The invariant, and what it says.                                        *)
LEMMA RequestsStart == RequestsInit => RequestsInv
<1>. SUFFICES ASSUME RequestsInit  PROVE RequestsInv
  OBVIOUS
<1>1. /\ window = 1 /\ blows = 0 /\ quota = [t \in Tenants |-> 0]
      /\ counter = [key \in CounterKeys |-> 0] /\ admitted = [key \in CounterKeys |-> [in |-> 0, out |-> FALSE]]
      /\ conns = [k \in Pool |-> [tenant |-> 0, user |-> Unused]]
  BY DEF RequestsInit, RequestsBegin, CounterKeys
<1>2. PICK v \in Rounds :
       line = [l \in Lines |-> [plan |-> v[l], at |-> "wait", tenant |-> 0, memo |-> Unknown, uow |-> 0,
                                conn |-> NoConn, since |-> quota, told |-> Nothing]]
  BY DEF RequestsInit, RequestsBegin
<1>3. /\ PerMinute \in Nat /\ MaxChanges \in Nat /\ MaxBlows \in Nat /\ Windows \in Nat \ {0}
      /\ \A l \in Lines : v[l] \in Seq(Visits)
  BY RequestsAssumption
<1>4. 0 \in 0 .. MaxBlows /\ 0 \in 0 .. MaxChanges /\ 1 \in 0 .. Windows
  BY <1>3
<1>5. Unknown \in [Tenants \union {0} -> Memos] /\ Nothing \in Memos /\ quota \in [Tenants -> Nat] /\ "wait" \in Places
  BY <1>1 DEF Unknown, Nothing, Memos, Places
<1>6. ASSUME NEW l \in Lines  PROVE line[l] \in LineRow /\ RowSound(line[l]) /\ LineFits(l)
  <2>1. /\ line[l].plan = v[l] /\ line[l].at = "wait" /\ line[l].tenant = 0 /\ line[l].memo = Unknown
        /\ line[l].uow = 0 /\ line[l].conn = NoConn /\ line[l].since = quota /\ line[l].told = Nothing
    BY <1>2
  <2>2. line[l] \in LineRow
    BY <1>2, <1>3, <1>5 DEF LineRow
  <2>3. RowSound(line[l])
    BY <2>1 DEF RowSound, Unknown
  <2>4. LineFits(l)
    BY <1>1, <2>1 DEF LineFits, Working
  <2>. QED  BY <2>2, <2>3, <2>4
<1>7. line \in [Lines -> LineRow]
  BY <1>2, <1>6
<1>8. conns \in [Pool -> Setting] /\ ConnsFit
  BY <1>1 DEF Setting, ConnsFit, ConnFits
<1>9. counter \in [CounterKeys -> Nat] /\ admitted \in [CounterKeys -> [in : Nat, out : BOOLEAN]]
  BY <1>1
<1>10. RequestShape
  BY <1>1, <1>4, <1>7, <1>8, <1>9 DEF RequestShape
<1>11. WindowsFit
  BY <1>1, <1>3 DEF WindowsFit, WindowFits
<1>. QED  BY <1>6, <1>8, <1>10, <1>11 DEF RequestsInv, LinesFit

LEMMA RequestsStep == RequestsInv /\ [RequestsNext]_requestsVars => RequestsInv'
<1>. SUFFICES ASSUME RequestsInv, [RequestsNext]_requestsVars  PROVE RequestsInv'
  OBVIOUS
<1>1. ASSUME NEW l \in Lines, Arrive(l)  PROVE RequestsInv'
  BY <1>1, ArriveKeeps
<1>2. ASSUME NEW l \in Lines, Count(l)  PROVE RequestsInv'
  BY <1>2, CountKeeps
<1>3. ASSUME NEW l \in Lines, CountFails(l)  PROVE RequestsInv'
  BY <1>3, CountFailsKeeps
<1>4. ASSUME NEW l \in Lines, Body(l)  PROVE RequestsInv'
  BY <1>4, BodyKeeps
<1>5. ASSUME NEW l \in Lines, Authenticate(l)  PROVE RequestsInv'
  BY <1>5, AuthenticateKeeps
<1>6. ASSUME NEW l \in Lines, End(l)  PROVE RequestsInv'
  BY <1>6, EndKeeps
<1>7. ASSUME NEW l \in Lines, Limits(l)  PROVE RequestsInv'
  BY <1>7, LimitsKeeps
<1>8. ASSUME NEW l \in Lines, OpenConn(l)  PROVE RequestsInv'
  BY <1>8, OpenKeeps
<1>9. ASSUME NEW l \in Lines, Nest(l)  PROVE RequestsInv'
  BY <1>9, NestKeeps
<1>10. ASSUME NEW l \in Lines, Query(l)  PROVE RequestsInv'
  BY <1>10, QueryKeeps
<1>11. ASSUME NEW l \in Lines, Close(l)  PROVE RequestsInv'
  BY <1>11, CloseKeeps
<1>12. ASSUME NEW l \in Lines, Aside(l)  PROVE RequestsInv'
  BY <1>12, AsideKeeps
<1>13. ASSUME NEW t \in Tenants, Change(t)  PROVE RequestsInv'
  BY <1>13, ChangeKeeps
<1>14. CASE NextWindow
  BY <1>14, NextWindowKeeps
<1>15. CASE UNCHANGED requestsVars
  BY <1>15 DEF requestsVars, RequestsInv, RequestShape, LinesFit, LineFits, RowSound, ForIts, ConnsFit, ConnFits,
               Working, WindowsFit, WindowFits
<1>. QED  BY <1>1, <1>2, <1>3, <1>4, <1>5, <1>6, <1>7, <1>8, <1>9, <1>10, <1>11, <1>12, <1>13, <1>14, <1>15
          DEF RequestsNext

LEMMA RequestsSay == RequestsInv => RequestsTypeOK /\ RequestsAreApart
<1>. SUFFICES ASSUME RequestsInv  PROVE RequestsTypeOK /\ RequestsAreApart
  OBVIOUS
<1>0. RequestShape /\ LinesFit /\ ConnsFit /\ WindowsFit
  BY DEF RequestsInv
<1>1. ASSUME NEW l \in Lines
      PROVE  /\ line[l].at \in Places
             /\ line[l].conn # NoConn => conns[line[l].conn].user = l /\ line[l].uow # 0
             /\ AtLine(l, "wait") => line[l].uow = 0 /\ line[l].conn = NoConn
             /\ line[l].at \in {"rows", "close"} =>
                  /\ conns[line[l].conn].tenant = line[l].tenant
                  /\ line[l].tenant = Plan(l).tenant \/ (Plan(l).how = "after" /\ line[l].tenant = Plan(l).other)
             /\ line[l].at \in {"count", "body", "auth"} => line[l].tenant = 0
             /\ AtLine(l, "open") /\ line[l].told # Nothing =>
                  line[l].told.of = line[l].tenant /\ line[l].told.change >= line[l].since[line[l].tenant]
  <2>1. RowSound(line[l]) /\ LineFits(l) /\ line[l].at \in Places
    BY <1>0, Facts, RowIs
  <2>. QED  BY <2>1 DEF RowSound, LineFits, ForIts, Working, Plan, AtLine
<1>2. \A k \in Pool : conns[k].user = Unused => conns[k].tenant = 0
  BY <1>0 DEF ConnsFit, ConnFits
<1>3. OneTenant
  BY <1>1, <1>2 DEF OneTenant
<1>4. ASSUME NEW a \in Addresses, NEW w \in 1 .. Windows
      PROVE  /\ admitted[<<a, w>>].in <= PerMinute
             /\ admitted[<<a, w>>].out => admitted[<<a, w>>].in + blows >= PerMinute
  <2>. DEFINE key == <<a, w>>
  <2>1. key \in CounterKeys
    BY DEF CounterKeys
  <2>. HIDE DEF key
  <2>2. WindowFits(key) /\ counter[key] \in Nat /\ admitted[key].in \in Nat /\ PerMinute \in Nat /\ blows \in Nat
    BY <1>0, <2>1, RequestNumbers DEF WindowsFit, RequestShape
  <2>3. admitted[key].in <= PerMinute
    BY <2>2 DEF WindowFits
  <2>4. admitted[key].out => counter[key] > PerMinute
    BY <2>2 DEF WindowFits
  <2>5. counter[key] > PerMinute => admitted[key].in + blows >= PerMinute
    BY <2>2 DEF WindowFits
  <2>6. admitted[key].out => admitted[key].in + blows >= PerMinute
    BY <2>4, <2>5
  <2>. QED  BY <2>3, <2>6 DEF key
<1>5. EveryMinuteIsNew
  BY <1>4 DEF EveryMinuteIsNew
<1>6. /\ window \in 0 .. Windows /\ blows \in 0 .. MaxBlows /\ \A t \in Tenants : quota[t] \in 0 .. MaxChanges
      /\ \A k \in Pool : conns[k].tenant \in Tenants \union {0} /\ conns[k].user \in Lines \union {Unused}
  BY <1>0 DEF RequestShape, Setting
<1>7. RequestsTypeOK
  BY <1>1, <1>6 DEF RequestsTypeOK, Places
<1>. QED  BY <1>3, <1>5, <1>7 DEF RequestsAreApart

(* The types of what surrounds a request: who has a connection is at work  *)
(* on it, and a context that waits has none.                               *)
THEOREM RequestTypes == RequestsSpec => []RequestsTypeOK
<1>1. RequestsInit => RequestsInv
  BY RequestsStart
<1>2. RequestsInv /\ [RequestsNext]_requestsVars => RequestsInv'
  BY RequestsStep
<1>3. RequestsInv => RequestsTypeOK
  BY RequestsSay
<1>. QED  BY <1>1, <1>2, <1>3, PTL DEF RequestsSpec

(* Every statement runs for one tenant, that of the token or the one the   *)
(* route turned to after its own transaction: in the filter, in the        *)
(* setting of the connection and in the limits.  A minute lets in as many  *)
(* as the limit says (unit_of_work, RequestContextMiddleware,              *)
(* RateLimitMiddleware), however many contexts, connections and tenants.   *)
THEOREM RequestsStayApart == RequestsSpec => []RequestsAreApart
<1>1. RequestsInit => RequestsInv
  BY RequestsStart
<1>2. RequestsInv /\ [RequestsNext]_requestsVars => RequestsInv'
  BY RequestsStep
<1>3. RequestsInv => RequestsAreApart
  BY RequestsSay
<1>. QED  BY <1>1, <1>2, <1>3, PTL DEF RequestsSpec
-----------------------------------------------------------------------------
(***************************************************************************)
(* Upkeep: the values of the variables.                                    *)
(***************************************************************************)
PartStates == {"none", "bare", "attached", "detached"}
Rolls == [at : {"idle", "read", "write"}, of : {"before", "today"}, today : 1 .. Days, seen : Nat, clean : BOOLEAN]
UpkeepShape ==
  /\ day \in 0 .. Days /\ made \in Nat /\ due \in BOOLEAN /\ outages \in Nat /\ settled \subseteq 1 .. Days
  /\ parts \in [Months -> PartStates]
  /\ job \in [at : {"idle", "make", "policy", "prune"}, existing : SUBSET Months, index : Nat]
  /\ logs \in [1 .. Days -> Nat] /\ figures \in [1 .. Days -> Nat]
  /\ roller \in [Rollers -> Rolls]

(* The months from now on that the last round has made, those that were    *)
(* taken away, and those that have rows.                                   *)
PlacesKept ==
  /\ \A m \in Months : Month <= m /\ m <= made + MonthsAhead => Listed(m)
  /\ \A m \in Months : parts[m] = "detached" => Retention > 0 /\ Expired(m)
  /\ \A d \in 1 .. Days : logs[d] > 0 => d <= day /\ parts[MonthOf(d)] # "none"

(* How far a round has come.                                               *)
RoundFits ==
  /\ job.at # "idle" \/ due => day > 0
  /\ job.at \in {"make", "policy"} =>
       /\ \A m \in job.existing : Listed(m)
       /\ \A m \in Months : Month <= m /\ m < Month + job.index => Listed(m)
       /\ job.index <= MonthsAhead + 1
  /\ job.at = "policy" => Listed(Month + job.index) /\ job.index <= MonthsAhead

(* What a roll-up has read, and what it can still write: the day before    *)
(* its own is over, so it writes the final figures or none.                *)
Rolling(r) == roller[r].at # "idle"
Undisturbed(r) == Rolling(r) /\ roller[r].clean /\ roller[r].today = day
Final(d) == d > 0 => figures[d] = logs[d]
RollerFits(r) ==
  /\ IF Rolling(r) THEN roller[r].today <= day /\ day <= roller[r].today + 1 ELSE roller[r].of = "before"
  /\ roller[r].at = "write" =>
       IF DayOf(r) = 0 THEN roller[r].seen = 0
       ELSE /\ roller[r].seen <= logs[DayOf(r)]
            /\ roller[r].of = "before" => roller[r].seen = logs[DayOf(r)] \/ (roller[r].seen = 0 /\ roller[r].today < day)
  /\ Undisturbed(r) =>
       /\ \A s \in Rollers : Rolling(s) => roller[s].today = day
       /\ roller[r].of = "today" => Final(roller[r].today - 1)
SettledFit ==
  \A t \in settled : /\ t <= day /\ Final(t - 1)
                     /\ \A r \in Rollers : Rolling(r) => roller[r].today >= t
SumsFit ==
  /\ \A d \in 1 .. Days : figures[d] <= logs[d]
  /\ \A r \in Rollers : RollerFits(r)
  /\ SettledFit
UpkeepInv == UpkeepShape /\ PlacesKept /\ RoundFits /\ SumsFit

-----------------------------------------------------------------------------
LEMMA UpkeepNumbers ==
  /\ Days \in Nat \ {0} /\ DaysPerMonth \in Nat \ {0} /\ Prebuilt \in Nat \ {0} /\ PerDay \in Nat /\ LastUse \in Nat
  /\ MonthsAhead \in Nat /\ Retention \in Nat /\ MaxOutages \in Nat /\ Prebuilt > MonthsAhead
<1>1. \A x \in {Days, DaysPerMonth, Prebuilt, PerDay, LastUse} : x \in Nat \ {0}
  BY UpkeepAssumption
<1>2. \A x \in {MonthsAhead, Retention, MaxOutages} : x \in Nat
  BY UpkeepAssumption
<1>. QED  BY <1>1, <1>2, UpkeepAssumption

(* A month begins at most when a day does.                                 *)
LEMMA MonthIsANumber == \A d \in Int : MonthOf(d) \in Int
  BY UpkeepNumbers DEF MonthOf
LEMMA MonthGrows == \A d, e \in Int : d <= e => MonthOf(d) <= MonthOf(e)
<1>1. \A x, y \in Int : x <= y => x \div DaysPerMonth <= y \div DaysPerMonth
  BY UpkeepNumbers
<1>. SUFFICES ASSUME NEW d \in Int, NEW e \in Int, d <= e  PROVE MonthOf(d) <= MonthOf(e)
  OBVIOUS
<1>2. (d - 1) \div DaysPerMonth <= (e - 1) \div DaysPerMonth
  BY <1>1
<1>3. (d - 1) \div DaysPerMonth \in Int /\ (e - 1) \div DaysPerMonth \in Int
  BY UpkeepNumbers
<1>. QED  BY <1>2, <1>3 DEF MonthOf
LEMMA MonthAfterMonth == \A d \in Int : MonthOf(d + 1) <= MonthOf(d) + 1
<1>1. \A x \in Int : (x + 1) \div DaysPerMonth <= (x \div DaysPerMonth) + 1
  BY UpkeepNumbers
<1>. SUFFICES ASSUME NEW d \in Int  PROVE MonthOf(d + 1) <= MonthOf(d) + 1
  OBVIOUS
<1>2. ((d - 1) + 1) \div DaysPerMonth <= ((d - 1) \div DaysPerMonth) + 1
  BY <1>1
<1>3. (d + 1) - 1 = (d - 1) + 1
  OBVIOUS
<1>. QED  BY <1>2, <1>3, UpkeepNumbers DEF MonthOf
LEMMA FirstMonth == MonthOf(1) = 1 /\ MonthOf(0) <= 1
<1>1. 0 \div DaysPerMonth = 0
  BY UpkeepNumbers
<1>2. MonthOf(1) = 1
  BY <1>1 DEF MonthOf
<1>. QED  BY <1>2, MonthGrows
LEMMA MonthsOfDays == \A d \in 1 .. Days : MonthOf(d) \in Months
<1>. SUFFICES ASSUME NEW d \in 1 .. Days  PROVE MonthOf(d) \in Months
  OBVIOUS
<1>1. MonthOf(1) <= MonthOf(d) /\ MonthOf(d) <= MonthOf(Days)
  BY MonthGrows, UpkeepNumbers
<1>2. MonthOf(d) \in Int /\ MonthOf(Days) \in Int
  BY MonthIsANumber, UpkeepNumbers
<1>. QED  BY <1>1, <1>2, FirstMonth, UpkeepNumbers DEF Months
LEMMA MonthsAreNumbers == Months \subseteq Nat /\ \A m \in Months : m >= 1
  BY MonthIsANumber, UpkeepNumbers DEF Months

(* What the invariant says of the month that is, and of a row of the       *)
(* roll-up.                                                                *)
LEMMA MonthOfNow ==
  ASSUME UpkeepShape
  PROVE  /\ day \in Int /\ Month \in Int /\ Month <= MonthOf(Days) /\ MonthOf(Days) \in Int
         /\ day > 0 => Month \in Months
<1>1. day \in Int /\ day <= Days /\ Days \in Int
  BY UpkeepNumbers DEF UpkeepShape
<1>. QED  BY <1>1, MonthIsANumber, MonthGrows, MonthsOfDays DEF UpkeepShape, Month

LEMMA RollIs ==
  ASSUME UpkeepShape, NEW r \in Rollers
  PROVE  /\ roller[r] \in Rolls /\ roller[r].at \in {"idle", "read", "write"} /\ roller[r].of \in {"before", "today"}
         /\ roller[r].today \in 1 .. Days /\ roller[r].seen \in Nat /\ roller[r].clean \in BOOLEAN
         /\ DayOf(r) \in 0 .. Days
  BY UpkeepNumbers DEF UpkeepShape, Rolls, DayOf

LEMMA UpkeepStart ==
  ASSUME NEW first \in {0, 1}, UpkeepBegin(first)
  PROVE  UpkeepInv
<1>1. day = first /\ made = 1 /\ due = FALSE /\ outages = 0 /\ settled = {} /\ job = [at |-> "idle", existing |-> {}, index |-> 0]
  BY DEF UpkeepBegin
<1>2. parts = [m \in Months |-> IF m <= Prebuilt THEN "attached" ELSE "none"]
  BY DEF UpkeepBegin
<1>3. logs = [d \in 1 .. Days |-> 0] /\ figures = [d \in 1 .. Days |-> 0]
  BY DEF UpkeepBegin
<1>4. roller = [r \in Rollers |-> [at |-> "idle", of |-> "before", today |-> 1, seen |-> 0, clean |-> FALSE]]
  BY DEF UpkeepBegin
<1>5. UpkeepShape
  <2>1. parts \in [Months -> PartStates]
    BY <1>2 DEF PartStates
  <2>2. [at |-> "idle", of |-> "before", today |-> 1, seen |-> 0, clean |-> FALSE] \in Rolls
    BY UpkeepNumbers DEF Rolls
  <2>3. roller \in [Rollers -> Rolls]
    BY <1>4, <2>2
  <2>4. job \in [at : {"idle", "make", "policy", "prune"}, existing : SUBSET Months, index : Nat]
    BY <1>1
  <2>5. day \in 0 .. Days
    BY <1>1, UpkeepNumbers
  <2>6. logs \in [1 .. Days -> Nat] /\ figures \in [1 .. Days -> Nat]
    BY <1>3
  <2>. QED  BY <1>1, <2>1, <2>3, <2>4, <2>5, <2>6 DEF UpkeepShape
<1>6. PlacesKept
  BY <1>1, <1>2, <1>3, UpkeepNumbers, MonthsAreNumbers DEF PlacesKept, Listed
<1>7. RoundFits
  BY <1>1 DEF RoundFits
<1>8. SumsFit
  BY <1>1, <1>3, <1>4 DEF SumsFit, SettledFit, RollerFits, Rolling, Undisturbed
<1>. QED  BY <1>5, <1>6, <1>7, <1>8 DEF UpkeepInv

(* Who does not touch the figures, who does not touch the partitions.      *)
LEMMA SumsUntouched ==
  ASSUME SumsFit, UNCHANGED <<day, logs, figures, roller, settled>>  PROVE SumsFit'
  BY DEF SumsFit, SettledFit, RollerFits, Rolling, Undisturbed, Final, DayOf
LEMMA PlacesUntouched ==
  ASSUME PlacesKept, RoundFits, UNCHANGED <<day, parts, job, due, made, logs>>  PROVE PlacesKept' /\ RoundFits'
  BY DEF PlacesKept, RoundFits, Month, Listed, Expired

LEMMA NewDayKeeps ==
  ASSUME UpkeepInv, NewDay  PROVE UpkeepInv'
<1>1. UpkeepShape /\ PlacesKept /\ RoundFits /\ SumsFit
  BY DEF UpkeepInv
<1>2. /\ day \in 1 .. (Days - 1) /\ day' = day + 1 /\ job.at = "idle"
      /\ \A r \in Rollers : roller[r].at # "idle" => roller[r].today = day
      /\ due' = (due \/ MonthOf(day + 1) # Month)
      /\ UNCHANGED <<parts, job, made, logs, figures, roller, settled>>
  BY DEF NewDay
<1>3. outages' \in Nat
  BY <1>1, UpkeepNumbers DEF NewDay, Outage, UpkeepShape
<1>4. UpkeepShape'
  BY <1>1, <1>2, <1>3, UpkeepNumbers DEF UpkeepShape
<1>5. day \in Int /\ Month \in Int /\ Month' \in Int /\ Month <= Month'
  BY <1>2, MonthIsANumber, MonthGrows DEF Month
<1>6. PlacesKept'
  <2>1. \A m \in Months : m \in Nat
    BY MonthsAreNumbers
  <2>2. ASSUME NEW m \in Months, Month' <= m, m <= made + MonthsAhead  PROVE Listed(m)'
    BY <1>1, <1>2, <1>5, <2>1, <2>2 DEF PlacesKept, Listed
  <2>3. ASSUME NEW m \in Months, parts[m] = "detached"  PROVE Retention > 0 /\ Expired(m)'
    BY <1>1, <1>2, <1>5, <2>1, <2>3, UpkeepNumbers DEF PlacesKept, Expired
  <2>4. ASSUME NEW d \in 1 .. Days, logs[d] > 0  PROVE d <= day' /\ parts[MonthOf(d)] # "none"
    BY <1>1, <1>2, <2>4 DEF PlacesKept
  <2>. QED  BY <1>2, <2>2, <2>3, <2>4 DEF PlacesKept
<1>7. RoundFits'
  BY <1>2 DEF RoundFits
<1>8. SumsFit'
  <2>1. ASSUME NEW r \in Rollers  PROVE RollerFits(r)'
    <3>1. RollerFits(r) /\ roller[r].today \in Int /\ DayOf(r) = DayOf(r)' /\ (Rolling(r) => roller[r].today = day)
      BY <1>1, <1>2, RollIs DEF SumsFit, DayOf, Rolling
    <3>2. ~Undisturbed(r)'
      BY <1>2, <3>1 DEF Undisturbed, Rolling
    <3>. QED  BY <1>2, <3>1, <3>2 DEF RollerFits, Rolling
  <2>2. SettledFit'
    BY <1>1, <1>2, UpkeepNumbers DEF SumsFit, SettledFit, Rolling, Final, UpkeepShape
  <2>. QED  BY <1>1, <1>2, <2>1, <2>2 DEF SumsFit
<1>. QED  BY <1>4, <1>6, <1>7, <1>8 DEF UpkeepInv

LEMMA RecordKeeps ==
  ASSUME UpkeepInv, Record  PROVE UpkeepInv'
<1>1. UpkeepShape /\ PlacesKept /\ RoundFits /\ SumsFit
  BY DEF UpkeepInv
<1>2. /\ day \in 1 .. LastUse /\ Listed(Month) /\ logs' = [logs EXCEPT ![day] = @ + 1]
      /\ UNCHANGED <<day, parts, job, due, made, figures, roller, settled, outages>>
  BY DEF Record
<1>3. day \in 1 .. Days
  BY <1>1, <1>2 DEF UpkeepShape
<1>4. /\ logs' \in [1 .. Days -> Nat] /\ logs'[day] = logs[day] + 1
      /\ \A d \in 1 .. Days : d # day => logs'[d] = logs[d]
      /\ \A d \in 1 .. Days : logs[d] \in Nat /\ figures[d] \in Nat /\ logs[d] <= logs'[d]
  BY <1>1, <1>2, <1>3 DEF UpkeepShape
<1>5. UpkeepShape'
  BY <1>1, <1>2, <1>4 DEF UpkeepShape
<1>6. PlacesKept'
  <2>1. parts[MonthOf(day)] # "none"
    BY <1>2 DEF Listed, Month
  <2>2. ASSUME NEW d \in 1 .. Days, logs'[d] > 0  PROVE d <= day /\ parts[MonthOf(d)] # "none"
    BY <1>1, <1>3, <1>4, <2>1, <2>2 DEF PlacesKept
  <2>. QED  BY <1>1, <1>2, <2>2 DEF PlacesKept, Month, Listed, Expired
<1>7. RoundFits'
  BY <1>1, <1>2 DEF RoundFits, Month, Listed
<1>8. \A d \in 0 .. Days : d # day /\ Final(d) => Final(d)'
  BY <1>2, <1>4 DEF Final
<1>9. \A d \in 1 .. Days : figures'[d] <= logs'[d]
  BY <1>1, <1>2, <1>4 DEF SumsFit
<1>10. ASSUME NEW r \in Rollers  PROVE RollerFits(r)'
  <2>1. RollerFits(r) /\ UNCHANGED <<roller[r], day, DayOf(r)>> /\ (Rolling(r)' <=> Rolling(r))
    BY <1>1, <1>2 DEF SumsFit, DayOf, Rolling
  <2>2. /\ roller[r].at \in {"idle", "read", "write"} /\ roller[r].of \in {"before", "today"}
        /\ roller[r].today \in 1 .. Days /\ roller[r].seen \in Nat /\ DayOf(r) \in 0 .. Days
    BY <1>1, RollIs
  <2>3. roller[r].at = "write" => roller[r].today <= day
    BY <2>1 DEF RollerFits, Rolling
  <2>4. roller[r].at = "write" /\ roller[r].of = "before" => DayOf(r) # day
    BY <2>2, <2>3, <1>3 DEF DayOf
  <2>5. ASSUME Undisturbed(r)'
        PROVE  /\ \A s \in Rollers : Rolling(s)' => roller'[s].today = day'
               /\ roller'[r].of = "today" => Final(roller[r].today - 1)'
    <3>1. Undisturbed(r) /\ roller[r].today = day
      BY <1>2, <2>5 DEF Undisturbed, Rolling
    <3>2. roller[r].today - 1 \in 0 .. Days /\ roller[r].today - 1 # day
      BY <2>2, <3>1, UpkeepNumbers
    <3>3. roller[r].of = "today" => Final(roller[r].today - 1)
      BY <2>1, <3>1 DEF RollerFits
    <3>4. \A s \in Rollers : Rolling(s) => roller[s].today = day
      BY <2>1, <3>1 DEF RollerFits
    <3>. QED  BY <1>2, <1>8, <3>2, <3>3, <3>4 DEF Rolling
  <2>6. roller[r].at = "write" =>
          IF DayOf(r) = 0 THEN roller[r].seen = 0
          ELSE /\ roller[r].seen <= logs'[DayOf(r)]
               /\ roller[r].of = "before" =>
                    roller[r].seen = logs'[DayOf(r)] \/ (roller[r].seen = 0 /\ roller[r].today < day)
    BY <1>4, <2>1, <2>2, <2>4 DEF RollerFits
  <2>. QED  BY <1>2, <2>1, <2>5, <2>6 DEF RollerFits
<1>11. SettledFit'
  <2>1. ASSUME NEW t \in settled
        PROVE  /\ t <= day /\ Final(t - 1)' /\ \A r \in Rollers : Rolling(r)' => roller[r].today >= t
    <3>1. t <= day /\ Final(t - 1) /\ (\A r \in Rollers : Rolling(r) => roller[r].today >= t) /\ t \in 1 .. Days
      BY <1>1 DEF SumsFit, SettledFit, UpkeepShape
    <3>2. t - 1 \in 0 .. Days /\ t - 1 # day
      BY <1>3, <3>1, UpkeepNumbers
    <3>. QED  BY <1>2, <1>8, <3>1, <3>2 DEF Rolling
  <2>. QED  BY <1>2, <2>1 DEF SettledFit
<1>. QED  BY <1>5, <1>6, <1>7, <1>9, <1>10, <1>11 DEF UpkeepInv, SumsFit

(* A step of the monthly round.                                            *)
LEMMA StartRoundKeeps ==
  ASSUME UpkeepInv, StartRound  PROVE UpkeepInv'
<1>1. UpkeepShape /\ PlacesKept /\ RoundFits /\ SumsFit
  BY DEF UpkeepInv
<1>2. /\ due /\ due' = FALSE /\ job.at = "idle"
      /\ job' = [at |-> "make", existing |-> {m \in Months : Listed(m)}, index |-> 0]
      /\ UNCHANGED <<day, parts, made, logs, figures, roller, settled, outages>>
  BY DEF StartRound
<1>3. UpkeepShape'
  BY <1>1, <1>2 DEF UpkeepShape
<1>4. Month' = Month /\ Month \in Int
  BY <1>1, <1>2, MonthOfNow DEF Month
<1>5. PlacesKept'
  BY <1>1, <1>2, <1>4 DEF PlacesKept, Listed, Expired
<1>6. RoundFits'
  <2>1. ~ \E m \in Months : Month <= m /\ m < Month + 0
    BY <1>4, MonthsAreNumbers
  <2>2. day > 0
    BY <1>1, <1>2 DEF RoundFits
  <2>. QED  BY <1>2, <1>4, <2>1, <2>2, UpkeepNumbers DEF RoundFits, Listed
<1>7. SumsFit'
  BY <1>1, <1>2, SumsUntouched
<1>. QED  BY <1>3, <1>5, <1>6, <1>7 DEF UpkeepInv

LEMMA MakeKeeps ==
  ASSUME UpkeepInv, Make  PROVE UpkeepInv'
<1>1. UpkeepShape /\ PlacesKept /\ RoundFits /\ SumsFit
  BY DEF UpkeepInv
<1>2. job.at = "make" /\ UNCHANGED <<day, due, logs, figures, roller, settled, outages>>
  BY DEF Make
<1>. DEFINE m == Month + job.index
<1>3. \/ /\ job.index > Ahead /\ job' = [job EXCEPT !.at = "prune"] /\ made' = Month /\ UNCHANGED parts
      \/ /\ ~(job.index > Ahead) /\ m \in job.existing
         /\ job' = [job EXCEPT !.index = @ + 1] /\ UNCHANGED <<parts, made>>
      \/ /\ ~(job.index > Ahead) /\ parts' = [parts EXCEPT ![m] = "bare"] /\ job' = [job EXCEPT !.at = "policy"]
         /\ UNCHANGED made
  BY DEF Make
<1>4. /\ Month' = Month /\ Month \in Months /\ Month \in Int /\ Month >= 1 /\ Month <= MonthOf(Days) /\ MonthOf(Days) \in Int
      /\ job.index \in Nat /\ Ahead = MonthsAhead /\ \A k \in Months : k \in Int
  BY <1>1, <1>2, MonthOfNow, MonthsAreNumbers DEF Month, RoundFits, UpkeepShape, Ahead
<1>5. /\ \A k \in job.existing : Listed(k)
      /\ \A k \in Months : Month <= k /\ k < Month + job.index => Listed(k)
      /\ day > 0
  BY <1>1, <1>2 DEF RoundFits
<1>6. ~(job.index > Ahead) => m \in Months
  BY <1>4, UpkeepNumbers DEF Months
<1>7. UpkeepShape'
  <2>1. parts' \in [Months -> PartStates] /\ made' \in Nat
    BY <1>1, <1>3, <1>4 DEF UpkeepShape, PartStates
  <2>2. job' \in [at : {"idle", "make", "policy", "prune"}, existing : SUBSET Months, index : Nat]
    BY <1>1, <1>3, <1>4 DEF UpkeepShape
  <2>. QED  BY <1>1, <1>2, <2>1, <2>2 DEF UpkeepShape
<1>8. SumsFit'
  BY <1>1, <1>2, SumsUntouched
<1>9. CASE job.index > Ahead
  <2>1. job' = [job EXCEPT !.at = "prune"] /\ made' = Month /\ UNCHANGED parts
    BY <1>3, <1>9
  <2>2. \A k \in Months : Month <= k /\ k <= Month + MonthsAhead => Listed(k)
    BY <1>4, <1>5, <1>9, UpkeepNumbers
  <2>3. PlacesKept'
    BY <1>1, <1>2, <1>4, <2>1, <2>2 DEF PlacesKept, Listed, Expired
  <2>4. job'.at = "prune"
    BY <1>1, <2>1 DEF UpkeepShape
  <2>5. RoundFits'
    BY <1>2, <1>5, <2>4 DEF RoundFits
  <2>. QED  BY <1>7, <1>8, <2>3, <2>5 DEF UpkeepInv
<1>10. CASE ~(job.index > Ahead) /\ m \in job.existing /\ job' = [job EXCEPT !.index = @ + 1] /\ UNCHANGED <<parts, made>>
  <2>1. PlacesKept'
    BY <1>1, <1>2, <1>4, <1>10 DEF PlacesKept, Listed, Expired
  <2>2. job'.at = "make" /\ job'.existing = job.existing /\ job'.index = job.index + 1
    BY <1>1, <1>2, <1>10 DEF UpkeepShape
  <2>3. ASSUME NEW k \in Months, Month <= k, k < Month + (job.index + 1)  PROVE Listed(k)
    <3>1. k < Month + job.index \/ k = m
      BY <1>4, <2>3
    <3>. QED  BY <1>5, <1>10, <2>3, <3>1
  <2>4. RoundFits'
    BY <1>2, <1>4, <1>5, <1>10, <2>2, <2>3, UpkeepNumbers DEF RoundFits, Listed
  <2>. QED  BY <1>7, <1>8, <2>1, <2>4 DEF UpkeepInv
<1>11. CASE /\ ~(job.index > Ahead) /\ parts' = [parts EXCEPT ![m] = "bare"] /\ job' = [job EXCEPT !.at = "policy"]
            /\ UNCHANGED made
  <2>1. /\ parts'[m] = "bare" /\ \A k \in Months : k # m => parts'[k] = parts[k]
    BY <1>1, <1>6, <1>11 DEF UpkeepShape
  <2>2. \A k \in Months : Listed(k) => Listed(k)'
    BY <2>1 DEF Listed
  <2>4. job'.at = "policy" /\ job'.existing = job.existing /\ job'.index = job.index
    BY <1>1, <1>2, <1>11 DEF UpkeepShape
  <2>3. Listed(Month + job.index)'
    BY <1>4, <2>1, <2>4 DEF Listed
  <2>5. PlacesKept'
    <3>1. ASSUME NEW k \in Months, Month <= k, k <= made + MonthsAhead  PROVE Listed(k)'
      BY <1>1, <2>2, <3>1 DEF PlacesKept
    <3>2. ASSUME NEW k \in Months, parts'[k] = "detached"  PROVE Retention > 0 /\ Expired(k)
      BY <1>1, <2>1, <3>2 DEF PlacesKept
    <3>3. ASSUME NEW d \in 1 .. Days, logs[d] > 0  PROVE d <= day /\ parts'[MonthOf(d)] # "none"
      BY <1>1, <2>1, <3>3, MonthsOfDays DEF PlacesKept
    <3>. QED  BY <1>2, <1>4, <1>11, <3>1, <3>2, <3>3 DEF PlacesKept, Expired
  <2>6. RoundFits'
    <3>1. \A k \in job'.existing : Listed(k)'
      BY <1>1, <1>5, <2>2, <2>4 DEF UpkeepShape
    <3>2. \A k \in Months : Month' <= k /\ k < Month' + job'.index => Listed(k)'
      BY <1>4, <1>5, <2>2, <2>4
    <3>3. Listed(Month + job.index)' /\ job'.index <= MonthsAhead
      BY <1>4, <1>11, <2>3, <2>4, UpkeepNumbers
    <3>. QED  BY <1>2, <1>4, <1>5, <2>4, <3>1, <3>2, <3>3, UpkeepNumbers DEF RoundFits
  <2>. QED  BY <1>7, <1>8, <2>5, <2>6 DEF UpkeepInv
<1>. QED  BY <1>3, <1>9, <1>10, <1>11

LEMMA PolicyKeeps ==
  ASSUME UpkeepInv, Policy  PROVE UpkeepInv'
<1>1. UpkeepShape /\ PlacesKept /\ RoundFits /\ SumsFit
  BY DEF UpkeepInv
<1>. DEFINE m == Month + job.index
<1>2. /\ job.at = "policy" /\ parts' = [parts EXCEPT ![m] = "attached"]
      /\ job' = [job EXCEPT !.at = "make", !.index = @ + 1]
      /\ UNCHANGED <<day, due, made, logs, figures, roller, settled, outages>>
  BY DEF Policy
<1>3. /\ Month' = Month /\ Month \in Months /\ Month \in Int /\ Month >= 1 /\ Month <= MonthOf(Days) /\ MonthOf(Days) \in Int
      /\ job.index \in Nat /\ job.index <= MonthsAhead /\ \A k \in Months : k \in Int
  BY <1>1, <1>2, MonthOfNow, MonthsAreNumbers DEF Month, RoundFits, UpkeepShape
<1>4. m \in Months
  BY <1>3, UpkeepNumbers DEF Months
<1>5. parts'[m] = "attached" /\ \A k \in Months : k # m => parts'[k] = parts[k]
  BY <1>1, <1>2, <1>4 DEF UpkeepShape
<1>6. (\A k \in Months : Listed(k) => Listed(k)') /\ parts'[m] \in {"bare", "attached"}
  BY <1>5 DEF Listed
<1>7. job'.at = "make" /\ job'.existing = job.existing /\ job'.index = job.index + 1
  BY <1>1, <1>2 DEF UpkeepShape
<1>8. UpkeepShape'
  <2>1. parts' \in [Months -> PartStates]
    BY <1>1, <1>2 DEF UpkeepShape, PartStates
  <2>2. job' \in [at : {"idle", "make", "policy", "prune"}, existing : SUBSET Months, index : Nat]
    <3>1. job.index + 1 \in Nat /\ job \in [at : {"idle", "make", "policy", "prune"}, existing : SUBSET Months, index : Nat]
      BY <1>1, <1>3 DEF UpkeepShape
    <3>. QED  BY <1>2, <3>1
  <2>. QED  BY <1>1, <1>2, <2>1, <2>2 DEF UpkeepShape
<1>9. PlacesKept'
  <2>1. ASSUME NEW k \in Months, Month <= k, k <= made + MonthsAhead  PROVE Listed(k)'
    BY <1>1, <1>6, <2>1 DEF PlacesKept
  <2>2. ASSUME NEW k \in Months, parts'[k] = "detached"  PROVE Retention > 0 /\ Expired(k)
    BY <1>1, <1>5, <2>2 DEF PlacesKept
  <2>3. ASSUME NEW d \in 1 .. Days, logs[d] > 0  PROVE d <= day /\ parts'[MonthOf(d)] # "none"
    BY <1>1, <1>5, <2>3, MonthsOfDays DEF PlacesKept
  <2>. QED  BY <1>2, <1>3, <2>1, <2>2, <2>3 DEF PlacesKept, Expired
<1>10. RoundFits'
  <2>1. \A k \in job'.existing : Listed(k)'
    BY <1>1, <1>2, <1>6, <1>7 DEF UpkeepShape, RoundFits
  <2>2. ASSUME NEW k \in Months, Month <= k, k < Month + (job.index + 1)  PROVE Listed(k)'
    <3>1. k < Month + job.index \/ k = m
      BY <1>3, <2>2
    <3>. QED  BY <1>1, <1>2, <1>6, <2>2, <3>1 DEF RoundFits, Listed
  <2>3. day > 0
    BY <1>1, <1>2 DEF RoundFits
  <2>. QED  BY <1>2, <1>3, <1>7, <2>1, <2>2, <2>3, UpkeepNumbers DEF RoundFits
<1>11. SumsFit'
  BY <1>1, <1>2, SumsUntouched
<1>. QED  BY <1>8, <1>9, <1>10, <1>11 DEF UpkeepInv

LEMMA RoundDiesKeeps ==
  ASSUME UpkeepInv, RoundDies  PROVE UpkeepInv'
<1>1. UpkeepShape /\ PlacesKept /\ RoundFits /\ SumsFit
  BY DEF UpkeepInv
<1>2. /\ job.at # "idle" /\ outages' = outages + 1 /\ job' = [job EXCEPT !.at = "idle", !.index = 0]
      /\ UNCHANGED <<day, parts, due, made, logs, figures, roller, settled>>
  BY DEF RoundDies, Outage
<1>3. job' \in [at : {"idle", "make", "policy", "prune"}, existing : SUBSET Months, index : Nat] /\ job'.at = "idle"
  BY <1>1, <1>2 DEF UpkeepShape
<1>4. UpkeepShape'
  BY <1>1, <1>2, <1>3 DEF UpkeepShape
<1>5. PlacesKept'
  BY <1>1, <1>2 DEF PlacesKept, Month, Listed, Expired
<1>6. RoundFits'
  BY <1>1, <1>2, <1>3 DEF RoundFits
<1>7. SumsFit'
  BY <1>1, <1>2, SumsUntouched
<1>. QED  BY <1>4, <1>5, <1>6, <1>7 DEF UpkeepInv

(* What a round takes away is expired, and none of the months to come is.  *)
LEMMA DropExpiredKeeps ==
  ASSUME UpkeepInv, DropExpired  PROVE UpkeepInv'
<1>1. UpkeepShape /\ PlacesKept /\ RoundFits /\ SumsFit
  BY DEF UpkeepInv
<1>. DEFINE gone == {m \in Months : Retention > 0 /\ Listed(m) /\ Expired(m)}
<1>2. /\ job.at = "prune" /\ job' = [job EXCEPT !.at = "idle", !.index = 0]
      /\ UNCHANGED <<day, due, made, logs, figures, roller, settled>>
  BY DEF DropExpired
<1>3. \E some \in SUBSET gone : parts' = [m \in Months |-> IF m \in some THEN "detached" ELSE parts[m]]
  <2>1. CASE parts' = [m \in Months |-> IF m \in gone THEN "detached" ELSE parts[m]]
    BY <2>1
  <2>2. CASE SomeStay(gone)
    <3>1. PICK stays \in SUBSET gone \ {{}} : parts' = [m \in Months |-> IF m \in gone \ stays THEN "detached" ELSE parts[m]]
      BY <2>2 DEF SomeStay
    <3>. QED  BY <3>1
  <2>. QED  BY <2>1, <2>2 DEF DropExpired
<1>4. PICK some \in SUBSET gone : parts' = [m \in Months |-> IF m \in some THEN "detached" ELSE parts[m]]
  BY <1>3
<1>5. outages' \in Nat
  BY <1>1 DEF DropExpired, SomeStay, Outage, UpkeepShape
<1>6. job' \in [at : {"idle", "make", "policy", "prune"}, existing : SUBSET Months, index : Nat] /\ job'.at = "idle"
  BY <1>1, <1>2 DEF UpkeepShape
<1>7. UpkeepShape'
  <2>1. parts' \in [Months -> PartStates]
    BY <1>1, <1>4 DEF UpkeepShape, PartStates
  <2>. QED  BY <1>1, <1>2, <1>5, <1>6, <2>1 DEF UpkeepShape
<1>8. Month' = Month /\ Month \in Int /\ \A m \in Months : m \in Int
  BY <1>1, <1>2, MonthOfNow, MonthsAreNumbers DEF Month
<1>9. \A m \in some : Retention > 0 /\ Expired(m) /\ ~(Month <= m)
  BY <1>8, UpkeepNumbers DEF Expired
<1>10. PlacesKept'
  <2>1. ASSUME NEW m \in Months, Month <= m, m <= made + MonthsAhead  PROVE Listed(m)'
    BY <1>1, <1>4, <1>9, <2>1 DEF PlacesKept, Listed
  <2>2. ASSUME NEW m \in Months, parts'[m] = "detached"  PROVE Retention > 0 /\ Expired(m)
    BY <1>1, <1>4, <1>9, <2>2 DEF PlacesKept
  <2>3. ASSUME NEW d \in 1 .. Days, logs[d] > 0  PROVE d <= day /\ parts'[MonthOf(d)] # "none"
    BY <1>1, <1>4, <2>3, MonthsOfDays DEF PlacesKept
  <2>. QED  BY <1>2, <1>8, <2>1, <2>2, <2>3 DEF PlacesKept, Expired
<1>11. RoundFits'
  BY <1>1, <1>2, <1>6 DEF RoundFits
<1>12. SumsFit'
  BY <1>1, <1>2, SumsUntouched
<1>. QED  BY <1>7, <1>10, <1>11, <1>12 DEF UpkeepInv

(* A step of a roll-up.                                                    *)
LEMMA StartRollupKeeps ==
  ASSUME UpkeepInv, NEW r \in Rollers, StartRollup(r)  PROVE UpkeepInv'
<1>1. UpkeepShape /\ PlacesKept /\ RoundFits /\ SumsFit
  BY DEF UpkeepInv
<1>. DEFINE clean == \A s \in Rollers : roller[s].at # "idle" => roller[s].today = day
            begun == [at |-> "read", of |-> "before", today |-> day, seen |-> 0, clean |-> clean]
<1>2. /\ roller[r].at = "idle" /\ day \in 1 .. (LastUse + 1) /\ roller' = [roller EXCEPT ![r] = begun]
      /\ UNCHANGED <<day, parts, job, due, made, logs, figures, settled, outages>>
  BY DEF StartRollup
<1>3. day \in 1 .. Days /\ clean \in BOOLEAN
  BY <1>1, <1>2 DEF UpkeepShape
<1>4. begun \in Rolls /\ begun.at = "read" /\ begun.of = "before" /\ begun.today = day /\ begun.clean = clean
  BY <1>3 DEF Rolls
<1>5. roller'[r] = begun /\ \A s \in Rollers : s # r => roller'[s] = roller[s]
  BY <1>1, <1>2 DEF UpkeepShape
<1>6. UpkeepShape'
  <2>1. roller' \in [Rollers -> Rolls]
    BY <1>1, <1>2, <1>4 DEF UpkeepShape
  <2>. QED  BY <1>1, <1>2, <2>1 DEF UpkeepShape
<1>7. PlacesKept' /\ RoundFits'
  BY <1>1, <1>2, PlacesUntouched
<1>8. RollerFits(r)'
  <2>1. clean => \A s \in Rollers : Rolling(s)' => roller'[s].today = day
    BY <1>4, <1>5 DEF Rolling
  <2>. HIDE DEF clean, begun
  <2>. QED  BY <1>2, <1>3, <1>4, <1>5, <2>1 DEF RollerFits, Rolling, Undisturbed
<1>. HIDE DEF clean, begun
<1>9. ASSUME NEW s \in Rollers, s # r  PROVE RollerFits(s)'
  <2>1. RollerFits(s) /\ roller'[s] = roller[s] /\ DayOf(s)' = DayOf(s)
    BY <1>1, <1>5, <1>9 DEF SumsFit, DayOf
  <2>2. (Rolling(s)' <=> Rolling(s)) /\ (Undisturbed(s)' <=> Undisturbed(s))
    BY <1>2, <2>1 DEF Rolling, Undisturbed
  <2>3. Undisturbed(s) => \A u \in Rollers : Rolling(u)' => roller'[u].today = day
    <3>1. Undisturbed(s) => \A u \in Rollers : Rolling(u) => roller[u].today = day
      BY <2>1 DEF RollerFits
    <3>. QED  BY <1>4, <1>5, <3>1 DEF Rolling
  <2>. QED  BY <1>2, <2>1, <2>2, <2>3 DEF RollerFits, Final
<1>10. SettledFit'
  <2>1. ASSUME NEW t \in settled, NEW u \in Rollers, Rolling(u)'  PROVE roller'[u].today >= t
    <3>1. t <= day /\ (Rolling(u) => roller[u].today >= t) /\ t \in Nat
      BY <1>1 DEF SumsFit, SettledFit, UpkeepShape
    <3>. QED  BY <1>3, <1>4, <1>5, <2>1, <3>1 DEF Rolling
  <2>. QED  BY <1>1, <1>2, <2>1 DEF SumsFit, SettledFit, Final
<1>. QED  BY <1>1, <1>2, <1>6, <1>7, <1>8, <1>9, <1>10 DEF UpkeepInv, SumsFit

(* What is read of yesterday while it is yesterday is all there is: its    *)
(* partition is still there.                                               *)
LEMMA YesterdayIsRead ==
  ASSUME UpkeepShape, PlacesKept, NEW d \in 1 .. Days, day = d + 1
  PROVE  LogRows(d) = logs[d]
<1>1. CASE Listed(MonthOf(d))
  BY <1>1 DEF LogRows
<1>2. CASE ~Listed(MonthOf(d))
  <2>1. MonthOf(d) \in Months /\ MonthOf(d) \in Int /\ Month \in Int /\ Month <= MonthOf(d) + 1
    BY MonthsOfDays, MonthIsANumber, MonthAfterMonth DEF Month
  <2>2. parts[MonthOf(d)] # "detached"
    BY <2>1, UpkeepNumbers DEF PlacesKept, Expired
  <2>3. parts[MonthOf(d)] = "none"
    BY <1>2, <2>1, <2>2 DEF Listed, UpkeepShape, PartStates
  <2>4. logs[d] = 0
    BY <2>3 DEF PlacesKept, UpkeepShape
  <2>. QED  BY <1>2, <2>4 DEF LogRows
<1>. QED  BY <1>1, <1>2

LEMMA ReadRowsKeeps ==
  ASSUME UpkeepInv, NEW r \in Rollers, ReadRows(r)  PROVE UpkeepInv'
<1>1. UpkeepShape /\ PlacesKept /\ RoundFits /\ SumsFit
  BY DEF UpkeepInv
<1>. DEFINE tally == LogRows(DayOf(r))
<1>2. /\ roller[r].at = "read" /\ roller' = [roller EXCEPT ![r].at = "write", ![r].seen = tally]
      /\ UNCHANGED <<day, parts, job, due, made, logs, figures, settled, outages>>
  BY DEF ReadRows
<1>3. roller[r] \in Rolls /\ roller[r].today \in 1 .. Days /\ roller[r].of \in {"before", "today"} /\ DayOf(r) \in 0 .. Days
  BY <1>1, RollIs
<1>4. tally \in Nat /\ (DayOf(r) = 0 => tally = 0) /\ (DayOf(r) > 0 => tally \in {0, logs[DayOf(r)]} /\ logs[DayOf(r)] \in Nat)
  BY <1>1, <1>3 DEF LogRows, UpkeepShape
<1>5. RollerFits(r) /\ Rolling(r) /\ roller[r].today <= day /\ day <= roller[r].today + 1 /\ day \in Int
  BY <1>1, <1>2 DEF SumsFit, RollerFits, Rolling, UpkeepShape
<1>6. roller[r].of = "before" /\ DayOf(r) > 0 /\ ~(roller[r].today < day) => tally = logs[DayOf(r)]
  <2>1. ASSUME roller[r].of = "before", DayOf(r) > 0, ~(roller[r].today < day)  PROVE tally = logs[DayOf(r)]
    <3>1. DayOf(r) \in 1 .. Days /\ day = DayOf(r) + 1
      BY <1>3, <1>5, <2>1 DEF DayOf
    <3>. QED  BY <1>1, <3>1, YesterdayIsRead
  <2>. QED  BY <2>1
<1>. HIDE DEF tally
<1>7. /\ roller'[r].at = "write" /\ roller'[r].seen = tally /\ roller'[r].of = roller[r].of
      /\ roller'[r].today = roller[r].today /\ roller'[r].clean = roller[r].clean
      /\ \A s \in Rollers : s # r => roller'[s] = roller[s]
  BY <1>1, <1>2 DEF UpkeepShape, Rolls
<1>8. UpkeepShape'
  <2>1. [roller[r] EXCEPT !.at = "write", !.seen = tally] \in Rolls
    BY <1>3, <1>4 DEF Rolls
  <2>2. roller \in [Rollers -> Rolls] /\ roller' = [roller EXCEPT ![r] = [roller[r] EXCEPT !.at = "write", !.seen = tally]]
    BY <1>1, <1>2 DEF UpkeepShape
  <2>3. roller' \in [Rollers -> Rolls]
    BY <2>1, <2>2
  <2>. QED  BY <1>1, <1>2, <2>3 DEF UpkeepShape
<1>9. PlacesKept' /\ RoundFits'
  BY <1>1, <1>2, PlacesUntouched
<1>10. \A s \in Rollers : /\ roller'[s].today = roller[s].today /\ roller'[s].of = roller[s].of
                          /\ roller'[s].clean = roller[s].clean /\ DayOf(s)' = DayOf(s) /\ (Rolling(s)' <=> Rolling(s))
  BY <1>5, <1>7 DEF Rolling, DayOf
<1>11. \A s \in Rollers : Undisturbed(s)' <=> Undisturbed(s)
  BY <1>2, <1>10 DEF Undisturbed
<1>12. ASSUME NEW s \in Rollers, s # r  PROVE RollerFits(s)'
  <2>1. RollerFits(s) /\ roller'[s] = roller[s]
    BY <1>1, <1>7, <1>12 DEF SumsFit
  <2>. QED  BY <1>2, <1>10, <1>11, <2>1 DEF RollerFits, Final
<1>13. RollerFits(r)'
  <2>1. IF DayOf(r) = 0 THEN tally = 0
        ELSE /\ tally <= logs[DayOf(r)]
             /\ roller[r].of = "before" => tally = logs[DayOf(r)] \/ (tally = 0 /\ roller[r].today < day)
    BY <1>3, <1>4, <1>6
  <2>. QED  BY <1>2, <1>5, <1>7, <1>10, <1>11, <2>1 DEF RollerFits, Final
<1>14. SettledFit'
  BY <1>1, <1>2, <1>10 DEF SumsFit, SettledFit, Final
<1>. QED  BY <1>1, <1>2, <1>8, <1>9, <1>12, <1>13, <1>14 DEF UpkeepInv, SumsFit

LEMMA WriteFiguresKeeps ==
  ASSUME UpkeepInv, NEW r \in Rollers, WriteFigures(r)  PROVE UpkeepInv'
<1>1. UpkeepShape /\ PlacesKept /\ RoundFits /\ SumsFit
  BY DEF UpkeepInv
<1>. DEFINE x == roller[r]
            y == [x EXCEPT !.at = IF x.of = "today" THEN "idle" ELSE "read", !.of = IF x.of = "before" THEN "today" ELSE "before"]
<1>2. /\ x.at = "write"
      /\ figures' = IF x.seen = 0 THEN figures ELSE [figures EXCEPT ![DayOf(r)] = x.seen]
      /\ roller' = [roller EXCEPT ![r] = y]
      /\ settled' = IF x.of = "today" /\ x.clean /\ x.today = day THEN settled \union {day} ELSE settled
      /\ UNCHANGED <<day, parts, job, due, made, logs, outages>>
  <2>1. roller' = [roller EXCEPT ![r].at = IF @ = "write" /\ roller[r].of = "today" THEN "idle" ELSE "read",
                              ![r].of = IF @ = "before" THEN "today" ELSE "before"]
    BY DEF WriteFigures
  <2>2. roller' = [roller EXCEPT ![r] = y]
    BY <1>1, <2>1 DEF WriteFigures, UpkeepShape
  <2>. QED  BY <2>2 DEF WriteFigures, Put
<1>3. /\ x \in Rolls /\ x.today \in 1 .. Days /\ x.of \in {"before", "today"} /\ x.seen \in Nat /\ x.clean \in BOOLEAN
      /\ DayOf(r) \in 0 .. Days /\ DayOf(r) = IF x.of = "before" THEN x.today - 1 ELSE x.today
  BY <1>1, RollIs DEF DayOf
<1>4. y \in Rolls /\ y.at = (IF x.of = "today" THEN "idle" ELSE "read") /\ y.of = (IF x.of = "before" THEN "today" ELSE "before")
      /\ y.today = x.today /\ y.clean = x.clean
  BY <1>3 DEF Rolls
<1>5. roller'[r] = y /\ \A s \in Rollers : s # r => roller'[s] = roller[s]
  BY <1>1, <1>2 DEF UpkeepShape
<1>6. /\ RollerFits(r) /\ Rolling(r) /\ x.today <= day /\ day <= x.today + 1 /\ day \in Int
      /\ IF DayOf(r) = 0 THEN x.seen = 0
         ELSE /\ x.seen <= logs[DayOf(r)]
              /\ x.of = "before" => x.seen = logs[DayOf(r)] \/ (x.seen = 0 /\ x.today < day)
      /\ Undisturbed(r) => /\ \A s \in Rollers : Rolling(s) => roller[s].today = day
                           /\ x.of = "today" => Final(x.today - 1)
  BY <1>1, <1>2 DEF SumsFit, RollerFits, Rolling, UpkeepShape
<1>. HIDE DEF x, y
<1>7. /\ figures' \in [1 .. Days -> Nat]
      /\ \A d \in 1 .. Days : /\ figures'[d] \in {figures[d], x.seen} /\ (d # DayOf(r) => figures'[d] = figures[d])
                              /\ logs[d] \in Nat /\ figures[d] \in Nat /\ figures[d] <= logs[d]
      /\ x.seen # 0 => DayOf(r) \in 1 .. Days /\ figures'[DayOf(r)] = x.seen
  <2>1. /\ figures \in [1 .. Days -> Nat] /\ logs \in [1 .. Days -> Nat]
        /\ \A d \in 1 .. Days : figures[d] <= logs[d]
    BY <1>1 DEF UpkeepShape, SumsFit
  <2>2. x.seen # 0 => DayOf(r) \in 1 .. Days
    BY <1>3, <1>6
  <2>3. CASE x.seen = 0
    BY <1>2, <2>1, <2>3
  <2>4. CASE x.seen # 0
    <3>1. figures' = [figures EXCEPT ![DayOf(r)] = x.seen] /\ DayOf(r) \in 1 .. Days
      BY <1>2, <2>2, <2>4
    <3>. QED  BY <1>3, <2>1, <3>1
  <2>. QED  BY <2>3, <2>4
<1>8. \A d \in 1 .. Days : figures'[d] <= logs'[d]
  <2>1. ASSUME NEW d \in 1 .. Days  PROVE figures'[d] <= logs[d]
    BY <1>3, <1>6, <1>7
  <2>. QED  BY <1>2, <2>1
<1>9. ASSUME NEW d \in 0 .. Days, Final(d), x.of = "before" \/ d # x.today  PROVE Final(d)'
  <2>1. CASE d = DayOf(r) /\ x.seen # 0
    BY <1>2, <1>3, <1>6, <1>7, <1>9, <2>1 DEF Final
  <2>2. CASE d # DayOf(r) \/ x.seen = 0
    BY <1>2, <1>7, <1>9, <2>2 DEF Final
  <2>. QED  BY <2>1, <2>2
<1>10. x.of = "before" /\ x.today = day /\ x.today - 1 > 0 => figures'[x.today - 1] = logs[x.today - 1]
  BY <1>3, <1>6, <1>7
<1>11. UpkeepShape'
  <2>1. roller' \in [Rollers -> Rolls]
    BY <1>1, <1>2, <1>4 DEF UpkeepShape
  <2>2. settled' \subseteq 1 .. Days
    BY <1>1, <1>2, <1>3 DEF UpkeepShape
  <2>. QED  BY <1>1, <1>2, <1>7, <2>1, <2>2 DEF UpkeepShape
<1>12. PlacesKept' /\ RoundFits'
  BY <1>1, <1>2, PlacesUntouched
<1>13. \A s \in Rollers : (Rolling(s)' => Rolling(s)) /\ roller'[s].today = roller[s].today
  BY <1>4, <1>5, <1>6 DEF Rolling, x
<1>14. ASSUME NEW s \in Rollers, s # r  PROVE RollerFits(s)'
  <2>1. RollerFits(s) /\ roller'[s] = roller[s] /\ DayOf(s)' = DayOf(s) /\ roller[s].today \in 1 .. Days
    BY <1>1, <1>5, <1>14, RollIs DEF SumsFit, DayOf
  <2>2. (Rolling(s)' <=> Rolling(s)) /\ (Undisturbed(s)' <=> Undisturbed(s))
    BY <1>2, <2>1 DEF Rolling, Undisturbed
  <2>3. Undisturbed(s) /\ roller[s].of = "today" => Final(roller[s].today - 1)'
    <3>1. ASSUME Undisturbed(s), roller[s].of = "today"  PROVE Final(roller[s].today - 1)'
      <4>1. Final(roller[s].today - 1) /\ roller[s].today = day /\ x.today = day
        BY <1>6, <2>1, <3>1 DEF RollerFits, Undisturbed, x
      <4>2. PICK d \in 0 .. Days : d = roller[s].today - 1 /\ d # x.today
        BY <2>1, <4>1, UpkeepNumbers
      <4>3. Final(d)'
        BY <1>9, <4>1, <4>2
      <4>. QED  BY <2>1, <4>2, <4>3 DEF Final
    <3>. QED  BY <3>1
  <2>4. Undisturbed(s) => \A u \in Rollers : Rolling(u)' => roller'[u].today = day
    <3>1. Undisturbed(s) => \A u \in Rollers : Rolling(u) => roller[u].today = day
      BY <2>1 DEF RollerFits
    <3>. QED  BY <1>13, <3>1
  <2>. QED  BY <1>2, <2>1, <2>2, <2>3, <2>4 DEF RollerFits
<1>15. RollerFits(r)'
  <2>1. CASE x.of = "before"
    <3>1. roller'[r].at = "read" /\ roller'[r].of = "today" /\ roller'[r].today = x.today /\ roller'[r].clean = x.clean
      BY <1>4, <1>5, <2>1
    <3>2. ASSUME Undisturbed(r)'
          PROVE  (\A s \in Rollers : Rolling(s)' => roller'[s].today = day') /\ Final(roller[r].today - 1)'
      <4>1. Undisturbed(r) /\ x.today = day
        BY <1>2, <1>6, <3>1, <3>2 DEF Undisturbed, x
      <4>. QED  BY <1>2, <1>6, <1>10, <1>13, <2>1, <3>1, <4>1 DEF Final
    <3>. QED  BY <1>2, <1>6, <3>1, <3>2 DEF RollerFits, Rolling
  <2>2. CASE x.of = "today"
    <3>1. roller'[r].at = "idle" /\ roller'[r].of = "before"
      BY <1>4, <1>5, <2>2
    <3>. QED  BY <3>1 DEF RollerFits, Rolling, Undisturbed
  <2>. QED  BY <1>3, <2>1, <2>2
<1>16. SettledFit'
  <2>1. ASSUME NEW t \in settled'
        PROVE  /\ t <= day /\ Final(t - 1)' /\ \A s \in Rollers : Rolling(s)' => roller'[s].today >= t
    <3>1. CASE t \in settled
      <4>1. t <= day /\ Final(t - 1) /\ (\A s \in Rollers : Rolling(s) => roller[s].today >= t) /\ t \in 1 .. Days
        BY <1>1, <3>1 DEF SumsFit, SettledFit, UpkeepShape
      <4>2. t - 1 \in 0 .. Days /\ t - 1 # x.today
        BY <1>3, <1>6, <4>1, UpkeepNumbers DEF x
      <4>. QED  BY <1>9, <1>13, <4>1, <4>2
    <3>2. CASE t = day /\ x.of = "today" /\ x.clean /\ x.today = day
      <4>1. Undisturbed(r)
        BY <1>6, <3>2 DEF Undisturbed, x
      <4>2. Final(day - 1) /\ \A s \in Rollers : Rolling(s) => roller[s].today = day
        BY <1>6, <3>2, <4>1
      <4>3. day - 1 \in 0 .. Days /\ day - 1 # x.today
        BY <1>3, <3>2, UpkeepNumbers
      <4>. QED  BY <1>6, <1>9, <1>13, <3>2, <4>2, <4>3
    <3>. QED  BY <1>2, <3>1, <3>2
  <2>. QED  BY <1>2, <2>1 DEF SettledFit
<1>. QED  BY <1>8, <1>11, <1>12, <1>14, <1>15, <1>16 DEF UpkeepInv, SumsFit

LEMMA UpkeepStep == UpkeepInv /\ [UpkeepNext]_upkeepVars => UpkeepInv'
<1>. SUFFICES ASSUME UpkeepInv, [UpkeepNext]_upkeepVars  PROVE UpkeepInv'
  OBVIOUS
<1>1. CASE NewDay
  BY <1>1, NewDayKeeps
<1>2. CASE Record
  BY <1>2, RecordKeeps
<1>3. CASE StartRound
  BY <1>3, StartRoundKeeps
<1>4. CASE Make
  BY <1>4, MakeKeeps
<1>5. CASE Policy
  BY <1>5, PolicyKeeps
<1>6. CASE RoundDies
  BY <1>6, RoundDiesKeeps
<1>7. CASE DropExpired
  BY <1>7, DropExpiredKeeps
<1>8. ASSUME NEW r \in Rollers, StartRollup(r)  PROVE UpkeepInv'
  BY <1>8, StartRollupKeeps
<1>9. ASSUME NEW r \in Rollers, ReadRows(r)  PROVE UpkeepInv'
  BY <1>9, ReadRowsKeeps
<1>10. ASSUME NEW r \in Rollers, WriteFigures(r)  PROVE UpkeepInv'
  BY <1>10, WriteFiguresKeeps
<1>11. CASE UNCHANGED upkeepVars
  <2>1. UNCHANGED <<day, parts, job, due, made, logs, figures, roller, settled, outages>>
    BY <1>11 DEF upkeepVars
  <2>2. UpkeepShape'
    BY <2>1 DEF UpkeepInv, UpkeepShape
  <2>. QED  BY <2>1, <2>2, SumsUntouched, PlacesUntouched DEF UpkeepInv
<1>. QED  BY <1>1, <1>2, <1>3, <1>4, <1>5, <1>6, <1>7, <1>8, <1>9, <1>10, <1>11 DEF UpkeepNext

LEMMA UpkeepSays == UpkeepInv => LogsAreKept
<1>. SUFFICES ASSUME UpkeepInv  PROVE LogsAreKept
  OBVIOUS
<1>1. UpkeepShape /\ PlacesKept /\ SumsFit
  BY DEF UpkeepInv
<1>2. RowsHaveAPlace
  <2>. SUFFICES ASSUME day > 0
                PROVE  /\ Month <= made + MonthsAhead => Listed(Month)
                       /\ \A d \in 1 .. day : Retention > 0 /\ Month - MonthOf(d) <= Retention => parts[MonthOf(d)] # "detached"
    BY DEF RowsHaveAPlace
  <2>1. Month \in Months /\ Month \in Int /\ day <= Days
    BY <1>1, MonthOfNow DEF UpkeepShape
  <2>2. Month <= made + MonthsAhead => Listed(Month)
    BY <1>1, <2>1 DEF PlacesKept
  <2>3. ASSUME NEW d \in 1 .. day, Month - MonthOf(d) <= Retention  PROVE parts[MonthOf(d)] # "detached"
    <3>1. d \in 1 .. Days
      BY <1>1, <2>1, UpkeepNumbers DEF UpkeepShape
    <3>2. MonthOf(d) \in Months /\ MonthOf(d) \in Int
      BY <3>1, MonthsOfDays, MonthIsANumber
    <3>. QED  BY <1>1, <2>1, <2>3, <3>2, UpkeepNumbers DEF PlacesKept, Expired
  <2>. QED  BY <2>2, <2>3
<1>3. FiguresSettle
  <2>1. ASSUME NEW d \in 1 .. (day - 1), NEW next \in settled, next = d + 1  PROVE figures[d] = logs[d]
    <3>1. next - 1 = d /\ d > 0
      BY <1>1, <2>1 DEF UpkeepShape
    <3>. QED  BY <1>1, <3>1 DEF SumsFit, SettledFit, Final
  <2>. QED  BY <2>1 DEF FiguresSettle
<1>. QED  BY <1>2, <1>3 DEF LogsAreKept

UpkeepSpec == UpkeepInit /\ [][UpkeepNext]_upkeepVars

(* A row always finds its partition while fewer rounds in a row have       *)
(* failed than months are made ahead, none is detached that the retention  *)
(* still wants, and the figures of a day are those of its rows after the   *)
(* first undisturbed round of the next (maintain_partitions, rollup_all):  *)
(* for any length of a month, retention, number of rolls and failures.     *)
THEOREM LogsKept == UpkeepSpec => []LogsAreKept
<1>1. UpkeepInit => UpkeepInv
  BY UpkeepStart DEF UpkeepInit
<1>2. UpkeepInv /\ [UpkeepNext]_upkeepVars => UpkeepInv'
  BY UpkeepStep
<1>3. UpkeepInv => LogsAreKept
  BY UpkeepSays
<1>. QED  BY <1>1, <1>2, <1>3, PTL DEF UpkeepSpec
-----------------------------------------------------------------------------
(***************************************************************************)
(* Notices: the values of the variables.                                   *)
(***************************************************************************)
Cells == People \X Keys
NoteRow == [count : Nat, unread : BOOLEAN, by : Events \union {0}]
Drafts == UNION {[S -> NoteRow] : S \in SUBSET Cells}
EventPlaces == {"guard", "guarded", "quiet", "look", "insert", "flush", "lost", "done"}
EventRow ==
  [at : EventPlaces, kind : {"ready", "quota"}, used : Nat, to : Seq(People), next : Nat \ {0},
   draft : Drafts, fresh : SUBSET Cells]
MailRow == [row : Cells, tries : Nat, sent : BOOLEAN]
NoticeShape ==
  /\ rows \in [Cells -> NoteRow] /\ lock \in [Cells -> Events \union {0}]
  /\ event \in [Events -> EventRow] /\ guards \subseteq 1 .. Len(Thresholds)
  /\ mails \subseteq MailRow /\ mailed \in [Cells -> Nat] /\ again \in [Cells -> Nat]
  /\ inbox \in [at : {"choose", "count", "shown"}, who : People \union {0}, listed : SUBSET Keys, unread : Nat]
  /\ (inbox.at # "choose" => inbox.who \in People) /\ slips \in Nat

(* One event: what it has written is locked and not yet seen, what it has  *)
(* passed is told or about to be, and what it has created was not there.   *)
Writing(e) == event[e].at \in {"look", "insert"}
Highest(m, used) == m \in Crossed(used) /\ \A j \in Crossed(used) : j <= m
Passed(e, i) ==
  \/ Recipients(e)[i] \in DOMAIN event[e].draft
  \/ Kind(e) = "quota" /\ rows[Recipients(e)[i]] # Absent
DraftFits(e) ==
  \A r \in DOMAIN event[e].draft :
    /\ Writing(e) /\ lock[r] = e /\ event[e].draft[r].count > 0
    /\ \E i \in 1 .. Len(Recipients(e)) : Recipients(e)[i] = r
    /\ Kind(e) = "ready" => event[e].draft[r].count = rows[r].count + 1
WayFits(e) ==
  /\ Writing(e) => \A i \in 1 .. Len(Recipients(e)) : i < event[e].next => Passed(e, i)
  /\ AtEvent(e, "insert") => Ongoing(e)
  /\ event[e].at \in {"flush", "done"} /\ Kind(e) = "quota" =>
       \A i \in 1 .. Len(Recipients(e)) : rows[Recipients(e)[i]] # Absent
  /\ AtEvent(e, "guard") => Kind(e) = "quota" /\ event[e].next = 1
  /\ AtEvent(e, "guarded") => Kind(e) = "quota" /\ \E m \in guards : Highest(m, event[e].used)
FreshFits(e) ==
  \A r \in event[e].fresh :
    \/ Writing(e) /\ r \in DOMAIN event[e].draft /\ rows[r] = Absent
    \/ event[e].at \in {"flush", "done"} /\ rows[r] # Absent
EventsFit == \A e \in Events : DraftFits(e) /\ WayFits(e) /\ FreshFits(e)

(* The events with each other, the guards and the mails.                   *)
SamePeople == \A e, f \in Events : Kind(e) = "quota" /\ Kind(f) = "quota" => event[e].to = event[f].to
FreshApart == \A e, f \in Events : e # f => event[e].fresh \intersect event[f].fresh = {}
GuardsFit ==
  \A m \in guards : \E f \in Events :
    /\ Kind(f) = "quota" /\ event[f].at \in {"look", "insert", "flush", "lost", "done"}
    /\ Highest(m, event[f].used)
Flushed(r) == \E e \in Events : AtEvent(e, "done") /\ Kind(e) = "quota" /\ r \in event[e].fresh
MailsFit ==
  /\ \A m \in mails : Flushed(m.row) /\ (m.sent \/ mailed[m.row] <= again[m.row])
  /\ \A m, n \in mails : m.row = n.row => m = n
  /\ \A r \in Cells : mailed[r] <= 1 + again[r] /\ (mailed[r] > 0 => Flushed(r))
RowsFit == \A r \in Cells : rows[r].count = 0 => rows[r] = Absent
NoticesInv ==
  /\ NoticeShape /\ EventsFit /\ SamePeople /\ FreshApart /\ GuardsFit /\ MailsFit /\ RowsFit
  /\ EveryDocumentCounts
-----------------------------------------------------------------------------
LessThan == {ss \in Nat \X Nat : ss[1] < ss[2]}
LEMMA LeastOf ==
  ASSUME NEW S \in SUBSET Nat, S # {}
  PROVE  \E x \in S : \A y \in S : x <= y
<1>1. IsWellFoundedOn(LessThan, Nat)
  BY NatLessThanWellFounded DEF OpToRel, LessThan
<1>2. \A x, y \in Nat : x < y => <<x, y>> \in LessThan
  BY DEF LessThan
<1>3. PICK x \in S : \A y \in S : ~ (<<y, x>> \in LessThan)
  BY <1>1, WFMin
<1>4. \A y \in S : ~ (y < x)
  BY <1>2, <1>3
<1>. QED  BY <1>4

LEMMA NoticeNumbers ==
  /\ IsFiniteSet(Events) /\ 0 \notin Events /\ 0 \notin People /\ Events \subseteq Nat
  /\ Limit \in Nat \ {0} /\ Thresholds \in Seq(1 .. 100) /\ Len(Thresholds) \in Nat
  /\ \A i \in 1 .. Len(Thresholds) : Thresholds[i] \in 1 .. 100 /\ Thresholds[i] \in Nat \ {0}
  /\ \A i, j \in 1 .. Len(Thresholds) : i < j => Thresholds[i] < Thresholds[j]
<1>1. /\ Events \subseteq Nat \ {0} /\ IsFiniteSet(Events) /\ People \subseteq Nat \ {0}
      /\ Limit \in Nat \ {0} /\ Thresholds \in Seq(1 .. 100)
      /\ \A i, j \in 1 .. Len(Thresholds) : i < j => Thresholds[i] < Thresholds[j]
  BY NoticesAssumption
<1>2. Len(Thresholds) \in Nat /\ \A i \in 1 .. Len(Thresholds) : Thresholds[i] \in 1 .. 100
  BY <1>1, LenProperties, ElementOfSeq
<1>3. \A x : x \in 1 .. 100 => x \in Nat \ {0}
  OBVIOUS
<1>4. \A i \in 1 .. Len(Thresholds) : Thresholds[i] \in Nat \ {0}
  BY <1>2, <1>3
<1>. QED  BY <1>1, <1>2, <1>4

LEMMA KeysAreFinite == IsFiniteSet(Keys)
<1>. DEFINE f == [i \in 1 .. Len(Thresholds) |-> Thresholds[i]]
            T == {Thresholds[i] : i \in 1 .. Len(Thresholds)}
<1>1. IsFiniteSet(1 .. Len(Thresholds))
  BY NoticeNumbers, FS_Interval
<1>2. f \in Surjection(1 .. Len(Thresholds), T)
  BY DEF Surjection
<1>3. IsFiniteSet(T)
  BY <1>1, <1>2, FS_Surjection
<1>4. IsFiniteSet({Bucket}) /\ Keys = {Bucket} \union T
  BY FS_Singleton DEF Keys
<1>. HIDE DEF T
<1>. QED  BY <1>3, <1>4, FS_Union

(* Rounding the percentage down decides the same: the floor is a number.   *)
LEMMA ReachedIsCrossed ==
  ASSUME NEW used \in Nat  PROVE Reached(used) = Crossed(used)
<1>1. \A a, t \in Nat, k \in Nat \ {0} : a \div k >= t <=> a >= t * k
  OBVIOUS
<1>2. \A i \in 1 .. Len(Thresholds) : (used * 100) \div Limit >= Thresholds[i] <=> used * 100 >= Thresholds[i] * Limit
  <2>. TAKE i \in 1 .. Len(Thresholds)
  <2>1. used * 100 \in Nat /\ Thresholds[i] \in Nat /\ Limit \in Nat \ {0}
    BY NoticeNumbers
  <2>. QED  BY <1>1, <2>1
<1>. QED  BY <1>2 DEF Reached, Crossed

(* Who has crossed a threshold has crossed the lower ones.                 *)
LEMMA LowerAreCrossed ==
  ASSUME NEW used \in Nat, NEW m \in Crossed(used), NEW i \in 1 .. m  PROVE i \in Crossed(used)
<1>1. m \in 1 .. Len(Thresholds) /\ used * 100 >= Thresholds[m] * Limit /\ i \in 1 .. Len(Thresholds)
  BY NoticeNumbers DEF Crossed
<1>2. Thresholds[i] <= Thresholds[m] /\ Thresholds[i] \in Nat /\ Thresholds[m] \in Nat
  <2>1. i \in 1 .. Len(Thresholds) /\ i \in Int /\ m \in Int /\ (i = m \/ i < m)
    BY <1>1
  <2>2. Thresholds[i] \in Nat /\ Thresholds[m] \in Nat /\ (i < m => Thresholds[i] < Thresholds[m])
    BY <1>1, <2>1, NoticeNumbers
  <2>. QED  BY <2>1, <2>2
<1>3. \A x, y, k \in Nat : x <= y => x * k <= y * k
  OBVIOUS
<1>4. Thresholds[i] * Limit <= Thresholds[m] * Limit
  BY <1>2, <1>3, NoticeNumbers
<1>5. used * 100 >= Thresholds[i] * Limit
  <2>1. \A x, y \in Nat : x * y \in Nat
    OBVIOUS
  <2>2. used * 100 \in Nat /\ Thresholds[i] * Limit \in Nat /\ Thresholds[m] * Limit \in Nat
    BY <1>2, <2>1, NoticeNumbers
  <2>3. \A a, b, c \in Nat : b <= c /\ a >= c => a >= b
    OBVIOUS
  <2>. QED  BY <1>1, <1>4, <2>2, <2>3
<1>. QED  BY <1>1, <1>5 DEF Crossed

LEMMA HighestTells ==
  ASSUME NEW used \in Nat, NEW m, Highest(m, used)  PROVE Crossed(used) = 1 .. m /\ m \in 1 .. Len(Thresholds)
<1>1. m \in 1 .. Len(Thresholds)
  BY DEF Highest, Crossed
<1>2. \A j \in Crossed(used) : j \in 1 .. m
  BY <1>1 DEF Highest, Crossed
<1>. QED  BY <1>1, <1>2, LowerAreCrossed DEF Highest

(* The greatest of some numbers.                                           *)
LEMMA HighestExists ==
  ASSUME NEW used \in Nat, Crossed(used) # {}  PROVE \E m \in Crossed(used) : Highest(m, used)
<1>. DEFINE n == Len(Thresholds)
            back == {n - i : i \in Crossed(used)}
<1>1. back \in SUBSET Nat /\ back # {}
  BY NoticeNumbers DEF Crossed
<1>2. PICK b \in back : \A c \in back : b <= c
  BY <1>1, LeastOf
<1>3. PICK m \in Crossed(used) : b = n - m
  BY <1>2
<1>4. ASSUME NEW j \in Crossed(used)  PROVE j <= m
  <2>1. b <= n - j
    BY <1>2
  <2>2. j \in Nat /\ m \in Nat /\ n \in Nat
    BY NoticeNumbers DEF Crossed
  <2>. QED  BY <1>3, <2>1, <2>2
<1>. QED  BY <1>4 DEF Highest

LEMMA ReachedCount ==
  ASSUME NEW used \in Nat
  PROVE  /\ Cardinality(Reached(used)) \in 0 .. Len(Thresholds)
         /\ Crossed(used) = 1 .. Cardinality(Reached(used))
<1>1. CASE Crossed(used) = {}
  <2>1. Reached(used) = {} /\ Cardinality({}) = 0
    BY <1>1, ReachedIsCrossed, FS_EmptySet
  <2>. QED  BY <1>1, <2>1, NoticeNumbers
<1>2. CASE Crossed(used) # {}
  <2>1. PICK m \in Crossed(used) : Highest(m, used)
    BY <1>2, HighestExists
  <2>2. Crossed(used) = 1 .. m /\ m \in 1 .. Len(Thresholds)
    BY <2>1, HighestTells
  <2>3. Cardinality(1 .. m) = m
    BY <2>2, NoticeNumbers, FS_Interval
  <2>. QED  BY <2>2, <2>3, ReachedIsCrossed, NoticeNumbers
<1>. QED  BY <1>1, <1>2

(* The rows an event visits: all of its people at all of its thresholds.   *)
LEMMA Division ==
  ASSUME NEW p \in Nat \ {0}, NEW n \in Nat
  PROVE  /\ n % p \in 0 .. p - 1 /\ n \div p \in Nat /\ n = p * (n \div p) + (n % p)
         /\ \A c \in Nat : n < p * c => n \div p < c
<1>1. n % p \in 0 .. p - 1 /\ n \div p \in Nat /\ n = p * (n \div p) + (n % p)
  OBVIOUS
<1>2. ASSUME NEW c \in Nat, n < p * c, ~(n \div p < c)  PROVE FALSE
  <2>. DEFINE q == n \div p
  <2>1. q \in Nat /\ c <= q
    BY <1>1, <1>2
  <2>. HIDE DEF q
  <2>2. p * c <= p * q /\ p * c \in Nat /\ p * q \in Nat
    BY <2>1
  <2>3. n >= p * q
    BY <1>1 DEF q
  <2>. QED  BY <1>2, <2>2, <2>3
<1>. QED  BY <1>1, <1>2

LEMMA Position ==
  ASSUME NEW p \in Nat \ {0}, NEW a \in 0 .. p - 1, NEW b \in Nat
  PROVE  (p * b + a) % p = a /\ (p * b + a) \div p = b
<1>. DEFINE n == p * b + a
            q == n \div p
            r == n % p
<1>1. n \in Nat
  OBVIOUS
<1>2. q \in Nat /\ r \in 0 .. p - 1 /\ n = p * q + r
  BY <1>1, Division
<1>. HIDE DEF q, r
<1>3. CASE q < b
  <2>1. q + 1 <= b /\ p * (q + 1) <= p * b
    BY <1>2, <1>3
  <2>2. p * (q + 1) = p * q + p /\ p * q \in Nat /\ p * b \in Nat
    BY <1>2
  <2>. QED  BY <1>2, <2>1, <2>2
<1>4. CASE b < q
  <2>1. b + 1 <= q /\ p * (b + 1) <= p * q
    BY <1>2, <1>4
  <2>2. p * (b + 1) = p * b + p /\ p * q \in Nat /\ p * b \in Nat
    BY <1>2
  <2>. QED  BY <1>2, <2>1, <2>2
<1>5. CASE q = b
  <2>1. p * b \in Nat
    OBVIOUS
  <2>2. r = a
    BY <1>2, <1>5, <2>1
  <2>. QED  BY <1>5, <2>2 DEF q, r
<1>. QED  BY <1>2, <1>3, <1>4, <1>5

LEMMA RecipientsAre ==
  ASSUME NoticeShape, NEW e \in Events
  PROVE  /\ Len(Recipients(e)) \in Nat
         /\ \A i \in 1 .. Len(Recipients(e)) :
              /\ Recipients(e)[i] \in Cells /\ (Kind(e) = "ready" <=> Recipients(e)[i][2] = Bucket)
              /\ \E j \in 1 .. Len(event[e].to) : Recipients(e)[i][1] = event[e].to[j]
         /\ Kind(e) = "ready" => \A j \in 1 .. Len(event[e].to) : \E i \in 1 .. Len(Recipients(e)) :
                                   Recipients(e)[i] = <<event[e].to[j], Bucket>>
         /\ Kind(e) = "quota" =>
              \A k \in Crossed(event[e].used) : \A j \in 1 .. Len(event[e].to) : \E i \in 1 .. Len(Recipients(e)) :
                Recipients(e)[i] = <<event[e].to[j], Thresholds[k]>>
<1>. DEFINE to == event[e].to
            p == Len(to)
            used == event[e].used
            c == Cardinality(Reached(used))
<1>1. event[e] \in EventRow
  BY DEF NoticeShape
<1>2. to \in Seq(People) /\ p \in Nat /\ (\A j \in 1 .. p : to[j] \in People) /\ used \in Nat /\ Kind(e) \in {"ready", "quota"}
  BY <1>1, LenProperties, ElementOfSeq DEF EventRow, Kind
<1>3. c \in 0 .. Len(Thresholds) /\ Crossed(used) = 1 .. c /\ c \in Nat
  <2>. HIDE DEF used
  <2>1. Cardinality(Reached(used)) \in 0 .. Len(Thresholds) /\ Crossed(used) = 1 .. Cardinality(Reached(used))
    BY <1>2, ReachedCount
  <2>. QED  BY <2>1, NoticeNumbers
<1>4. /\ Bucket \in Keys /\ \A i \in 1 .. Len(Thresholds) : Thresholds[i] \in Keys /\ Thresholds[i] # Bucket
  BY NoticeNumbers DEF Keys, Bucket
<1>. HIDE DEF to, p, used, c
<1>5. CASE Kind(e) = "ready"
  <2>1. Recipients(e) = [i \in 1 .. p |-> <<to[i], Bucket>>]
    BY <1>5 DEF Recipients, to, p
  <2>2. Len(Recipients(e)) = p /\ \A i \in 1 .. p : Recipients(e)[i] = <<to[i], Bucket>>
    BY <1>2, <2>1
  <2>3. ASSUME NEW i \in 1 .. p
        PROVE  /\ Recipients(e)[i] \in Cells /\ Recipients(e)[i][2] = Bucket
               /\ \E j \in 1 .. p : Recipients(e)[i][1] = to[j]
    <3>1. Recipients(e)[i] = <<to[i], Bucket>> /\ to[i] \in People /\ Bucket \in Keys
      BY <1>2, <1>4, <2>2
    <3>2. <<to[i], Bucket>> \in Cells
      BY <3>1 DEF Cells
    <3>3. Recipients(e)[i][1] = to[i] /\ Recipients(e)[i][2] = Bucket
      BY <3>1
    <3>. QED  BY <3>1, <3>2, <3>3
  <2>4. Kind(e) # "quota"
    BY <1>5
  <2>. QED  BY <1>2, <1>5, <2>2, <2>3, <2>4 DEF to, p
<1>6. CASE Kind(e) = "quota"
  <2>1. Recipients(e) = [i \in 1 .. p * c |-> <<to[((i - 1) % p) + 1], Thresholds[((i - 1) \div p) + 1]>>]
    BY <1>6 DEF Recipients, to, p, c, used
  <2>2. p * c \in Nat
    BY <1>2, <1>3
  <2>3. Len(Recipients(e)) = p * c
        /\ \A i \in 1 .. p * c : Recipients(e)[i] = <<to[((i - 1) % p) + 1], Thresholds[((i - 1) \div p) + 1]>>
    BY <2>1, <2>2
  <2>4. ASSUME NEW i \in 1 .. p * c
        PROVE  ((i - 1) % p) + 1 \in 1 .. p /\ ((i - 1) \div p) + 1 \in 1 .. c
    <3>1. p # 0
      BY <1>2, <1>3, <2>2
    <3>2. p \in Nat \ {0} /\ i - 1 \in Nat /\ i - 1 < p * c
      BY <1>2, <2>2, <3>1
    <3>3. (i - 1) % p \in 0 .. p - 1 /\ (i - 1) \div p \in Nat /\ (i - 1) \div p < c
      BY <1>3, <3>2, Division
    <3>. QED  BY <1>2, <1>3, <3>3
  <2>5. ASSUME NEW k \in 1 .. c, NEW j \in 1 .. p
        PROVE  \E i \in 1 .. p * c : Recipients(e)[i] = <<to[j], Thresholds[k]>>
    <3>. DEFINE i == p * (k - 1) + (j - 1) + 1
    <3>1. p \in Nat \ {0} /\ j - 1 \in 0 .. p - 1 /\ k - 1 \in Nat
      BY <1>2, <1>3
    <3>2. (p * (k - 1) + (j - 1)) % p = j - 1 /\ (p * (k - 1) + (j - 1)) \div p = k - 1
      BY <3>1, Position
    <3>3. p * (k - 1) \in Nat /\ p * (k - 1) + p = p * k /\ p * k <= p * c
      BY <1>3, <3>1
    <3>4. i \in 1 .. p * c /\ i - 1 = p * (k - 1) + (j - 1)
      BY <2>2, <3>1, <3>3
    <3>. HIDE DEF i
    <3>5. ((i - 1) % p) + 1 = j /\ ((i - 1) \div p) + 1 = k
      BY <3>1, <3>2, <3>4
    <3>. QED  BY <2>3, <3>4, <3>5
  <2>6. ASSUME NEW i \in 1 .. p * c
        PROVE  /\ Recipients(e)[i] \in Cells /\ Recipients(e)[i][2] # Bucket
               /\ \E j \in 1 .. p : Recipients(e)[i][1] = to[j]
    <3>1. PICK j \in 1 .. p, k \in 1 .. c : Recipients(e)[i] = <<to[j], Thresholds[k]>>
      BY <2>3, <2>4
    <3>2. to[j] \in People /\ Thresholds[k] \in Keys /\ Thresholds[k] # Bucket
      BY <1>2, <1>3, <1>4
    <3>. QED  BY <3>1, <3>2 DEF Cells
  <2>7. Kind(e) # "ready" /\ Crossed(event[e].used) = 1 .. c /\ Len(Recipients(e)) \in Nat
    BY <1>3, <1>6, <2>2, <2>3 DEF used
  <2>. QED  BY <2>3, <2>5, <2>6, <2>7 DEF to, p
<1>. QED  BY <1>2, <1>5, <1>6

(* Drafts: a row is written over, or beside, those that are in it.         *)
LEMMA DraftsAre ==
  /\ \A d \in Drafts : DOMAIN d \subseteq Cells /\ \A r \in DOMAIN d : d[r] \in NoteRow
  /\ \A S \in SUBSET Cells : \A d \in [S -> NoteRow] : d \in Drafts
  /\ <<>> \in Drafts /\ DOMAIN <<>> = {}
<1>1. \A S \in SUBSET Cells : \A d \in [S -> NoteRow] : d \in Drafts
  BY DEF Drafts
<1>2. <<>> \in [{} -> NoteRow] /\ DOMAIN <<>> = {}
  OBVIOUS
<1>. QED  BY <1>1, <1>2 DEF Drafts

LEMMA DraftGrows ==
  ASSUME NoticeShape, NEW e \in Events, NEW row \in NoteRow, Recipient(e) \in Cells
  PROVE  /\ Draft(e, row) \in Drafts /\ DOMAIN Draft(e, row) = DOMAIN event[e].draft \union {Recipient(e)}
         /\ Draft(e, row)[Recipient(e)] = row
         /\ \A q \in DOMAIN event[e].draft : q # Recipient(e) => Draft(e, row)[q] = event[e].draft[q]
<1>. DEFINE d == event[e].draft
            D == DOMAIN d \union {Recipient(e)}
<1>1. d \in Drafts
  BY DEF NoticeShape, EventRow
<1>2. D \in SUBSET Cells /\ Draft(e, row) \in [D -> NoteRow]
  BY <1>1, DraftsAre DEF Draft
<1>. QED  BY <1>1, <1>2, DraftsAre DEF Draft
-----------------------------------------------------------------------------
LEMMA EventIs ==
  ASSUME NoticeShape, NEW e \in Events
  PROVE  /\ event[e] \in EventRow /\ event[e].at \in EventPlaces /\ Kind(e) \in {"ready", "quota"}
         /\ event[e].used \in Nat /\ event[e].to \in Seq(People) /\ event[e].next \in Nat \ {0}
         /\ event[e].draft \in Drafts /\ DOMAIN event[e].draft \subseteq Cells /\ event[e].fresh \subseteq Cells
  BY DraftsAre DEF NoticeShape, EventRow, Kind

(* An event that moves: the others stay where they are, and nobody changes *)
(* what it is about.                                                       *)
Marked == {"look", "insert", "flush", "lost", "done"}
AlikeFor(e) == UNCHANGED <<Kind(e), event[e].used, event[e].to>>
Move(e) ==
  /\ event' \in [Events -> EventRow] /\ \A f \in Events : f # e => event'[f] = event[f]
  /\ AlikeFor(e) /\ (event[e].at \in Marked => event'[e].at \in Marked)
  /\ guards \subseteq guards'
  /\ \A m \in guards' : m \in guards \/ (Kind(e) = "quota" /\ event'[e].at \in Marked /\ Highest(m, event[e].used))
  /\ \A r \in event'[e].fresh : r \in event[e].fresh \/ \A f \in Events : f # e => r \notin event[f].fresh

LEMMA MovesAlike ==
  ASSUME NEW e \in Events, Move(e)
  PROVE  \A f \in Events : AlikeFor(f) /\ Recipients(f)' = Recipients(f)
<1>1. \A f \in Events : AlikeFor(f)
  BY DEF Move, AlikeFor, Kind
<1>2. ASSUME NEW f \in Events, AlikeFor(f)  PROVE Recipients(f)' = Recipients(f)
  BY <1>2 DEF AlikeFor, Recipients, Reached
<1>. QED  BY <1>1, <1>2

LEMMA TogetherKeeps ==
  ASSUME SamePeople, FreshApart, GuardsFit, NEW e \in Events, Move(e)
  PROVE  SamePeople' /\ FreshApart' /\ GuardsFit'
<1>1. \A f \in Events : Kind(f)' = Kind(f) /\ event'[f].used = event[f].used /\ event'[f].to = event[f].to
  BY MovesAlike DEF AlikeFor
<1>2. SamePeople'
  BY <1>1 DEF SamePeople
<1>3. FreshApart'
  BY DEF FreshApart, Move
<1>4. ASSUME NEW m \in guards'
      PROVE  \E f \in Events : (Kind(f) = "quota" /\ event[f].at \in Marked /\ Highest(m, event[f].used))'
  <2>1. ASSUME NEW f \in Events, Kind(f) = "quota", event'[f].at \in Marked, Highest(m, event[f].used)
        PROVE  (Kind(f) = "quota" /\ event[f].at \in Marked /\ Highest(m, event[f].used))'
    BY <1>1, <2>1 DEF Highest, Crossed
  <2>2. CASE m \in guards
    <3>1. PICK f \in Events : Kind(f) = "quota" /\ event[f].at \in Marked /\ Highest(m, event[f].used)
      BY <2>2 DEF GuardsFit, Marked
    <3>2. event'[f].at \in Marked
      BY <3>1 DEF Move
    <3>. QED  BY <2>1, <3>1, <3>2
  <2>3. CASE m \notin guards
    <3>1. Kind(e) = "quota" /\ event'[e].at \in Marked /\ Highest(m, event[e].used)
      BY <2>3 DEF Move
    <3>. QED  BY <2>1, <3>1
  <2>. QED  BY <2>2, <2>3
<1>5. GuardsFit'
  BY <1>4 DEF GuardsFit, Marked
<1>. QED  BY <1>2, <1>3, <1>5

(* What the events hold, where nobody touches what they have locked.       *)
Untouched(f) == \A r \in Cells : lock[r] = f => lock'[r] = f /\ rows'[r] = rows[r]
Kept == \A r \in Cells : rows[r] # Absent => rows'[r] # Absent
LEMMA EventKeeps ==
  ASSUME NoticeShape, NEW f \in Events, DraftFits(f), WayFits(f), FreshFits(f),
         event'[f] = event[f], Recipients(f)' = Recipients(f), guards \subseteq guards', Untouched(f), Kept
  PROVE  DraftFits(f)' /\ WayFits(f)' /\ FreshFits(f)'
<1>1. DOMAIN event[f].draft \subseteq Cells /\ event[f].fresh \subseteq Cells
      /\ \A i \in 1 .. Len(Recipients(f)) : Recipients(f)[i] \in Cells
  BY EventIs, RecipientsAre
<1>2. DraftFits(f)'
  BY <1>1 DEF DraftFits, Writing, Kind, Untouched
<1>3. \A i \in 1 .. Len(Recipients(f)) : Passed(f, i) => Passed(f, i)'
  BY <1>1 DEF Passed, Kind, Kept
<1>4. WayFits(f)'
  <2>2. (AtEvent(f, "guarded") => Kind(f) = "quota" /\ \E m \in guards : Highest(m, event[f].used))'
    BY DEF WayFits, AtEvent, Kind, Highest, Crossed
  <2>3. event'[f].at \in {"flush", "done"} /\ Kind(f)' = "quota" =>
          \A i \in 1 .. Len(Recipients(f)) : rows'[Recipients(f)[i]] # Absent
    BY <1>1 DEF WayFits, Kind, Kept
  <2>4. Writing(f)' => \A i \in 1 .. Len(Recipients(f)) : i < event'[f].next => Passed(f, i)'
    BY <1>3 DEF WayFits, Writing
  <2>. QED  BY <2>2, <2>3, <2>4 DEF WayFits, AtEvent, Kind, Ongoing, Absent
<1>5. FreshFits(f)'
  BY <1>1, <1>2 DEF FreshFits, Writing, DraftFits, Untouched, Kept
<1>. QED  BY <1>2, <1>4, <1>5

(* The counts, where nobody commits.                                       *)
LEMMA CountsKeep ==
  ASSUME EveryDocumentCounts, \A f \in Events : AlikeFor(f) /\ (Told(f)' <=> Told(f)),
         \A u \in People : rows'[<<u, Bucket>>].count = rows[<<u, Bucket>>].count
  PROVE  EveryDocumentCounts'
<1>1. ASSUME NEW u \in People
      PROVE  {e \in Events : Told(e) /\ Kind(e) = "ready" /\ \E i \in 1 .. Len(event[e].to) : event[e].to[i] = u}'
             = {e \in Events : Told(e) /\ Kind(e) = "ready" /\ \E i \in 1 .. Len(event[e].to) : event[e].to[i] = u}
  BY DEF AlikeFor
<1>. QED  BY <1>1 DEF EveryDocumentCounts, Bucket

(* The mails, where none is sent.                                          *)
LEMMA MailsKeep ==
  ASSUME MailsFit, UNCHANGED <<mails, mailed, again>>,
         \A f \in Events : AtEvent(f, "done") => event'[f].at = "done" /\ Kind(f)' = Kind(f) /\ event'[f].fresh = event[f].fresh
  PROVE  MailsFit'
<1>1. \A r : Flushed(r) => Flushed(r)'
  BY DEF Flushed, AtEvent
<1>. QED  BY <1>1 DEF MailsFit
-----------------------------------------------------------------------------
LEMMA InvParts ==
  ASSUME NoticesInv
  PROVE  /\ NoticeShape /\ SamePeople /\ FreshApart /\ GuardsFit /\ MailsFit /\ RowsFit /\ EveryDocumentCounts
         /\ \A f \in Events : DraftFits(f) /\ WayFits(f) /\ FreshFits(f)
  BY DEF NoticesInv, EventsFit

LEMMA EventMoves ==
  ASSUME NoticesInv, NEW e \in Events, Move(e), \A f \in Events : f # e => Untouched(f), Kept,
         DraftFits(e)', WayFits(e)', FreshFits(e)'
  PROVE  EventsFit' /\ SamePeople' /\ FreshApart' /\ GuardsFit'
<1>1. ASSUME NEW f \in Events, f # e  PROVE DraftFits(f)' /\ WayFits(f)' /\ FreshFits(f)'
  <2>1. event'[f] = event[f] /\ guards \subseteq guards' /\ Recipients(f)' = Recipients(f)
    BY <1>1, MovesAlike DEF Move
  <2>2. NoticeShape /\ DraftFits(f) /\ WayFits(f) /\ FreshFits(f) /\ Untouched(f)
    BY <1>1, InvParts
  <2>. QED  BY <2>1, <2>2, EventKeeps
<1>2. EventsFit'
  BY <1>1 DEF EventsFit
<1>. QED  BY <1>2, InvParts, TogetherKeeps

Ended(e) == event[e].at \in {"flush", "done"}
LEMMA QuietMove ==
  ASSUME NoticesInv, NEW e \in Events, Move(e), \A f \in Events : f # e => Untouched(f),
         UNCHANGED <<rows, mails, mailed, again>>, ~Ended(e), ~Ended(e)', NoticeShape',
         DraftFits(e)', WayFits(e)', FreshFits(e)'
  PROVE  NoticesInv'
<1>1. EventsFit' /\ SamePeople' /\ FreshApart' /\ GuardsFit'
  BY EventMoves DEF Kept
<1>2. RowsFit'
  BY InvParts DEF RowsFit, Absent
<1>3. \A f \in Events : AlikeFor(f) /\ (Told(f)' <=> Told(f))
  BY MovesAlike DEF Told, Ended, Move
<1>4. EveryDocumentCounts'
  BY <1>3, InvParts, CountsKeep
<1>5. \A f \in Events : AtEvent(f, "done") => event'[f].at = "done" /\ Kind(f)' = Kind(f) /\ event'[f].fresh = event[f].fresh
  BY <1>3 DEF AtEvent, Ended, Move, AlikeFor
<1>6. MailsFit'
  BY <1>5, InvParts, MailsKeep
<1>. QED  BY <1>1, <1>2, <1>4, <1>6 DEF NoticesInv
-----------------------------------------------------------------------------
(* The first threshold is marked by one; the others leave it to him.       *)
LEMMA GuardKeeps ==
  ASSUME NoticesInv, NEW e \in Events, Guard(e)  PROVE NoticesInv'
<1>1. /\ AtEvent(e, "guard") /\ NoticeShape /\ DraftFits(e) /\ WayFits(e) /\ FreshFits(e)
      /\ UNCHANGED <<rows, lock, mails, mailed, again, inbox, slips>>
  BY InvParts DEF Guard
<1>2. Kind(e) = "quota" /\ event[e].next = 1 /\ event[e].used \in Nat
  BY <1>1, EventIs DEF WayFits
<1>3. DOMAIN event[e].draft = {} /\ event[e].fresh = {}
  BY <1>1 DEF DraftFits, FreshFits, Writing, AtEvent
<1>4. PICK at \in {"quiet", "guarded", "look"} :
        /\ event' = [event EXCEPT ![e].at = at] /\ guards \subseteq guards' /\ guards' \subseteq 1 .. Len(Thresholds)
        /\ \A m \in guards' : m \in guards \/ (at = "look" /\ Highest(m, event[e].used))
        /\ (at = "guarded" => \E m \in guards' : Highest(m, event[e].used))
  <2>. DEFINE crossed == Crossed(event[e].used)
              mark == CHOOSE i \in crossed : \A j \in crossed : j <= i
  <2>1. guards \subseteq 1 .. Len(Thresholds)
    BY <1>1 DEF NoticeShape
  <2>2. CASE crossed = {}
    BY <2>1, <2>2 DEF Guard
  <2>3. CASE crossed # {}
    <3>1. \E m \in crossed : Highest(m, event[e].used)
      BY <1>2, <2>3, HighestExists
    <3>2. Highest(mark, event[e].used)
      BY <3>1 DEF Highest
    <3>3. mark \in 1 .. Len(Thresholds)
      BY <3>2 DEF Highest, Crossed
    <3>4. \/ mark \in guards /\ event' = [event EXCEPT ![e].at = "guarded"] /\ UNCHANGED guards
          \/ mark \notin guards /\ event' = [event EXCEPT ![e].at = "look"] /\ guards' = guards \union {mark}
      BY <2>3 DEF Guard
    <3>. HIDE DEF mark, crossed
    <3>. QED  BY <2>1, <3>2, <3>3, <3>4
  <2>. QED  BY <2>2, <2>3
<1>5. /\ event[e] \in EventRow /\ DOMAIN event = Events /\ event \in [Events -> EventRow]
  BY <1>1 DEF NoticeShape
<1>6. /\ event'[e].at = at /\ event'[e].kind = event[e].kind /\ event'[e].used = event[e].used
      /\ event'[e].to = event[e].to /\ event'[e].next = event[e].next
      /\ event'[e].draft = event[e].draft /\ event'[e].fresh = event[e].fresh
      /\ event' \in [Events -> EventRow] /\ \A f \in Events : f # e => event'[f] = event[f]
  BY <1>4, <1>5 DEF EventRow, EventPlaces
<1>7. Move(e)
  BY <1>1, <1>2, <1>4, <1>6 DEF Move, AlikeFor, Kind, AtEvent, Marked
<1>8. NoticeShape'
  BY <1>1, <1>4, <1>6 DEF NoticeShape
<1>9. DraftFits(e)' /\ FreshFits(e)'
  BY <1>3, <1>6 DEF DraftFits, FreshFits
<1>10. WayFits(e)'
  <2>1. (AtEvent(e, "guarded") => Kind(e) = "quota" /\ \E m \in guards : Highest(m, event[e].used))'
    BY <1>2, <1>4, <1>6 DEF AtEvent, Kind, Highest, Crossed
  <2>2. \A i \in 1 .. Len(Recipients(e)') : ~(i < event'[e].next)
    BY <1>2, <1>6
  <2>. QED  BY <1>4, <1>6, <2>1, <2>2 DEF WayFits, AtEvent, Writing
<1>11. ~Ended(e) /\ ~Ended(e)' /\ \A f \in Events : Untouched(f)
  BY <1>1, <1>4, <1>6 DEF Ended, AtEvent, Untouched
<1>. QED  BY <1>1, <1>7, <1>8, <1>9, <1>10, <1>11, QuietMove

(* A step of an event: where it comes to, and what it has then.            *)
Onto(e, at, next, draft, fresh) ==
  /\ event'[e].at = at /\ event'[e].next = next /\ event'[e].draft = draft /\ event'[e].fresh = fresh
  /\ event'[e].kind = event[e].kind /\ event'[e].used = event[e].used /\ event'[e].to = event[e].to
  /\ event' \in [Events -> EventRow] /\ \A f \in Events : f # e => event'[f] = event[f]
LEMMA OntoFrom ==
  ASSUME NoticeShape, NEW e \in Events, NEW at \in EventPlaces, NEW next \in Nat \ {0}, NEW draft \in Drafts,
         NEW fresh \in SUBSET Cells,
         event' = [event EXCEPT ![e].at = at, ![e].next = next, ![e].draft = draft, ![e].fresh = fresh]
  PROVE  Onto(e, at, next, draft, fresh)
<1>1. event \in [Events -> EventRow] /\ event[e] \in EventRow
  BY EventIs DEF NoticeShape
<1>. QED  BY <1>1 DEF EventRow, Onto

LEMMA OntoOf ==
  ASSUME NoticeShape, NEW e \in Events, NEW at \in EventPlaces
  PROVE  /\ event' = [event EXCEPT ![e].at = at] => Onto(e, at, event[e].next, event[e].draft, event[e].fresh)
         /\ \A draft \in Drafts : Onward(e, draft) => Onto(e, "look", event[e].next + 1, draft, event[e].fresh)
<1>1. /\ event \in [Events -> EventRow] /\ event[e] \in EventRow
      /\ event[e].next \in Nat \ {0} /\ event[e].next + 1 \in Nat \ {0}
  BY EventIs DEF NoticeShape
<1>2. ASSUME event' = [event EXCEPT ![e].at = at]
      PROVE  Onto(e, at, event[e].next, event[e].draft, event[e].fresh)
  BY <1>1, <1>2 DEF EventRow, Onto
<1>3. ASSUME NEW draft \in Drafts, Onward(e, draft)
      PROVE  Onto(e, "look", event[e].next + 1, draft, event[e].fresh)
  BY <1>1, <1>3 DEF EventRow, Onto, Onward, EventPlaces
<1>. QED  BY <1>2, <1>3

(* A step of a transaction: what it has written it has locked, what it has *)
(* created was not there, and it leaves no row behind that it has not told.*)
Passes(e) ==
  \/ Recipient(e) \in DOMAIN event'[e].draft
  \/ Kind(e) = "quota" /\ rows[Recipient(e)] # Absent
Wrote(e, r) ==
  /\ lock'[r] = e /\ event'[e].draft[r].count > 0
  /\ (r \in DOMAIN event[e].draft \/ (Ongoing(e) /\ r = Recipient(e)))
  /\ (Kind(e) = "ready" => event'[e].draft[r].count = rows[r].count + 1)
Creates(e, r) ==
  \/ r \in event[e].fresh
  \/ r \in DOMAIN event'[e].draft /\ rows[r] = Absent /\ \A f \in Events : f # e => r \notin event[f].fresh
LEMMA WriteMove ==
  ASSUME NoticesInv, NEW e \in Events, Writing(e), NEW at \in {"look", "insert"},
         NEW next \in {event[e].next, event[e].next + 1}, NEW draft, NEW fresh, Onto(e, at, next, draft, fresh),
         UNCHANGED <<rows, guards, mails, mailed, again, inbox, slips>>, lock' \in [Cells -> Events \union {0}],
         \A f \in Events : f # e => Untouched(f),
         at = "insert" => next = event[e].next /\ Ongoing(e), next = event[e].next + 1 => Passes(e),
         DOMAIN event[e].draft \subseteq DOMAIN draft, \A r \in DOMAIN draft : Wrote(e, r),
         \A r \in fresh : Creates(e, r)
  PROVE  NoticesInv'
<1>1. /\ NoticeShape /\ DraftFits(e) /\ WayFits(e) /\ FreshFits(e)
      /\ event[e].next \in Nat \ {0} /\ event[e].draft \in Drafts
  BY InvParts, EventIs
<1>2. Move(e)
  BY <1>1 DEF Move, Onto, AlikeFor, Kind, Marked, Creates, Writing
<1>3. NoticeShape'
  BY <1>1 DEF NoticeShape, Onto
<1>4. /\ Recipients(e)' = Recipients(e) /\ \A i \in 1 .. Len(Recipients(e)) : Recipients(e)[i] \in Cells
      /\ Len(Recipients(e)) \in Nat
  BY <1>1, <1>2, MovesAlike, RecipientsAre
<1>5. Writing(e)' /\ Kind(e)' = Kind(e) /\ event'[e].draft = draft /\ event'[e].next = next /\ event'[e].at = at
      /\ event'[e].fresh = fresh
  BY DEF Writing, Kind, Onto
<1>6. Ongoing(e) => Recipient(e) = Recipients(e)[event[e].next] /\ event[e].next \in 1 .. Len(Recipients(e))
  BY <1>1, <1>4 DEF Ongoing, Recipient
<1>7. DraftFits(e)'
  <2>1. ASSUME NEW r \in DOMAIN draft
        PROVE  /\ lock'[r] = e /\ draft[r].count > 0 /\ \E i \in 1 .. Len(Recipients(e)) : Recipients(e)[i] = r
               /\ (Kind(e) = "ready" => draft[r].count = rows'[r].count + 1)
    BY <1>1, <1>5, <1>6 DEF Wrote, DraftFits
  <2>. QED  BY <1>4, <1>5, <2>1 DEF DraftFits
<1>8. FreshFits(e)'
  <2>1. ASSUME NEW r \in fresh  PROVE r \in DOMAIN draft /\ rows'[r] = Absent
    BY <1>1, <1>5 DEF Creates, FreshFits, Writing
  <2>. QED  BY <1>5, <2>1 DEF FreshFits, Absent
<1>9. WayFits(e)'
  <2>1. ASSUME NEW i \in 1 .. Len(Recipients(e)), i < next  PROVE Passed(e, i)'
    <3>1. CASE i < event[e].next
      <4>1. Passed(e, i)
        BY <1>1, <3>1 DEF WayFits
      <4>. QED  BY <1>4, <1>5, <4>1 DEF Passed, Absent
    <3>2. CASE ~(i < event[e].next)
      <4>1. i = event[e].next /\ next = event[e].next + 1
        BY <1>1, <2>1, <3>2
      <4>2. Passes(e) /\ Recipient(e) = Recipients(e)[i]
        BY <4>1 DEF Recipient
      <4>. QED  BY <1>4, <1>5, <4>2 DEF Passed, Passes, Absent
    <3>. QED  BY <3>1, <3>2
  <2>2. AtEvent(e, "insert")' => Ongoing(e)'
    BY <1>4, <1>5 DEF AtEvent, Ongoing
  <2>. QED  BY <1>4, <1>5, <2>1, <2>2 DEF WayFits, AtEvent
<1>10. ~Ended(e) /\ ~Ended(e)'
  BY <1>5 DEF Ended, Writing
<1>. QED  BY <1>2, <1>3, <1>7, <1>8, <1>9, <1>10, QuietMove

(* Who is not there is not passed, and what is there is.                   *)
LEMMA LookOnceKeeps ==
  ASSUME NoticesInv, NEW e \in Events, LookOnce(e)  PROVE NoticesInv'
<1>1. /\ AtEvent(e, "look") /\ Kind(e) = "quota" /\ Ongoing(e) /\ Writing(e)
      /\ NoticeShape /\ DraftFits(e) /\ event[e].draft \in Drafts
      /\ UNCHANGED <<rows, lock, guards, mails, mailed, again, inbox, slips>>
  BY InvParts, EventIs DEF LookOnce, AtEvent, Writing
<1>2. lock' \in [Cells -> Events \union {0}] /\ \A f \in Events : Untouched(f)
  BY <1>1 DEF NoticeShape, Untouched
<1>3. ASSUME event'[e].draft = event[e].draft, NEW r \in DOMAIN event[e].draft  PROVE Wrote(e, r)
  BY <1>1, <1>3 DEF Wrote, DraftFits
<1>4. \A r \in event[e].fresh : Creates(e, r)
  BY DEF Creates
<1>5. CASE rows[Recipient(e)] # Absent
  <2>1. Onto(e, "look", event[e].next + 1, event[e].draft, event[e].fresh)
    BY <1>1, <1>5, OntoOf DEF LookOnce, EventPlaces
  <2>2. Passes(e) /\ event'[e].draft = event[e].draft
    BY <1>1, <1>5, <2>1 DEF Passes, Onto
  <2>. QED  BY <1>1, <1>2, <1>3, <1>4, <2>1, <2>2, WriteMove
<1>6. CASE ~(rows[Recipient(e)] # Absent)
  <2>1. Onto(e, "insert", event[e].next, event[e].draft, event[e].fresh)
    BY <1>1, <1>6, OntoOf DEF LookOnce, EventPlaces
  <2>2. event'[e].draft = event[e].draft /\ event[e].next # event[e].next + 1
    BY <1>1, <2>1, EventIs DEF Onto
  <2>. QED  BY <1>1, <1>2, <1>3, <1>4, <2>1, <2>2, WriteMove
<1>. QED  BY <1>5, <1>6
-----------------------------------------------------------------------------
LEMMA CollapsedIs ==
  ASSUME NEW w \in NoteRow
  PROVE  Collapsed(w) \in NoteRow /\ Collapsed(w).count = w.count + 1 /\ Collapsed(w).count > 0
<1>0. w.count \in Nat
  BY DEF NoteRow
<1>4. PICK n \in Nat : n = w.count + 1 /\ n > 0
  BY <1>0
<1>1. PICK t \in BOOLEAN : t = TRUE
  OBVIOUS
<1>2. Collapsed(w) = [w EXCEPT !.count = n, !.unread = t]
  BY <1>4, <1>1 DEF Collapsed
<1>3. [w EXCEPT !.count = n, !.unread = t] \in NoteRow /\ [w EXCEPT !.count = n, !.unread = t].count = n
  BY DEF NoteRow
<1>. QED  BY <1>4, <1>2, <1>3

(* The row is locked, and one event more is counted in what it says.       *)
LEMMA LookReadyKeeps ==
  ASSUME NoticesInv, NEW e \in Events, LookReady(e)  PROVE NoticesInv'
<1>. DEFINE r == Recipient(e)
<1>1. /\ AtEvent(e, "look") /\ Kind(e) = "ready" /\ Ongoing(e) /\ Writing(e)
      /\ NoticeShape /\ DraftFits(e) /\ FreshFits(e) /\ event[e].draft \in Drafts /\ RowsFit /\ e # 0
      /\ event[e].next \in Nat /\ event[e].next # event[e].next + 1
      /\ UNCHANGED <<rows, guards, mails, mailed, again, inbox, slips>>
  BY InvParts, EventIs, NoticeNumbers DEF LookReady, AtEvent, Writing
<1>2. r \in Cells
  <2>1. event[e].next \in 1 .. Len(Recipients(e))
    BY <1>1, EventIs, RecipientsAre DEF Ongoing
  <2>. QED  BY <1>1, <2>1, RecipientsAre DEF Recipient
<1>3. \A q \in event[e].fresh : Creates(e, q)
  BY DEF Creates
<1>4. CASE rows[r] = Absent /\ event' = [event EXCEPT ![e].at = "insert"] /\ UNCHANGED lock
  <2>1. Onto(e, "insert", event[e].next, event[e].draft, event[e].fresh)
    BY <1>1, <1>4, OntoOf DEF EventPlaces
  <2>2. ASSUME NEW q \in DOMAIN event[e].draft  PROVE Wrote(e, q)
    BY <1>1, <1>4, <2>1 DEF Wrote, DraftFits, Onto
  <2>3. lock' \in [Cells -> Events \union {0}] /\ \A f \in Events : Untouched(f)
    BY <1>1, <1>4 DEF NoticeShape, Untouched
  <2>. QED  BY <1>1, <1>3, <2>1, <2>2, <2>3, WriteMove
<1>5. CASE /\ rows[r] # Absent /\ Lockable(e, r) /\ lock' = [lock EXCEPT ![r] = e]
           /\ Onward(e, Draft(e, Collapsed(rows[r])))
  <2>. DEFINE row == Collapsed(rows[r])
              draft == Draft(e, row)
  <2>1. row \in NoteRow /\ row.count = rows[r].count + 1 /\ row.count > 0
    <3>1. rows[r] \in NoteRow
      BY <1>1, <1>2 DEF NoticeShape
    <3>. QED  BY <3>1, CollapsedIs
  <2>. HIDE DEF row
  <2>2. /\ draft \in Drafts /\ DOMAIN draft = DOMAIN event[e].draft \union {r} /\ draft[r] = row
        /\ \A q \in DOMAIN event[e].draft : q # r => draft[q] = event[e].draft[q]
    BY <1>1, <1>2, <2>1, DraftGrows
  <2>3. Onward(e, draft)
    BY <1>5 DEF row
  <2>. HIDE DEF draft
  <2>4. Onto(e, "look", event[e].next + 1, draft, event[e].fresh)
    BY <1>1, <2>2, <2>3, OntoOf DEF EventPlaces
  <2>5. event'[e].draft = draft
    BY <2>4 DEF Onto
  <2>6. /\ lock' \in [Cells -> Events \union {0}] /\ \A f \in Events : f # e => Untouched(f)
        /\ lock'[r] = e /\ \A q \in Cells : q # r => lock'[q] = lock[q]
    BY <1>1, <1>2, <1>5, NoticeNumbers DEF NoticeShape, Untouched, Lockable
  <2>7. ASSUME NEW q \in DOMAIN draft  PROVE Wrote(e, q)
    <3>1. CASE q = r
      BY <1>1, <2>1, <2>2, <2>5, <2>6, <3>1 DEF Wrote
    <3>2. CASE q # r
      <4>1. q \in DOMAIN event[e].draft /\ q \in Cells
        BY <1>1, <2>2, <3>2, DraftsAre
      <4>. QED  BY <1>1, <2>2, <2>5, <2>6, <3>2, <4>1 DEF Wrote, DraftFits
    <3>. QED  BY <3>1, <3>2
  <2>8. Passes(e) /\ DOMAIN event[e].draft \subseteq DOMAIN draft
    BY <2>2, <2>5 DEF Passes
  <2>. QED  BY <1>1, <1>3, <2>4, <2>6, <2>7, <2>8, WriteMove
<1>. QED  BY <1>4, <1>5 DEF LookReady

(* One of them opens the row; the other finds it taken.                    *)
LEMMA InsertNoticeKeeps ==
  ASSUME NoticesInv, NEW e \in Events, InsertNotice(e)  PROVE NoticesInv'
<1>. DEFINE r == Recipient(e)
<1>1. /\ AtEvent(e, "insert") /\ lock[r] = 0 /\ Ongoing(e) /\ Writing(e)
      /\ NoticeShape /\ DraftFits(e) /\ FreshFits(e) /\ event[e].draft \in Drafts /\ RowsFit /\ e # 0
      /\ event[e].next \in Nat \ {0} /\ event[e].next # event[e].next + 1 /\ Kind(e) \in {"ready", "quota"}
      /\ UNCHANGED <<rows, guards, mails, mailed, again, inbox, slips>>
  BY InvParts, EventIs, NoticeNumbers DEF InsertNotice, AtEvent, Writing, WayFits
<1>2. r \in Cells
  <2>1. event[e].next \in 1 .. Len(Recipients(e))
    BY <1>1, RecipientsAre DEF Ongoing
  <2>. QED  BY <1>1, <2>1, RecipientsAre DEF Recipient
<1>3. CASE rows[r] # Absent
  <2>1. UNCHANGED lock /\ lock' \in [Cells -> Events \union {0}] /\ \A f \in Events : Untouched(f)
    BY <1>1, <1>3 DEF InsertNotice, OnTaken, NoticeShape, Untouched
  <2>2. \A q \in event[e].fresh : Creates(e, q)
    BY DEF Creates
  <2>3. ASSUME event'[e].draft = event[e].draft, NEW q \in DOMAIN event[e].draft  PROVE Wrote(e, q)
    BY <1>1, <2>1, <2>3 DEF Wrote, DraftFits
  <2>4. CASE Kind(e) = "ready"
    <3>1. Onto(e, "look", event[e].next, event[e].draft, event[e].fresh)
      BY <1>1, <1>3, <2>4, OntoOf DEF InsertNotice, OnTaken, EventPlaces
    <3>2. event'[e].draft = event[e].draft
      BY <3>1 DEF Onto
    <3>. QED  BY <1>1, <2>1, <2>2, <2>3, <3>1, <3>2, WriteMove
  <2>5. CASE Kind(e) = "quota"
    <3>1. Onto(e, "look", event[e].next + 1, event[e].draft, event[e].fresh)
      BY <1>1, <1>3, <2>5, OntoOf DEF InsertNotice, OnTaken, EventPlaces
    <3>2. event'[e].draft = event[e].draft /\ Passes(e)
      BY <1>3, <2>5, <3>1 DEF Onto, Passes
    <3>. QED  BY <1>1, <2>1, <2>2, <2>3, <3>1, <3>2, WriteMove
  <2>. QED  BY <1>1, <2>4, <2>5
<1>4. CASE rows[r] = Absent
  <2>. DEFINE row == [count |-> 1, unread |-> TRUE, by |-> e]
              draft == Draft(e, row)
              fresh == event[e].fresh \union {r}
  <2>1. row \in NoteRow /\ row.count = rows[r].count + 1 /\ row.count > 0
    BY <1>4 DEF NoteRow, Absent
  <2>2. /\ lock' = [lock EXCEPT ![r] = e]
        /\ event' = [event EXCEPT ![e].at = "look", ![e].next = event[e].next + 1, ![e].draft = draft, ![e].fresh = fresh]
    BY <1>4 DEF InsertNotice, fresh
  <2>. HIDE DEF row
  <2>3. /\ draft \in Drafts /\ DOMAIN draft = DOMAIN event[e].draft \union {r} /\ draft[r] = row
        /\ \A q \in DOMAIN event[e].draft : q # r => draft[q] = event[e].draft[q]
    BY <1>1, <1>2, <2>1, DraftGrows
  <2>. HIDE DEF draft
  <2>4. fresh \in SUBSET Cells
    BY <1>1, <1>2, EventIs
  <2>. HIDE DEF fresh
  <2>5. Onto(e, "look", event[e].next + 1, draft, fresh)
    <3>1. event[e].next + 1 \in Nat \ {0} /\ "look" \in EventPlaces
      BY <1>1 DEF EventPlaces
    <3>. DEFINE next == event[e].next + 1
    <3>2. next \in Nat \ {0}
          /\ event' = [event EXCEPT ![e].at = "look", ![e].next = next, ![e].draft = draft, ![e].fresh = fresh]
      BY <2>2, <3>1
    <3>. HIDE DEF next
    <3>3. Onto(e, "look", next, draft, fresh)
      BY <1>1, <2>3, <2>4, <3>1, <3>2, OntoFrom
    <3>. QED  BY <3>3 DEF next
  <2>6. event'[e].draft = draft
    BY <2>5 DEF Onto
  <2>7. /\ lock' \in [Cells -> Events \union {0}] /\ \A f \in Events : f # e => Untouched(f)
        /\ lock'[r] = e /\ \A q \in Cells : q # r => lock'[q] = lock[q]
    BY <1>1, <1>2, <2>2, NoticeNumbers DEF NoticeShape, Untouched
  <2>8. ASSUME NEW q \in DOMAIN draft  PROVE Wrote(e, q)
    <3>1. CASE q = r
      BY <1>1, <2>1, <2>3, <2>6, <2>7, <3>1 DEF Wrote
    <3>2. CASE q # r
      <4>1. q \in DOMAIN event[e].draft /\ q \in Cells
        BY <1>1, <2>3, <3>2, DraftsAre
      <4>. QED  BY <1>1, <2>3, <2>6, <2>7, <3>2, <4>1 DEF Wrote, DraftFits
    <3>. QED  BY <3>1, <3>2
  <2>9. Passes(e) /\ DOMAIN event[e].draft \subseteq DOMAIN draft
    BY <2>3, <2>6 DEF Passes
  <2>10. ASSUME NEW f \in Events, f # e, r \in event[f].fresh  PROVE FALSE
    <3>1. FreshFits(f) /\ DraftFits(f) /\ f # 0
      BY InvParts, NoticeNumbers
    <3>. QED  BY <1>1, <1>4, <2>10, <3>1 DEF FreshFits, DraftFits
  <2>11. \A q \in fresh : Creates(e, q)
    BY <1>4, <2>3, <2>6, <2>10 DEF Creates, fresh
  <2>. QED  BY <1>1, <2>5, <2>7, <2>8, <2>9, <2>11, WriteMove
<1>. QED  BY <1>3, <1>4
-----------------------------------------------------------------------------
(* Nothing is left of what is undone.                                      *)
LEMMA UndoKeeps ==
  ASSUME NoticesInv, NEW e \in Events, Undo(e)  PROVE NoticesInv'
<1>1. /\ Writing(e) /\ NoticeShape /\ slips + 1 \in Nat /\ lock' = Unlocked(e)
      /\ event' = [event EXCEPT ![e].at = "lost", ![e].next = event[e].next, ![e].draft = <<>>, ![e].fresh = {}]
      /\ UNCHANGED <<rows, guards, mails, mailed, again, inbox>> /\ slips' = slips + 1
  <2>1. NoticeShape
    BY InvParts
  <2>2. event \in [Events -> EventRow] /\ event[e] \in EventRow /\ slips \in Nat
    BY <2>1 DEF NoticeShape
  <2>3. event' = [event EXCEPT ![e].at = "lost", ![e].next = event[e].next, ![e].draft = <<>>, ![e].fresh = {}]
    BY <2>2 DEF Undo, EventRow
  <2>4. UNCHANGED <<rows, guards, mails, mailed, again, inbox>> /\ slips' = slips + 1 /\ lock' = Unlocked(e) /\ Writing(e)
    BY DEF Undo, Writing
  <2>5. slips + 1 \in Nat
    BY <2>2
  <2>. QED  BY <2>1, <2>3, <2>4, <2>5
<1>2. <<>> \in Drafts /\ DOMAIN <<>> = {} /\ {} \in SUBSET Cells /\ event[e].next \in Nat \ {0} /\ "lost" \in EventPlaces
  BY <1>1, DraftsAre, EventIs DEF EventPlaces
<1>3. Onto(e, "lost", event[e].next, <<>>, {})
  BY <1>1, <1>2, OntoFrom
<1>4. Move(e)
  BY <1>1, <1>3 DEF Move, Onto, AlikeFor, Kind, Marked
<1>5. lock' \in [Cells -> Events \union {0}] /\ \A f \in Events : f # e => Untouched(f)
  BY <1>1, NoticeNumbers DEF NoticeShape, Unlocked, Untouched
<1>6. NoticeShape'
  BY <1>1, <1>3, <1>5 DEF NoticeShape, Onto
<1>7. DraftFits(e)' /\ FreshFits(e)' /\ WayFits(e)'
  BY <1>2, <1>3 DEF DraftFits, FreshFits, WayFits, Onto, Writing, AtEvent
<1>8. ~Ended(e) /\ ~Ended(e)'
  BY <1>1, <1>3 DEF Ended, Writing, Onto
<1>. QED  BY <1>1, <1>4, <1>5, <1>6, <1>7, <1>8, QuietMove

(* What is committed is what was written, in the rows that were locked.    *)
LEMMA CommitIs ==
  ASSUME NoticesInv, NEW e \in Events, Commit(e)
  PROVE  /\ NoticeShape /\ DraftFits(e) /\ WayFits(e) /\ FreshFits(e) /\ RowsFit /\ e # 0
         /\ Writing(e) /\ event[e].at = "look"
         /\ Onto(e, "flush", event[e].next, <<>>, event[e].fresh) /\ Move(e)
         /\ UNCHANGED <<guards, mails, mailed, again, inbox, slips>>
         /\ lock' \in [Cells -> Events \union {0}] /\ rows' \in [Cells -> NoteRow]
         /\ \A r \in Cells : rows'[r] = IF r \in DOMAIN event[e].draft THEN event[e].draft[r] ELSE rows[r]
         /\ \A r \in DOMAIN event[e].draft : r \in Cells /\ rows'[r].count > 0 /\ rows'[r] # Absent
         /\ \A f \in Events : f # e => Untouched(f)
         /\ Kept /\ \A i \in 1 .. Len(Recipients(e)) : Passed(e, i)
<1>1. /\ NoticeShape /\ DraftFits(e) /\ WayFits(e) /\ FreshFits(e) /\ RowsFit /\ e # 0
      /\ Writing(e) /\ event[e].at = "look" /\ event[e].next \in Nat \ {0}
      /\ event[e].draft \in Drafts /\ event[e].fresh \in SUBSET Cells
      /\ UNCHANGED <<guards, mails, mailed, again, inbox, slips>>
  BY InvParts, EventIs, NoticeNumbers DEF Commit, AtEvent, Writing
<1>2. event' = [event EXCEPT ![e].at = "flush", ![e].next = event[e].next, ![e].draft = <<>>, ![e].fresh = event[e].fresh]
  <2>1. event \in [Events -> EventRow] /\ event[e] \in EventRow
    BY <1>1 DEF NoticeShape
  <2>. QED  BY <2>1 DEF Commit, EventRow
<1>3. <<>> \in Drafts /\ "flush" \in EventPlaces
  BY DraftsAre DEF EventPlaces
<1>4. Onto(e, "flush", event[e].next, <<>>, event[e].fresh)
  BY <1>1, <1>2, <1>3, OntoFrom
<1>5. Move(e)
  BY <1>1, <1>4 DEF Move, Onto, AlikeFor, Kind, Marked
<1>6. \A r \in DOMAIN event[e].draft : r \in Cells /\ event[e].draft[r] \in NoteRow /\ event[e].draft[r].count > 0 /\ lock[r] = e
  BY <1>1, DraftsAre DEF DraftFits
<1>7. /\ rows' \in [Cells -> NoteRow]
      /\ \A r \in Cells : rows'[r] = IF r \in DOMAIN event[e].draft THEN event[e].draft[r] ELSE rows[r]
  BY <1>1, <1>6 DEF Commit, NoticeShape
<1>8. \A r \in DOMAIN event[e].draft : r \in Cells /\ rows'[r].count > 0 /\ rows'[r] # Absent
  BY <1>6, <1>7 DEF Absent
<1>9. Kept
  BY <1>7, <1>8 DEF Kept
<1>10. lock' \in [Cells -> Events \union {0}] /\ \A f \in Events : f # e => Untouched(f)
  BY <1>1, <1>6, <1>7, NoticeNumbers DEF Commit, NoticeShape, Unlocked, Untouched
<1>11. ASSUME NEW i \in 1 .. Len(Recipients(e))  PROVE Passed(e, i)
  <2>1. i < event[e].next
    BY <1>1, RecipientsAre DEF Commit, Ongoing
  <2>. QED  BY <1>1, <2>1 DEF WayFits
<1>. QED  BY <1>1, <1>4, <1>5, <1>7, <1>8, <1>9, <1>10, <1>11

(* The count of a row goes up by one just where one document more is in.   *)
ReadyFor(u) == {e \in Events : Told(e) /\ Kind(e) = "ready" /\ \E i \in 1 .. Len(event[e].to) : event[e].to[i] = u}
LEMMA CommitCounts ==
  ASSUME NoticesInv, NEW e \in Events, Commit(e)  PROVE EveryDocumentCounts'
<1>1. /\ NoticeShape /\ DraftFits(e) /\ Onto(e, "flush", event[e].next, <<>>, event[e].fresh) /\ Move(e)
      /\ event[e].at = "look" /\ \A i \in 1 .. Len(Recipients(e)) : Passed(e, i)
      /\ \A r \in Cells : rows'[r] = IF r \in DOMAIN event[e].draft THEN event[e].draft[r] ELSE rows[r]
  BY CommitIs
<1>2. \A f \in Events : AlikeFor(f) /\ (f # e => (Told(f)' <=> Told(f)))
  BY <1>1, MovesAlike DEF Told, Move
<1>3. ~Told(e) /\ Told(e)' /\ Kind(e) \in {"ready", "quota"}
  BY <1>1, EventIs DEF Told, Onto
<1>4. ASSUME NEW u \in People  PROVE rows'[<<u, Bucket>>].count = Cardinality(ReadyFor(u)')
  <2>. DEFINE r == <<u, Bucket>>
  <2>1. r \in Cells
    BY DEF Cells, Keys
  <2>2. rows[r].count = Cardinality(ReadyFor(u)) /\ IsFiniteSet(ReadyFor(u))
    <3>1. ReadyFor(u) \subseteq Events
      BY DEF ReadyFor
    <3>. QED  BY <3>1, InvParts, NoticeNumbers, FS_Subset DEF EveryDocumentCounts, ReadyFor
  <2>3. CASE Kind(e) = "ready" /\ \E j \in 1 .. Len(event[e].to) : event[e].to[j] = u
    <3>7. PICK j \in 1 .. Len(event[e].to) : event[e].to[j] = u
      BY <2>3
    <3>6. \E i \in 1 .. Len(Recipients(e)) : Recipients(e)[i] = <<event[e].to[j], Bucket>>
      BY <1>1, <2>3, RecipientsAre
    <3>1. PICK i \in 1 .. Len(Recipients(e)) : Recipients(e)[i] = r
      BY <3>7, <3>6
    <3>2. r \in DOMAIN event[e].draft
      BY <1>1, <2>3, <3>1 DEF Passed
    <3>3. rows'[r].count = rows[r].count + 1
      BY <1>1, <2>1, <2>3, <3>2 DEF DraftFits
    <3>4. ReadyFor(u)' = ReadyFor(u) \union {e} /\ e \notin ReadyFor(u)
      BY <1>2, <1>3, <2>3 DEF ReadyFor, AlikeFor
    <3>5. Cardinality(ReadyFor(u) \union {e}) = Cardinality(ReadyFor(u)) + 1
      BY <2>2, <3>4, FS_AddElement
    <3>. QED  BY <2>2, <3>3, <3>4, <3>5
  <2>4. CASE ~(Kind(e) = "ready" /\ \E j \in 1 .. Len(event[e].to) : event[e].to[j] = u)
    <3>1. r \notin DOMAIN event[e].draft
      <4>1. ASSUME r \in DOMAIN event[e].draft  PROVE FALSE
        <5>1. PICK i \in 1 .. Len(Recipients(e)) : Recipients(e)[i] = r
          BY <1>1, <4>1 DEF DraftFits
        <5>2. /\ Kind(e) = "ready" <=> Recipients(e)[i][2] = Bucket
              /\ \E j \in 1 .. Len(event[e].to) : Recipients(e)[i][1] = event[e].to[j]
          BY <1>1, RecipientsAre
        <5>3. Recipients(e)[i][1] = u /\ Recipients(e)[i][2] = Bucket
          BY <5>1
        <5>. QED  BY <2>4, <5>2, <5>3
      <4>. QED  BY <4>1
    <3>2. ReadyFor(u)' = ReadyFor(u)
      BY <1>2, <1>3, <2>4 DEF ReadyFor, AlikeFor
    <3>. QED  BY <1>1, <2>1, <2>2, <3>1, <3>2
  <2>. QED  BY <2>3, <2>4
<1>. QED  BY <1>4 DEF EveryDocumentCounts, ReadyFor, Bucket

LEMMA CommitKeeps ==
  ASSUME NoticesInv, NEW e \in Events, Commit(e)  PROVE NoticesInv'
<1>1. /\ NoticeShape /\ DraftFits(e) /\ WayFits(e) /\ FreshFits(e) /\ RowsFit
      /\ Writing(e) /\ event[e].at = "look"
      /\ Onto(e, "flush", event[e].next, <<>>, event[e].fresh) /\ Move(e)
      /\ UNCHANGED <<guards, mails, mailed, again, inbox, slips>>
      /\ lock' \in [Cells -> Events \union {0}] /\ rows' \in [Cells -> NoteRow]
      /\ \A f \in Events : f # e => Untouched(f)
      /\ Kept
  BY CommitIs
<1>2. /\ \A r \in Cells : rows'[r] = IF r \in DOMAIN event[e].draft THEN event[e].draft[r] ELSE rows[r]
      /\ \A r \in DOMAIN event[e].draft : r \in Cells /\ rows'[r].count > 0 /\ rows'[r] # Absent
      /\ \A i \in 1 .. Len(Recipients(e)) : Passed(e, i)
  BY CommitIs
<1>3. NoticeShape'
  BY <1>1 DEF NoticeShape, Onto
<1>4. DraftFits(e)'
  BY <1>1, DraftsAre DEF DraftFits, Onto
<1>5. FreshFits(e)'
  BY <1>1, <1>2 DEF FreshFits, Onto, Absent
<1>6. WayFits(e)'
  <2>1. Recipients(e)' = Recipients(e) /\ \A i \in 1 .. Len(Recipients(e)) : Recipients(e)[i] \in Cells
    BY <1>1, MovesAlike, RecipientsAre
  <2>2. \A i \in 1 .. Len(Recipients(e)) : rows'[Recipients(e)[i]] # Absent
    BY <1>1, <1>2, <2>1 DEF Passed, Kept
  <2>. QED  BY <1>1, <2>1, <2>2 DEF WayFits, Onto, AtEvent, Writing, Absent
<1>7. EventsFit' /\ SamePeople' /\ FreshApart' /\ GuardsFit'
  BY <1>1, <1>4, <1>5, <1>6, EventMoves
<1>8. RowsFit'
  BY <1>1, <1>2 DEF RowsFit, Absent
<1>9. \A f \in Events : AtEvent(f, "done") => event'[f].at = "done" /\ Kind(f)' = Kind(f) /\ event'[f].fresh = event[f].fresh
  BY <1>1 DEF AtEvent, Onto, Kind
<1>10. MailsFit'
  BY <1>1, <1>9, InvParts, MailsKeep
<1>11. EveryDocumentCounts'
  BY CommitCounts
<1>. QED  BY <1>3, <1>7, <1>8, <1>10, <1>11 DEF NoticesInv
-----------------------------------------------------------------------------
(* A row has one message only: who has opened it has one to send.          *)
LEMMA FlushKeeps ==
  ASSUME NoticesInv, NEW e \in Events, Flush(e)  PROVE NoticesInv'
<1>1. /\ NoticeShape /\ DraftFits(e) /\ WayFits(e) /\ FreshFits(e) /\ MailsFit /\ FreshApart /\ slips + 1 \in Nat
      /\ AtEvent(e, "flush") /\ UNCHANGED <<rows, lock, guards, mailed, again, inbox>> /\ slips' \in {slips, slips + 1}
      /\ event' = [event EXCEPT ![e].at = "done"] /\ event[e].fresh \subseteq Cells
      /\ (mails' = mails \/ mails' = mails \union {[row |-> r, tries |-> 0, sent |-> FALSE] : r \in ByMail(e)})
  BY InvParts, EventIs DEF Flush, NoticeShape
<1>2. Onto(e, "done", event[e].next, event[e].draft, event[e].fresh)
  BY <1>1, OntoOf DEF EventPlaces
<1>3. Move(e)
  BY <1>1, <1>2 DEF Move, Onto, AlikeFor, Kind, Marked
<1>4. DOMAIN event[e].draft = {}
  BY <1>1 DEF DraftFits, Writing, AtEvent
<1>5. /\ Recipients(e)' = Recipients(e) /\ \A i \in 1 .. Len(Recipients(e)) : Recipients(e)[i] \in Cells
      /\ \A f \in Events : Untouched(f) /\ AlikeFor(f)
  BY <1>1, <1>3, MovesAlike, RecipientsAre DEF Untouched
<1>6. DraftFits(e)' /\ FreshFits(e)'
  BY <1>1, <1>2, <1>4 DEF DraftFits, FreshFits, Onto, AtEvent, Writing, Absent
<1>7. WayFits(e)'
  BY <1>1, <1>2, <1>5 DEF WayFits, Onto, AtEvent, Writing, Kind, Absent
<1>8. EventsFit' /\ SamePeople' /\ FreshApart' /\ GuardsFit'
  BY <1>1, <1>3, <1>5, <1>6, <1>7, EventMoves DEF Kept
<1>9. RowsFit'
  BY <1>1, InvParts DEF RowsFit, Absent
<1>10. \A f \in Events : Told(f)' <=> Told(f)
  BY <1>1, <1>2 DEF Told, Onto, AtEvent
<1>11. EveryDocumentCounts'
  BY <1>1, <1>5, <1>10, InvParts, CountsKeep
<1>12. \A m \in mails' : m \in mails \/ (Kind(e) = "quota" /\ m.row \in event[e].fresh /\ m = [row |-> m.row, tries |-> 0, sent |-> FALSE])
  BY <1>1 DEF ByMail
<1>13. NoticeShape'
  <2>1. ASSUME NEW m \in mails'  PROVE m \in MailRow
    <3>1. CASE m \in mails
      BY <1>1, <3>1 DEF NoticeShape
    <3>2. CASE m \notin mails
      <4>1. PICK no \in BOOLEAN, r \in Cells : no = FALSE /\ r = m.row
        BY <1>1, <1>12, <3>2
      <4>2. m = [row |-> r, tries |-> 0, sent |-> no]
        BY <1>12, <3>2, <4>1
      <4>. QED  BY <4>2 DEF MailRow
    <3>. QED  BY <3>1, <3>2
  <2>. QED  BY <1>1, <1>2, <2>1 DEF NoticeShape, Onto
<1>14. \A r : Flushed(r) => Flushed(r)'
  BY <1>2, <1>5 DEF Flushed, AtEvent, Onto, AlikeFor
<1>15. \A r \in event[e].fresh : r \in Cells /\ ~Flushed(r)
  BY <1>1 DEF Flushed, FreshApart, AtEvent
<1>16. ASSUME NEW r \in event[e].fresh, Kind(e) = "quota"  PROVE Flushed(r)'
  BY <1>2, <1>5, <1>16 DEF Flushed, AtEvent, Onto, AlikeFor
<1>17. MailsFit'
  <2>4. \A r \in Cells : ~Flushed(r) => mailed[r] <= again[r]
    <3>1. ASSUME NEW r \in Cells, ~Flushed(r)  PROVE mailed[r] <= again[r]
      <4>1. mailed[r] \in Nat /\ again[r] \in Nat /\ ~(mailed[r] > 0)
        BY <1>1, <3>1 DEF NoticeShape, MailsFit
      <4>. QED  BY <4>1
    <3>. QED  BY <3>1
  <2>1. ASSUME NEW m \in mails'  PROVE Flushed(m.row)' /\ (m.sent \/ mailed'[m.row] <= again'[m.row])
    <3>1. CASE m \in mails
      BY <1>1, <1>14, <3>1 DEF MailsFit
    <3>2. CASE m \notin mails
      <4>1. Kind(e) = "quota" /\ m.row \in event[e].fresh
        BY <1>12, <3>2
      <4>. QED  BY <1>1, <1>15, <1>16, <2>4, <4>1
    <3>. QED  BY <3>1, <3>2
  <2>2. ASSUME NEW m \in mails', NEW n \in mails', m.row = n.row  PROVE m = n
    <3>1. \A w \in mails : Flushed(w.row)
      BY <1>1 DEF MailsFit
    <3>2. CASE m \in mails /\ n \in mails
      BY <1>1, <2>2, <3>2 DEF MailsFit
    <3>3. CASE ~(m \in mails /\ n \in mails)
      BY <1>12, <1>15, <2>2, <3>1, <3>3
    <3>. QED  BY <3>2, <3>3
  <2>3. \A r \in Cells : mailed'[r] <= 1 + again'[r] /\ (mailed'[r] > 0 => Flushed(r)')
    BY <1>1, <1>14 DEF MailsFit
  <2>. QED  BY <2>1, <2>2, <2>3 DEF MailsFit
<1>. QED  BY <1>8, <1>9, <1>11, <1>13, <1>17 DEF NoticesInv

(* Where no event moves, and no row that is locked or comes or goes.       *)
LEMMA StillKeeps ==
  ASSUME NoticesInv, UNCHANGED <<event, guards>>, \A f \in Events : Untouched(f), Kept,
         \A u \in People : rows'[<<u, Bucket>>].count = rows[<<u, Bucket>>].count
  PROVE  EventsFit' /\ SamePeople' /\ FreshApart' /\ GuardsFit' /\ EveryDocumentCounts'
<1>1. ASSUME NEW f \in Events
      PROVE  DraftFits(f)' /\ WayFits(f)' /\ FreshFits(f)' /\ AlikeFor(f) /\ (Told(f)' <=> Told(f))
  <2>1. AlikeFor(f) /\ Recipients(f)' = Recipients(f) /\ (Told(f)' <=> Told(f))
    BY DEF AlikeFor, Recipients, Kind, Reached, Told
  <2>2. NoticeShape /\ DraftFits(f) /\ WayFits(f) /\ FreshFits(f) /\ Untouched(f) /\ event'[f] = event[f]
    BY InvParts
  <2>. QED  BY <2>1, <2>2, EventKeeps
<1>2. EventsFit' /\ EveryDocumentCounts'
  BY <1>1, InvParts, CountsKeep DEF EventsFit
<1>3. SamePeople' /\ FreshApart' /\ GuardsFit'
  BY InvParts DEF SamePeople, FreshApart, GuardsFit, Kind, Highest, Crossed
<1>. QED  BY <1>2, <1>3

(* A message goes, or comes back as one of the same row: the mails that    *)
(* have gone out are one more, at most, than the times it came back.       *)
LEMMA MessageKeeps ==
  ASSUME NoticesInv, NEW m \in mails, UNCHANGED <<rows, lock, event, guards, inbox>>, slips' \in Nat,
         NEW rest \in SUBSET MailRow, mails' = (mails \ {m}) \union rest,
         \A n \in rest : n.row = m.row /\ \A w \in rest : w = n,
         mailed' \in [Cells -> Nat], again' \in [Cells -> Nat],
         \A r \in Cells : r # m.row => mailed'[r] = mailed[r] /\ again'[r] = again[r],
         mailed'[m.row] <= 1 + again'[m.row],
         \A n \in rest : n.sent \/ mailed'[m.row] <= again'[m.row]
  PROVE  NoticesInv'
<1>1. NoticeShape /\ MailsFit /\ RowsFit
  BY InvParts
<1>2. EventsFit' /\ SamePeople' /\ FreshApart' /\ GuardsFit' /\ EveryDocumentCounts'
  BY StillKeeps DEF Untouched, Kept
<1>3. RowsFit'
  BY <1>1 DEF RowsFit, Absent
<1>4. \A r : Flushed(r)' <=> Flushed(r)
  BY DEF Flushed, AtEvent, Kind
<1>5. m.row \in Cells /\ Flushed(m.row) /\ \A n \in mails : n.row = m.row => n = m
  BY <1>1 DEF NoticeShape, MailRow, MailsFit
<1>6. \A n \in mails' : (n \in mails /\ n # m /\ n.row \in Cells /\ n.row # m.row) \/ n \in rest
  BY <1>1, <1>5 DEF NoticeShape, MailRow
<1>7. NoticeShape'
  BY <1>1 DEF NoticeShape
<1>8. \A n \in mails' : Flushed(n.row)' /\ (n.sent \/ mailed'[n.row] <= again'[n.row])
  BY <1>1, <1>4, <1>5, <1>6 DEF MailsFit
<1>9. \A n, w \in mails' : n.row = w.row => n = w
  BY <1>1, <1>6 DEF MailsFit
<1>10. \A r \in Cells : mailed'[r] <= 1 + again'[r] /\ (mailed'[r] > 0 => Flushed(r)')
  BY <1>1, <1>4, <1>5 DEF MailsFit
<1>. QED  BY <1>2, <1>3, <1>7, <1>8, <1>9, <1>10 DEF NoticesInv, MailsFit

LEMMA MessageIs ==
  ASSUME NoticesInv, NEW m \in mails
  PROVE  /\ NoticeShape /\ m \in MailRow /\ m.row \in Cells /\ m.tries \in Nat /\ m.sent \in BOOLEAN
         /\ slips \in Nat /\ mailed[m.row] \in Nat /\ again[m.row] \in Nat
         /\ mailed[m.row] <= 1 + again[m.row] /\ (m.sent \/ mailed[m.row] <= again[m.row])
<1>1. NoticeShape /\ MailsFit
  BY InvParts
<1>2. m \in MailRow
  BY <1>1 DEF NoticeShape
<1>3. m.row \in Cells /\ m.tries \in Nat /\ m.sent \in BOOLEAN
  BY <1>2 DEF MailRow
<1>. QED  BY <1>1, <1>2, <1>3 DEF NoticeShape, MailsFit

LEMMA SendMailKeeps ==
  ASSUME NoticesInv, NEW m \in mails, SendMail(m)  PROVE NoticesInv'
<1>1. /\ ~m.sent /\ mails' = (mails \ {m}) \union {[m EXCEPT !.sent = TRUE]}
      /\ mailed' = [mailed EXCEPT ![m.row] = mailed[m.row] + 1]
      /\ UNCHANGED <<rows, lock, event, guards, again, inbox, slips>>
  BY DEF SendMail
<1>2. /\ NoticeShape /\ m \in MailRow /\ m.row \in Cells /\ slips \in Nat
      /\ mailed[m.row] \in Nat /\ again[m.row] \in Nat /\ (m.sent \/ mailed[m.row] <= again[m.row])
  BY MessageIs
<1>3. PICK n \in MailRow : n = [m EXCEPT !.sent = TRUE] /\ n.row = m.row /\ n.sent = TRUE
  <2>1. PICK yes \in BOOLEAN : yes = TRUE
    OBVIOUS
  <2>2. [m EXCEPT !.sent = yes] \in MailRow /\ [m EXCEPT !.sent = yes].row = m.row
        /\ [m EXCEPT !.sent = yes].sent = yes
    BY <1>2 DEF MailRow
  <2>. QED  BY <2>1, <2>2
<1>4. /\ mailed' \in [Cells -> Nat] /\ mailed'[m.row] = mailed[m.row] + 1
      /\ again' \in [Cells -> Nat] /\ again'[m.row] = again[m.row]
      /\ \A r \in Cells : r # m.row => mailed'[r] = mailed[r] /\ again'[r] = again[r]
  BY <1>1, <1>2 DEF NoticeShape
<1>5. mailed'[m.row] <= 1 + again'[m.row]
  BY <1>1, <1>2, <1>4
<1>6. PICK rest \in SUBSET MailRow : rest = {n}
  OBVIOUS
<1>7. mails' = (mails \ {m}) \union rest /\ slips' \in Nat
  BY <1>1, <1>2, <1>3, <1>6
<1>8. \A w \in rest : w.row = m.row /\ \A v \in rest : v = w
  BY <1>3, <1>6
<1>9. \A w \in rest : w.sent \/ mailed'[m.row] <= again'[m.row]
  BY <1>3, <1>6
<1>. QED  BY <1>1, <1>4, <1>5, <1>7, <1>8, <1>9, MessageKeeps

LEMMA AcknowledgeKeeps ==
  ASSUME NoticesInv, NEW m \in mails, Acknowledge(m)  PROVE NoticesInv'
<1>1. mails' = mails \ {m} /\ UNCHANGED <<rows, lock, event, guards, mailed, again, inbox, slips>>
  BY DEF Acknowledge
<1>2. /\ NoticeShape /\ slips \in Nat /\ mailed[m.row] <= 1 + again[m.row]
  BY MessageIs
<1>3. mailed' \in [Cells -> Nat] /\ again' \in [Cells -> Nat] /\ slips' \in Nat
  BY <1>1, <1>2 DEF NoticeShape
<1>4. {} \in SUBSET MailRow /\ mails' = (mails \ {m}) \union {}
  BY <1>1
<1>. QED  BY <1>1, <1>2, <1>3, <1>4, MessageKeeps

(* A message that comes back is counted when the server had the mail.      *)
LEMMA BackKeeps ==
  ASSUME NoticesInv, NEW m \in mails, NEW message \in SUBSET MailRow, Back(m, message),
         \A n \in message : n.row = m.row /\ \A w \in message : w = n
  PROVE  NoticesInv'
<1>1. /\ slips' = slips + 1 /\ mails' = (mails \ {m}) \union message
      /\ again' = (IF m.sent THEN [again EXCEPT ![m.row] = again[m.row] + 1] ELSE again)
      /\ UNCHANGED <<rows, lock, event, guards, mailed, inbox>>
  BY DEF Back
<1>2. /\ NoticeShape /\ m.row \in Cells /\ slips \in Nat /\ m.sent \in BOOLEAN
      /\ mailed[m.row] \in Nat /\ again[m.row] \in Nat
      /\ mailed[m.row] <= 1 + again[m.row] /\ (m.sent \/ mailed[m.row] <= again[m.row])
  BY MessageIs
<1>3. /\ again' \in [Cells -> Nat] /\ mailed' \in [Cells -> Nat] /\ mailed'[m.row] = mailed[m.row]
      /\ \A r \in Cells : r # m.row => mailed'[r] = mailed[r] /\ again'[r] = again[r]
  BY <1>1, <1>2 DEF NoticeShape
<1>4. mailed'[m.row] <= again'[m.row] /\ again'[m.row] \in Nat
  <2>1. CASE m.sent
    <3>1. again'[m.row] = again[m.row] + 1
      BY <1>1, <1>2, <2>1 DEF NoticeShape
    <3>. QED  BY <1>2, <1>3, <3>1
  <2>2. CASE ~m.sent
    <3>1. again'[m.row] = again[m.row] /\ mailed[m.row] <= again[m.row]
      BY <1>1, <1>2, <2>2
    <3>. QED  BY <1>2, <1>3, <3>1
  <2>. QED  BY <2>1, <2>2
<1>5. mailed'[m.row] <= 1 + again'[m.row] /\ slips' \in Nat
  BY <1>1, <1>2, <1>3, <1>4
<1>. QED  BY <1>1, <1>3, <1>4, <1>5, MessageKeeps

LEMMA MailFailsKeeps ==
  ASSUME NoticesInv, NEW m \in mails, MailFails(m)  PROVE NoticesInv'
<1>1. m \in MailRow /\ m.tries + 1 \in Nat
  BY MessageIs
<1>2. PICK n \in MailRow : n = [m EXCEPT !.tries = m.tries + 1, !.sent = FALSE] /\ n.row = m.row
  <2>1. PICK no \in BOOLEAN, k \in Nat : no = FALSE /\ k = m.tries + 1
    BY <1>1
  <2>2. [m EXCEPT !.tries = k, !.sent = no] \in MailRow /\ [m EXCEPT !.tries = k, !.sent = no].row = m.row
    BY <1>1 DEF MailRow
  <2>. QED  BY <2>1, <2>2
<1>3. PICK message \in SUBSET MailRow : message = IF m.tries < 2 THEN {n} ELSE {}
  OBVIOUS
<1>4. Back(m, message)
  BY <1>2, <1>3 DEF MailFails
<1>5. \A w \in message : w.row = m.row /\ \A v \in message : v = w
  BY <1>2, <1>3
<1>. QED  BY <1>4, <1>5, BackKeeps

LEMMA MailRedeliveredKeeps ==
  ASSUME NoticesInv, NEW m \in mails, MailRedelivered(m)  PROVE NoticesInv'
<1>1. m \in MailRow
  BY MessageIs
<1>2. PICK n \in MailRow : n = [m EXCEPT !.sent = FALSE] /\ n.row = m.row
  <2>1. PICK no \in BOOLEAN : no = FALSE
    OBVIOUS
  <2>2. [m EXCEPT !.sent = no] \in MailRow /\ [m EXCEPT !.sent = no].row = m.row
    BY <1>1 DEF MailRow
  <2>. QED  BY <2>1, <2>2
<1>3. Back(m, {n}) /\ {n} \in SUBSET MailRow
  BY <1>2 DEF MailRedelivered
<1>. QED  BY <1>2, <1>3, BackKeeps

(* Who reads counts, and marks what nobody is writing.                     *)
LEMMA UnreadIsFinite ==
  ASSUME NEW u  PROVE UnreadOf(u) \subseteq Keys /\ Cardinality(UnreadOf(u)) \in Nat
<1>1. UnreadOf(u) \subseteq Keys
  BY DEF UnreadOf
<1>. QED  BY <1>1, KeysAreFinite, FS_Subset, FS_CardinalityType

LEMMA ReadingKeeps ==
  ASSUME NoticesInv, ListInbox \/ CountUnread  PROVE NoticesInv'
<1>1. /\ NoticeShape /\ MailsFit /\ RowsFit /\ UNCHANGED <<rows, lock, event, guards, mails, mailed, again, slips>>
  BY InvParts DEF ListInbox, CountUnread
<1>2. EventsFit' /\ SamePeople' /\ FreshApart' /\ GuardsFit' /\ EveryDocumentCounts'
  BY <1>1, StillKeeps DEF Untouched, Kept
<1>3. RowsFit' /\ MailsFit'
  BY <1>1, MailsKeep DEF RowsFit, Absent, AtEvent, Kind
<1>4. CASE ListInbox
  <2>1. PICK u \in People : inbox' = [at |-> "count", who |-> u, listed |-> UnreadOf(u), unread |-> 0]
    BY <1>4 DEF ListInbox
  <2>2. NoticeShape'
    BY <1>1, <2>1, UnreadIsFinite DEF NoticeShape
  <2>. QED  BY <1>2, <1>3, <2>2 DEF NoticesInv
<1>5. CASE CountUnread
  <2>1. PICK n \in Nat : n = Cardinality(UnreadOf(inbox.who))
    BY UnreadIsFinite
  <2>2. inbox' = [inbox EXCEPT !.at = "shown", !.unread = n] /\ inbox.at # "choose"
    BY <1>5, <2>1 DEF CountUnread
  <2>3. NoticeShape'
    BY <1>1, <2>2 DEF NoticeShape
  <2>. QED  BY <1>2, <1>3, <2>3 DEF NoticesInv
<1>. QED  BY <1>4, <1>5

LEMMA MarkReadKeeps ==
  ASSUME NoticesInv, MarkRead  PROVE NoticesInv'
<1>1. /\ NoticeShape /\ MailsFit /\ RowsFit /\ inbox.at = "shown" /\ inbox.who \in People
      /\ UNCHANGED <<lock, event, guards, mails, mailed, again, slips>>
  BY InvParts DEF MarkRead, NoticeShape
<1>2. PICK k \in inbox.listed :
        /\ lock[<<inbox.who, k>>] = 0 /\ rows' = [rows EXCEPT ![<<inbox.who, k>>].unread = FALSE]
        /\ inbox' = [inbox EXCEPT !.listed = @ \ {k}, !.unread = 0]
  BY DEF MarkRead
<1>. DEFINE r == <<inbox.who, k>>
<1>3. r \in Cells /\ lock[r] = 0
  BY <1>1, <1>2 DEF NoticeShape, Cells
<1>. HIDE DEF r
<1>4. PICK no \in BOOLEAN : no = FALSE
  OBVIOUS
<1>5. rows' = [rows EXCEPT ![r].unread = no]
  BY <1>2, <1>4 DEF r
<1>6. /\ rows' \in [Cells -> NoteRow] /\ \A q \in Cells : q # r => rows'[q] = rows[q]
      /\ rows'[r].count = rows[r].count /\ rows'[r].by = rows[r].by /\ rows'[r].unread = no
  BY <1>1, <1>3, <1>5 DEF NoticeShape, NoteRow
<1>7. \A q \in Cells : rows'[q].count = rows[q].count
  BY <1>6
<1>8. rows[r] = Absent => rows'[r] = Absent
  BY <1>1, <1>3, <1>4, <1>6 DEF NoticeShape, NoteRow, Absent
<1>9. Kept /\ RowsFit'
  BY <1>1, <1>6, <1>7, <1>8 DEF Kept, RowsFit, Absent
<1>10. \A f \in Events : Untouched(f)
  BY <1>1, <1>3, <1>6, NoticeNumbers DEF Untouched
<1>11. \A u \in People : <<u, Bucket>> \in Cells
  BY DEF Cells, Keys
<1>12. EventsFit' /\ SamePeople' /\ FreshApart' /\ GuardsFit' /\ EveryDocumentCounts'
  BY <1>1, <1>7, <1>9, <1>10, <1>11, StillKeeps
<1>13. MailsFit'
  BY <1>1, MailsKeep DEF AtEvent, Kind
<1>14. NoticeShape'
  BY <1>1, <1>2, <1>6 DEF NoticeShape
<1>. QED  BY <1>9, <1>12, <1>13, <1>14 DEF NoticesInv
-----------------------------------------------------------------------------
LEMMA NoticesStart == NoticesInit => NoticesInv
<1>. SUFFICES ASSUME NoticesInit  PROVE NoticesInv
  OBVIOUS
<1>1. /\ rows = [r \in People \X Keys |-> Absent] /\ lock = [r \in People \X Keys |-> 0]
      /\ guards = {} /\ mails = {} /\ mailed = [r \in People \X Keys |-> 0]
      /\ again = [r \in People \X Keys |-> 0] /\ slips = 0
      /\ inbox = [at |-> "choose", who |-> 0, listed |-> {}, unread |-> 0]
  BY DEF NoticesInit, NoticesBegin
<1>2. PICK plan \in EventPlans :
        event = [e \in Events |->
          [at |-> IF plan[e].kind = "quota" THEN "guard" ELSE "look",
           kind |-> plan[e].kind, used |-> plan[e].used, to |-> plan[e].to,
           next |-> 1, draft |-> <<>>, fresh |-> {}]]
  BY DEF NoticesInit, NoticesBegin
<1>3. \A e, f \in Events :
        /\ plan[e].kind \in {"ready", "quota"} /\ plan[e].used \in Nat /\ plan[e].to \in Seq(People)
        /\ (plan[e].kind = "quota" /\ plan[f].kind = "quota" => plan[e].to = plan[f].to)
  BY NoticesAssumption
<1>4. \A e \in Events :
        /\ event[e] \in EventRow /\ event[e].at = (IF plan[e].kind = "quota" THEN "guard" ELSE "look")
        /\ Kind(e) = plan[e].kind /\ event[e].to = plan[e].to /\ event[e].next = 1
        /\ event[e].draft = <<>> /\ event[e].fresh = {}
  <2>. TAKE e \in Events
  <2>1. <<>> \in Drafts /\ {} \in SUBSET Cells /\ 1 \in Nat \ {0} /\ "guard" \in EventPlaces /\ "look" \in EventPlaces
    BY DraftsAre DEF EventPlaces
  <2>2. event[e] = [at |-> IF plan[e].kind = "quota" THEN "guard" ELSE "look",
                    kind |-> plan[e].kind, used |-> plan[e].used, to |-> plan[e].to,
                    next |-> 1, draft |-> <<>>, fresh |-> {}]
    BY <1>2
  <2>. QED  BY <1>3, <2>1, <2>2 DEF EventRow, Kind
<1>5. NoticeShape
  <2>1. Absent \in NoteRow
    BY DEF Absent, NoteRow
  <2>. QED  BY <1>1, <1>2, <1>4, <2>1 DEF NoticeShape, Cells
<1>6. ASSUME NEW e \in Events  PROVE DraftFits(e) /\ WayFits(e) /\ FreshFits(e)
  <2>1. DOMAIN event[e].draft = {}
    BY <1>4, DraftsAre
  <2>2. \A i \in 1 .. Len(Recipients(e)) : ~(i < event[e].next)
    BY <1>4
  <2>. QED  BY <1>4, <2>1, <2>2 DEF DraftFits, WayFits, FreshFits, AtEvent
<1>7. SamePeople /\ FreshApart
  BY <1>3, <1>4 DEF SamePeople, FreshApart
<1>8. GuardsFit /\ MailsFit /\ RowsFit
  BY <1>1 DEF GuardsFit, MailsFit, RowsFit, Cells
<1>9. EveryDocumentCounts
  <2>1. ASSUME NEW u \in People  PROVE rows[<<u, Bucket>>].count = Cardinality(ReadyFor(u))
    <3>1. ReadyFor(u) = {}
      BY <1>4 DEF Told, ReadyFor
    <3>2. rows[<<u, Bucket>>] = Absent
      BY <1>1 DEF Keys
    <3>3. Cardinality(ReadyFor(u)) = 0
      BY <3>1, FS_EmptySet
    <3>. QED  BY <3>2, <3>3 DEF Absent
  <2>. QED  BY <2>1 DEF EveryDocumentCounts, ReadyFor
<1>. QED  BY <1>5, <1>6, <1>7, <1>8, <1>9 DEF NoticesInv, EventsFit

LEMMA NoticesStep == NoticesInv /\ [NoticesNext]_noticesVars => NoticesInv'
<1>. SUFFICES ASSUME NoticesInv, [NoticesNext]_noticesVars  PROVE NoticesInv'
  OBVIOUS
<1>1. ASSUME NEW e \in Events,
             Guard(e) \/ LookOnce(e) \/ LookReady(e) \/ InsertNotice(e) \/ Commit(e) \/ Undo(e) \/ Flush(e)
      PROVE  NoticesInv'
  BY <1>1, GuardKeeps, LookOnceKeeps, LookReadyKeeps, InsertNoticeKeeps, CommitKeeps, UndoKeeps, FlushKeeps
<1>2. ASSUME NEW m \in mails, SendMail(m) \/ Acknowledge(m) \/ MailFails(m) \/ MailRedelivered(m)
      PROVE  NoticesInv'
  BY <1>2, SendMailKeeps, AcknowledgeKeeps, MailFailsKeeps, MailRedeliveredKeeps
<1>3. CASE ListInbox \/ CountUnread
  BY <1>3, ReadingKeeps
<1>4. CASE MarkRead
  BY <1>4, MarkReadKeeps
<1>5. CASE UNCHANGED noticesVars
  <2>1. UNCHANGED <<rows, lock, event, guards, mails, mailed, again, inbox, slips>>
    BY <1>5 DEF noticesVars
  <2>2. EventsFit' /\ SamePeople' /\ FreshApart' /\ GuardsFit' /\ EveryDocumentCounts'
    BY <2>1, StillKeeps DEF Untouched, Kept
  <2>3. MailsFit' /\ RowsFit' /\ NoticeShape'
    BY <2>1, InvParts, MailsKeep DEF AtEvent, Kind, RowsFit, Absent, NoticeShape
  <2>. QED  BY <2>2, <2>3 DEF NoticesInv
<1>. QED  BY <1>1, <1>2, <1>3, <1>4, <1>5 DEF NoticesNext

(* Who has left it to another is told by him; a row has one message, and   *)
(* as many mails more as that came back.                                   *)
LEMMA NoticesSay == NoticesInv => NoticesAreTold
<1>. SUFFICES ASSUME NoticesInv  PROVE NoticesAreTold
  OBVIOUS
<1>1. /\ NoticeShape /\ SamePeople /\ GuardsFit /\ MailsFit /\ EveryDocumentCounts
      /\ \A f \in Events : WayFits(f) /\ FreshFits(f)
  BY InvParts
<1>2. ThresholdsAreTold
  <2>. SUFFICES ASSUME NEW e \in Events, Kind(e) = "quota", event[e].at \in {"guarded", "done"},
                       \A f \in Events : event[f].at \in EventEnds \ {"lost"},
                       NEW i \in Crossed(event[e].used), NEW j \in 1 .. Len(event[e].to)
                PROVE  rows[<<event[e].to[j], Thresholds[i]>>] # Absent
    BY DEF ThresholdsAreTold
  <2>1. PICK f \in Events : AtEvent(f, "done") /\ Kind(f) = "quota" /\ i \in Crossed(event[f].used)
    <3>1. CASE event[e].at = "done"
      BY <3>1 DEF AtEvent
    <3>2. CASE event[e].at = "guarded"
      <4>1. PICK m \in guards : Highest(m, event[e].used)
        BY <1>1, <3>2 DEF WayFits, AtEvent
      <4>2. PICK f \in Events :
              /\ Kind(f) = "quota" /\ event[f].at \in {"look", "insert", "flush", "lost", "done"}
              /\ Highest(m, event[f].used)
        BY <1>1 DEF GuardsFit
      <4>3. event[f].at = "done" /\ event[e].used \in Nat /\ event[f].used \in Nat
        BY <1>1, <4>2, EventIs DEF EventEnds
      <4>4. Crossed(event[f].used) = Crossed(event[e].used)
        BY <4>1, <4>2, <4>3, HighestTells
      <4>. QED  BY <4>2, <4>3, <4>4 DEF AtEvent
    <3>. QED  BY <3>1, <3>2
  <2>2. event[f].to = event[e].to
    BY <1>1, <2>1 DEF SamePeople
  <2>3. \E k \in 1 .. Len(Recipients(f)) : Recipients(f)[k] = <<event[f].to[j], Thresholds[i]>>
    BY <1>1, <2>1, <2>2, RecipientsAre
  <2>4. \A k \in 1 .. Len(Recipients(f)) : rows[Recipients(f)[k]] # Absent
    BY <1>1, <2>1 DEF WayFits, AtEvent
  <2>. QED  BY <2>2, <2>3, <2>4
<1>3. MailedOnce
  <2>. SUFFICES ASSUME NEW r \in Cells
                PROVE  /\ Cardinality({m \in mails : m.row = r /\ ~m.sent}) + mailed[r] <= 1 + again[r]
                       /\ Cardinality({m \in mails : m.row = r}) <= 1
                       /\ (\E m \in mails : m.row = r) \/ mailed[r] > 0 => rows[r] # Absent
    BY DEF MailedOnce, Cells
  <2>1. /\ mailed[r] <= 1 + again[r] /\ (mailed[r] > 0 => Flushed(r))
        /\ \A m \in mails : m.row = r => Flushed(r) /\ (m.sent \/ mailed[r] <= again[r])
    BY <1>1 DEF MailsFit
  <2>2. Flushed(r) => rows[r] # Absent
    BY <1>1 DEF Flushed, FreshFits, AtEvent, Writing
  <2>3. mailed[r] \in Nat /\ again[r] \in Nat
    BY <1>1 DEF NoticeShape
  <2>4. Cardinality({m \in mails : m.row = r}) <= 1
    <3>1. CASE {m \in mails : m.row = r} = {}
      BY <3>1, FS_EmptySet
    <3>2. CASE {m \in mails : m.row = r} # {}
      <4>1. PICK m \in mails : m.row = r
        BY <3>2
      <4>2. {n \in mails : n.row = r} = {m}
        BY <1>1, <4>1 DEF MailsFit
      <4>3. Cardinality({n \in mails : n.row = r}) = 1
        BY <4>2, FS_Singleton
      <4>. QED  BY <4>3
    <3>. QED  BY <3>1, <3>2
  <2>5. CASE {m \in mails : m.row = r /\ ~m.sent} = {}
    <3>1. Cardinality({m \in mails : m.row = r /\ ~m.sent}) = 0
      BY <2>5, FS_EmptySet
    <3>. QED  BY <2>1, <2>2, <2>3, <2>4, <3>1
  <2>6. CASE {m \in mails : m.row = r /\ ~m.sent} # {}
    <3>1. PICK m \in mails : m.row = r /\ ~m.sent
      BY <2>6
    <3>2. {n \in mails : n.row = r /\ ~n.sent} = {m}
      BY <1>1, <3>1 DEF MailsFit
    <3>3. Cardinality({n \in mails : n.row = r /\ ~n.sent}) = 1
      BY <3>2, FS_Singleton
    <3>4. mailed[r] <= again[r]
      BY <2>1, <3>1
    <3>. QED  BY <2>1, <2>2, <2>3, <2>4, <3>3, <3>4
  <2>. QED  BY <2>5, <2>6
<1>. QED  BY <1>1, <1>2, <1>3 DEF NoticesAreTold

(***************************************************************************)
(* THEOREM (NotificationService): every document is counted once in every  *)
(* row it is told in, whoever opened the row; who left a threshold to the  *)
(* one that marked it finds it told when all have ended and none was lost; *)
(* a row has one message at most, and has been mailed once, and once more  *)
(* for each time its message came back after the server had taken the      *)
(* mail -- for any number of events, people, thresholds and failures.      *)
(***************************************************************************)
NoticesSpec == NoticesInit /\ [][NoticesNext]_noticesVars
THEOREM NoticesTold == NoticesSpec => []NoticesAreTold
<1>1. NoticesInit => NoticesInv
  BY NoticesStart
<1>2. NoticesInv /\ [NoticesNext]_noticesVars => NoticesInv'
  BY NoticesStep
<1>3. NoticesInv => NoticesAreTold
  BY NoticesSay
<1>. QED  BY <1>1, <1>2, <1>3, PTL DEF NoticesSpec

-----------------------------------------------------------------------------
(***************************************************************************)
(* The chat page: the values of the variables.  Names are what an answer   *)
(* may be called, the least of some answers included.                      *)
(***************************************************************************)
Names == Ids \union {0} \union {Min(S) : S \in SUBSET Ids}
Talk == AllChats \union {None}
Listing == [of : Talk, asked : SUBSET Names, pending : SUBSET Ids, ended : SUBSET Ids]
FetchRow ==
  [no : Nat, chat : Talk, why : {"open", "done", "again"}, tab : Nat, id : Names, run : Nat, reply : Listing]
PostRow == [chat : AllChats, tab : Nat, id : Names, made : BOOLEAN]
Connection == [tab : Nat, run : Nat, id : Names, chat : Talk, next : Nat, live : BOOLEAN]
Statuses == {None, "streaming", "stopping", "error"}
BufferRow == [id : Names, chat : Talk, got : Seq(Names \X Nat), status : Statuses]
Routes == AllChats \union {"new", "away"}
ClientShape ==
  /\ moves \in 0 .. MaxMoves /\ tab \in 1 .. moves + 1 /\ newest \in Nat /\ runs \in [1 .. MaxMoves + 1 -> Nat]
  /\ page \in Routes /\ shown \in Listing
  /\ buffer \in BufferRow
  /\ fetches \subseteq FetchRow /\ posts \subseteq PostRow /\ streams \subseteq Connection

(* Whoever waits is of a page there was, and the buffer has deltas of its  *)
(* own answer, left pages or not.                                          *)
Tabs == 1 .. MaxMoves + 1
TabsFit ==
  /\ \A x \in fetches \union posts \union streams : x.tab \in Tabs
  /\ page = "away" => tab <= moves
OwnDeltas == \A n \in 1 .. Len(buffer.got) : buffer.got[n][1] = buffer.id
OwnInv == ClientShape /\ TabsFit /\ OwnDeltas

(* Until a page was left that waited: nobody waits for what an earlier     *)
(* page has begun; only the last run of a page is connected, and what it   *)
(* has heard is in the buffer.                                             *)
OfThisPage ==
  /\ \A x \in fetches \union posts \union streams : x.tab = tab
  /\ page = "away" => fetches \union posts \union streams = {}
OneConnection ==
  /\ \A k \in streams : k.run <= runs[tab] /\ (k.live <=> k.run = runs[tab])
  /\ \A k, l \in streams : k.run = l.run => k = l
HeardSoFar == \A k \in streams : k.live /\ BufferFor(k.id) => k.next = Len(buffer.got) + 1
PatientInv == OfThisPage /\ OneConnection /\ HeardSoFar /\ AnswerGrowsInOrder
ClientInv == OwnInv /\ (deserted \/ PatientInv)
-----------------------------------------------------------------------------
LEMMA ShapeParts ==
  ASSUME ClientShape
  PROVE  /\ moves \in Nat /\ MaxMoves \in Nat /\ moves <= MaxMoves /\ tab \in Nat /\ tab \in 1 .. moves + 1
         /\ tab \in Tabs /\ newest \in Nat /\ newest + 1 \in Nat /\ buffer \in BufferRow /\ shown \in Listing
         /\ page \in Routes /\ runs \in [Tabs -> Nat]
         /\ \A f \in fetches : f \in FetchRow /\ f.tab \in Nat /\ f.chat \in Talk /\ f.id \in Names
                               /\ f.run \in Nat /\ f.reply \in Listing
         /\ \A p \in posts : p \in PostRow /\ p.tab \in Nat /\ p.chat \in AllChats /\ p.id \in Names
         /\ \A k \in streams : k \in Connection /\ k.tab \in Nat /\ k.id \in Names /\ k.run \in Nat
                               /\ k.next \in Nat /\ k.chat \in Talk
<1>1. MaxMoves \in Nat
  BY ChatClientAssumption
<1>2. moves \in 0 .. MaxMoves /\ tab \in 1 .. moves + 1 /\ newest \in Nat
  BY DEF ClientShape
<1>3. /\ moves \in Nat /\ moves <= MaxMoves /\ tab \in Nat /\ tab \in Tabs /\ newest + 1 \in Nat
  BY <1>1, <1>2 DEF Tabs
<1>4. buffer \in BufferRow /\ shown \in Listing /\ page \in Routes /\ runs \in [Tabs -> Nat]
  BY DEF ClientShape, Tabs
<1>5. /\ \A f \in fetches : f \in FetchRow
      /\ \A p \in posts : p \in PostRow
      /\ \A k \in streams : k \in Connection
  BY DEF ClientShape
<1>6. \A f \in fetches : f.tab \in Nat /\ f.chat \in Talk /\ f.id \in Names /\ f.run \in Nat /\ f.reply \in Listing
  BY <1>5 DEF FetchRow
<1>7. \A p \in posts : p.tab \in Nat /\ p.chat \in AllChats /\ p.id \in Names
  BY <1>5 DEF PostRow
<1>8. \A k \in streams : k.tab \in Nat /\ k.id \in Names /\ k.run \in Nat /\ k.next \in Nat /\ k.chat \in Talk
  BY <1>5 DEF Connection
<1>. QED  BY <1>1, <1>2, <1>3, <1>4, <1>5, <1>6, <1>7, <1>8

LEMMA NamesAre ==
  /\ 0 \in Names /\ None \in Talk /\ AllChats \subseteq Talk /\ \A S \in SUBSET Ids : Min(S) \in Names
  /\ NoReply \in Listing /\ Blank \in Listing /\ NoBuffer \in BufferRow
  /\ "away" \notin AllChats
<1>1. 0 \in Names /\ None \in Talk /\ AllChats \subseteq Talk /\ \A S \in SUBSET Ids : Min(S) \in Names
  BY DEF Names, Talk
<1>2. NoReply \in Listing /\ Blank \in Listing
  BY <1>1 DEF NoReply, Blank, Listing
<1>3. NoBuffer \in BufferRow
  BY <1>1 DEF NoBuffer, BufferRow, Statuses
<1>4. "away" \notin AllChats
  BY ChatClientAssumption DEF AllChats
<1>. QED  BY <1>1, <1>2, <1>3, <1>4

(* Where nothing is heard: the buffer keeps what it has, or is cleared.    *)
Silenced ==
  \/ buffer' = buffer \/ buffer' = NoBuffer
  \/ \E s \in Statuses : buffer' = [buffer EXCEPT !.status = s]
LEMMA NothingHeard ==
  ASSUME buffer \in BufferRow, Silenced
  PROVE  /\ buffer' \in BufferRow
         /\ OwnDeltas => OwnDeltas'
         /\ OneConnection /\ HeardSoFar /\ AnswerGrowsInOrder /\ UNCHANGED <<runs, tab>>
              /\ (\A k \in streams' : k \in streams) => OneConnection' /\ HeardSoFar' /\ AnswerGrowsInOrder'
<1>1. CASE buffer' = NoBuffer
  <2>1. buffer'.id = 0 /\ Len(buffer'.got) = 0
    BY <1>1 DEF NoBuffer
  <2>. QED  BY <1>1, <2>1, NamesAre DEF OneConnection, HeardSoFar, AnswerGrowsInOrder, OwnDeltas, BufferFor
<1>2. CASE buffer' # NoBuffer
  <2>1. buffer' \in BufferRow /\ buffer'.id = buffer.id /\ buffer'.got = buffer.got
    BY <1>2 DEF Silenced, BufferRow
  <2>. QED  BY <2>1 DEF OneConnection, HeardSoFar, AnswerGrowsInOrder, OwnDeltas, BufferFor
<1>. QED  BY <1>1, <1>2

(* A step that the buffer hears nothing in, on the page that is open: who  *)
(* waits after it waits for the page of somebody who waited before it, or  *)
(* has just asked.                                                         *)
OfPage(t) == \E x \in fetches \union posts \union streams : x.tab = t
Quiet ==
  /\ Silenced /\ UNCHANGED <<runs, tab>> /\ \A k \in streams' : k \in streams
  /\ moves' \in {moves, moves + 1} /\ moves' <= MaxMoves /\ newest' \in Nat /\ shown' \in Listing
  /\ page' \in Routes /\ (page' = "away" => page = "away")
  /\ \A f \in fetches' : f \in FetchRow /\ OfPage(f.tab)
  /\ \A p \in posts' : p \in PostRow /\ (OfPage(p.tab) \/ (page # "away" /\ p.tab = tab))
LEMMA WhoWaited == /\ \A f \in fetches : OfPage(f.tab)
                   /\ \A p \in posts : OfPage(p.tab)
                   /\ \A k \in streams : OfPage(k.tab)
  BY DEF OfPage

LEMMA QuietStep ==
  ASSUME OwnInv, Quiet  PROVE OwnInv' /\ (PatientInv => PatientInv')
<1>1. /\ ClientShape /\ TabsFit /\ OwnDeltas /\ moves \in Nat /\ MaxMoves \in Nat /\ tab \in Tabs
      /\ tab \in 1 .. moves + 1 /\ tab \in Nat /\ buffer \in BufferRow
  BY ShapeParts DEF OwnInv
<1>2. buffer' \in BufferRow /\ OwnDeltas'
  BY <1>1, NothingHeard DEF Quiet
<1>3. \A t : OfPage(t) => t \in Tabs
  BY <1>1 DEF OfPage, TabsFit
<1>4. moves' \in 0 .. MaxMoves /\ tab' \in 1 .. moves' + 1 /\ moves' \in Nat /\ moves <= moves'
  <2>1. moves' \in {moves, moves + 1} /\ tab' = tab
    BY DEF Quiet
  <2>2. moves' <= MaxMoves
    BY DEF Quiet
  <2>3. moves \in Nat /\ MaxMoves \in Nat /\ tab \in Nat /\ tab \in 1 .. moves + 1
    BY <1>1
  <2>4. moves' \in Nat /\ moves <= moves' /\ moves' \in 0 .. MaxMoves
    BY <2>1, <2>2, <2>3
  <2>5. tab \in 1 .. moves' + 1
    <3>1. ASSUME NEW n \in Nat, moves <= n  PROVE tab \in 1 .. n + 1
      BY <2>3, <3>1
    <3>. QED  BY <2>4, <3>1
  <2>. QED  BY <2>1, <2>4, <2>5
<1>5. ClientShape'
  <2>1. runs' \in [1 .. MaxMoves + 1 -> Nat] /\ \A k \in streams' : k \in Connection
    BY <1>1 DEF ClientShape, Quiet
  <2>2. newest' \in Nat /\ page' \in Routes /\ shown' \in Listing
        /\ (\A f \in fetches' : f \in FetchRow) /\ \A p \in posts' : p \in PostRow
    BY DEF Quiet
  <2>. QED  BY <1>2, <1>4, <2>1, <2>2 DEF ClientShape
<1>6. TabsFit'
  <2>1. /\ \A f \in fetches' : f.tab \in Tabs
        /\ \A p \in posts' : p.tab \in Tabs
        /\ \A k \in streams' : k.tab \in Tabs
    BY <1>1, <1>3, WhoWaited DEF Quiet
  <2>2. page' = "away" => tab' <= moves'
    <3>1. ASSUME page' = "away"  PROVE tab' <= moves'
      <4>1. tab <= moves /\ tab' = tab
        BY <1>1, <3>1 DEF Quiet, TabsFit
      <4>. QED  BY <1>1, <1>4, <4>1
    <3>. QED  BY <3>1
  <2>. QED  BY <2>1, <2>2 DEF TabsFit, Tabs
<1>7. ASSUME PatientInv  PROVE PatientInv'
  <2>1. OneConnection' /\ HeardSoFar' /\ AnswerGrowsInOrder'
    BY <1>1, <1>7, NothingHeard DEF Quiet, PatientInv
  <2>2. (\A t : OfPage(t) => t = tab /\ page # "away") /\ OfThisPage
    BY <1>7 DEF OfPage, PatientInv, OfThisPage
  <2>3. /\ \A f \in fetches' : f.tab = tab /\ page # "away"
        /\ \A p \in posts' : p.tab = tab /\ page # "away"
        /\ \A k \in streams' : k.tab = tab /\ page # "away"
    BY <2>2, WhoWaited DEF Quiet
  <2>4. tab' = tab /\ (page' = "away" => page = "away")
    BY DEF Quiet
  <2>5. OfThisPage'
    BY <2>3, <2>4 DEF OfThisPage
  <2>. QED  BY <2>1, <2>5 DEF PatientInv
<1>. QED  BY <1>2, <1>5, <1>6, <1>7 DEF OwnInv

(* A new run is the only one that is connected, and the buffer is empty.   *)
LEMMA StreamStarts ==
  ASSUME ClientShape, NEW t \in Tabs, NEW id \in Names, NEW c \in Talk, Stream(t, id, c)
  PROVE  /\ buffer' \in BufferRow /\ buffer'.got = <<>> /\ Len(buffer'.got) = 0
         /\ runs' \in [1 .. MaxMoves + 1 -> Nat]
         /\ \A k \in streams' : k \in Connection /\ (k.tab = t \/ \E l \in streams : k.tab = l.tab)
         /\ (t = tab /\ UNCHANGED tab /\ OneConnection /\ (\A k \in streams : k.tab = tab))
              => OneConnection' /\ HeardSoFar'
<1>1. /\ runs \in [Tabs -> Nat] /\ runs[t] \in Nat /\ t \in Nat
      /\ \A k \in streams : k \in Connection /\ k.run \in Nat
  BY ShapeParts DEF Tabs
<1>. DEFINE run == runs[t] + 1
            new == [tab |-> t, run |-> run, id |-> id, chat |-> c, next |-> 1, live |-> TRUE]
            cut(k) == [k EXCEPT !.live = @ /\ k.tab # t]
<1>2. /\ buffer' = [id |-> id, chat |-> c, got |-> <<>>, status |-> "streaming"]
      /\ runs' = [runs EXCEPT ![t] = run]
      /\ streams' = {cut(k) : k \in streams} \union {new}
  BY DEF Stream
<1>3. run \in Nat /\ run > runs[t] /\ runs' \in [Tabs -> Nat] /\ runs'[t] = run
  BY <1>1, <1>2
<1>4. buffer' \in BufferRow /\ buffer'.got = <<>> /\ Len(buffer'.got) = 0
  BY <1>2 DEF BufferRow, Statuses
<1>. HIDE DEF run
<1>5. new \in Connection /\ new.tab = t /\ new.run = run /\ new.live /\ new.next = 1
  BY <1>1, <1>3 DEF Connection
<1>6. ASSUME NEW k \in streams
      PROVE  cut(k) \in Connection /\ cut(k).tab = k.tab /\ cut(k).run = k.run /\ (k.tab = t => ~cut(k).live)
  <2>1. PICK off \in BOOLEAN : off = (k.live /\ k.tab # t)
    OBVIOUS
  <2>2. cut(k) = [k EXCEPT !.live = off]
    BY <1>1, <2>1
  <2>3. k \in Connection
    BY <1>1
  <2>4. [k EXCEPT !.live = off] \in Connection /\ [k EXCEPT !.live = off].tab = k.tab
        /\ [k EXCEPT !.live = off].run = k.run /\ [k EXCEPT !.live = off].live = off
    BY <2>3 DEF Connection
  <2>. QED  BY <2>1, <2>2, <2>4
<1>. HIDE DEF new, cut
<1>7. \A x \in streams' : x = new \/ \E k \in streams : x = cut(k)
  BY <1>2
<1>8. \A x \in streams' : x \in Connection /\ (x.tab = t \/ \E l \in streams : x.tab = l.tab)
  BY <1>5, <1>6, <1>7
<1>9. ASSUME t = tab, UNCHANGED tab, OneConnection, \A k \in streams : k.tab = tab
      PROVE  OneConnection' /\ HeardSoFar'
  <2>1. \A k \in streams : k.run <= runs[t] /\ k.run < run /\ k.tab = t
    BY <1>1, <1>3, <1>9 DEF OneConnection
  <2>2. \A x \in streams' : x.run <= run /\ (x.live <=> x.run = run)
    <3>. TAKE x \in streams'
    <3>1. CASE x = new
      BY <1>3, <1>5, <3>1
    <3>2. CASE \E k \in streams : x = cut(k)
      <4>1. PICK k \in streams : x = cut(k)
        BY <3>2
      <4>2. x.run = k.run /\ ~x.live /\ k.run \in Nat /\ k.run < run
        BY <1>1, <1>6, <2>1, <4>1
      <4>. QED  BY <1>3, <4>2
    <3>. QED  BY <1>7, <3>1, <3>2
  <2>3. \A x, y \in streams' : x.run = y.run => x = y
    <3>. SUFFICES ASSUME NEW x \in streams', NEW y \in streams', x.run = y.run  PROVE x = y
      OBVIOUS
    <3>1. \A k \in streams : cut(k).run # run
      <4>. TAKE k \in streams
      <4>1. k.run \in Nat /\ k.run < run /\ cut(k).run = k.run
        BY <1>1, <1>6, <2>1
      <4>. QED  BY <1>3, <4>1
    <3>2. CASE x = new \/ y = new
      BY <1>5, <1>7, <3>1, <3>2
    <3>3. CASE ~(x = new \/ y = new)
      <4>1. PICK k \in streams : x = cut(k)
        BY <1>7, <3>3
      <4>2. PICK l \in streams : y = cut(l)
        BY <1>7, <3>3
      <4>3. k = l
        BY <1>6, <1>9, <4>1, <4>2 DEF OneConnection
      <4>. QED  BY <4>1, <4>2, <4>3
    <3>. QED  BY <3>2, <3>3
  <2>4. OneConnection'
    BY <1>3, <1>9, <2>2, <2>3 DEF OneConnection
  <2>5. HeardSoFar'
    <3>1. \A x \in streams' : x.live => x.next = 1
      BY <1>5, <1>6, <1>7, <2>1
    <3>. QED  BY <1>4, <3>1 DEF HeardSoFar
  <2>. QED  BY <2>1, <2>4, <2>5
<1>. QED  BY <1>3, <1>4, <1>8, <1>9 DEF Tabs

(* A step that begins a run, for a page that waited for it.                *)
LEMMA RunBegins ==
  ASSUME OwnInv, NEW x \in fetches \union posts, NEW id \in Names, NEW c \in Talk, Stream(x.tab, id, c),
         UNCHANGED <<tab, page, moves, newest>>, shown' \in Listing,
         fetches' \subseteq fetches, posts' \subseteq posts
  PROVE  OwnInv' /\ (PatientInv => PatientInv')
<1>1. ClientShape /\ TabsFit /\ x.tab \in Tabs
  BY DEF OwnInv, TabsFit
<1>. DEFINE t == x.tab
<1>2. t \in Tabs /\ Stream(t, id, c)
  BY <1>1
<1>. HIDE DEF t
<1>3. /\ buffer' \in BufferRow /\ buffer'.got = <<>> /\ Len(buffer'.got) = 0
      /\ runs' \in [1 .. MaxMoves + 1 -> Nat]
      /\ \A k \in streams' : k \in Connection /\ (k.tab = t \/ \E l \in streams : k.tab = l.tab)
      /\ (t = tab /\ UNCHANGED tab /\ OneConnection /\ (\A k \in streams : k.tab = tab))
           => OneConnection' /\ HeardSoFar'
  BY <1>1, <1>2, StreamStarts
<1>4. ClientShape'
  BY <1>1, <1>3 DEF ClientShape
<1>5. TabsFit'
  BY <1>1, <1>2, <1>3 DEF TabsFit, Tabs
<1>6. OwnDeltas'
  BY <1>3 DEF OwnDeltas
<1>7. ASSUME PatientInv  PROVE PatientInv'
  <2>1. t = tab /\ (\A k \in streams : k.tab = tab) /\ OneConnection /\ page # "away" /\ OfThisPage
    BY <1>7 DEF t, PatientInv, OfThisPage
  <2>2. OfThisPage'
    BY <1>3, <2>1 DEF OfThisPage
  <2>3. AnswerGrowsInOrder'
    BY <1>3 DEF AnswerGrowsInOrder
  <2>. QED  BY <1>3, <2>1, <2>2, <2>3 DEF PatientInv
<1>. QED  BY <1>4, <1>5, <1>6, <1>7 DEF OwnInv

(* What is fetched is fetched for the page that asks.                      *)
LEMMA FetchAsks ==
  ASSUME newest \in Nat, NEW t \in Nat, NEW c \in Talk, NEW why \in {"open", "done", "again"}, NEW id \in Names,
         NEW run \in Nat, Fetch(c, why, t, id, run)
  PROVE  newest' \in Nat /\ \A f \in fetches' : f \in fetches \/ (f \in FetchRow /\ f.tab = t)
<1>1. newest + 1 \in Nat
  OBVIOUS
<1>2. FetchOf(newest + 1, c, why, t, id, run) \in FetchRow /\ FetchOf(newest + 1, c, why, t, id, run).tab = t
  BY <1>1, NamesAre DEF FetchOf, FetchRow
<1>. QED  BY <1>1, <1>2 DEF Fetch

LEMMA FinishAsks ==
  ASSUME ClientShape, NEW k \in streams, NEW why \in {"done", "again"}, Finish(k.id, why, k.tab, k.run)
  PROVE  Silenced /\ newest' \in Nat /\ \A f \in fetches' : f \in FetchRow /\ OfPage(f.tab)
<1>1. /\ newest \in Nat /\ buffer \in BufferRow /\ \A f \in fetches : f \in FetchRow
      /\ k.tab \in Nat /\ k.id \in Names /\ k.run \in Nat
  BY ShapeParts
<1>2. CASE BufferFor(k.id) /\ buffer.chat = current
  <2>1. Fetch(buffer.chat, why, k.tab, k.id, k.run) /\ UNCHANGED buffer
    BY <1>2 DEF Finish
  <2>2. buffer.chat \in Talk
    BY <1>1 DEF BufferRow
  <2>3. newest' \in Nat /\ \A f \in fetches' : f \in fetches \/ (f \in FetchRow /\ f.tab = k.tab)
    BY <1>1, <2>1, <2>2, FetchAsks
  <2>. QED  BY <1>1, <2>1, <2>3, WhoWaited DEF Silenced
<1>3. CASE ~(BufferFor(k.id) /\ buffer.chat = current)
  <2>1. buffer' \in {buffer, NoBuffer} /\ UNCHANGED <<newest, fetches>>
    BY <1>3 DEF Finish
  <2>. QED  BY <1>1, <2>1, WhoWaited DEF Silenced
<1>. QED  BY <1>2, <1>3
-----------------------------------------------------------------------------
(* The steps one by one: an invariant of every page, and one of those who  *)
(* wait, until a page is left that waited.                                 *)
LEMMA OpenChatKeeps ==
  ASSUME OwnInv, NEW c \in AllChats, OpenChat(c)  PROVE OwnInv' /\ (PatientInv => PatientInv')
<1>1. /\ page' = c /\ moves' = moves + 1 /\ moves < MaxMoves /\ Fetch(c, "open", tab', 0, 0)
      /\ tab' = (IF page = "away" THEN tab + 1 ELSE tab)
      /\ UNCHANGED <<shown, buffer, posts, runs, streams, answer>>
  BY DEF OpenChat
<1>2. /\ ClientShape /\ TabsFit /\ OwnDeltas /\ moves \in Nat /\ MaxMoves \in Nat /\ tab \in Nat
      /\ tab \in 1 .. moves + 1 /\ newest \in Nat /\ buffer \in BufferRow
      /\ c # "away" /\ c \in Talk /\ 0 \in Names /\ 0 \in Nat
  BY ShapeParts, NamesAre DEF OwnInv
<1>3. tab' \in Nat /\ tab' \in 1 .. moves' + 1 /\ moves' \in 0 .. MaxMoves /\ tab' \in Tabs
  <2>1. page = "away" => tab <= moves
    BY <1>2 DEF TabsFit
  <2>. QED  BY <1>1, <1>2, <2>1 DEF Tabs
<1>4. newest' \in Nat /\ \A f \in fetches' : f \in fetches \/ (f \in FetchRow /\ f.tab = tab')
  <2>. DEFINE t == tab'
  <2>1. t \in Nat /\ Fetch(c, "open", t, 0, 0)
    BY <1>1, <1>3
  <2>. HIDE DEF t
  <2>2. newest' \in Nat /\ \A f \in fetches' : f \in fetches \/ (f \in FetchRow /\ f.tab = t)
    BY <1>2, <2>1, FetchAsks
  <2>. QED  BY <2>2 DEF t
<1>5. ClientShape'
  BY <1>1, <1>2, <1>3, <1>4 DEF ClientShape, Routes
<1>6. TabsFit'
  BY <1>1, <1>2, <1>3, <1>4 DEF TabsFit, Tabs
<1>7. OwnDeltas'
  BY <1>1, <1>2 DEF OwnDeltas
<1>8. ASSUME PatientInv, page = "away"  PROVE PatientInv'
  <2>1. fetches = {} /\ posts = {} /\ streams = {}
    BY <1>8 DEF PatientInv, OfThisPage
  <2>2. OfThisPage' /\ OneConnection' /\ HeardSoFar'
    BY <1>1, <1>2, <1>4, <2>1 DEF OfThisPage, OneConnection, HeardSoFar
  <2>3. AnswerGrowsInOrder'
    BY <1>1, <1>8 DEF PatientInv, AnswerGrowsInOrder
  <2>. QED  BY <2>2, <2>3 DEF PatientInv
<1>9. ASSUME PatientInv, page # "away"  PROVE PatientInv'
  <2>1. tab' = tab
    BY <1>1, <1>9
  <2>2. OneConnection' /\ HeardSoFar' /\ AnswerGrowsInOrder'
    BY <1>1, <1>2, <1>9, <2>1, NothingHeard DEF Silenced, PatientInv
  <2>3. OfThisPage'
    BY <1>1, <1>2, <1>4, <1>9, <2>1 DEF OfThisPage, PatientInv
  <2>. QED  BY <2>2, <2>3 DEF PatientInv
<1>. QED  BY <1>5, <1>6, <1>7, <1>8, <1>9 DEF OwnInv

(* Who leaves a page that waits is noted; otherwise nobody waits.          *)
LEMMA LeaveKeeps ==
  ASSUME OwnInv, Leave  PROVE OwnInv' /\ (PatientInv /\ ~deserted' => PatientInv')
<1>1. /\ UNCHANGED <<tab, shown, buffer, newest, fetches, posts, runs, answer>> /\ page' = "away"
      /\ moves' = moves + 1 /\ moves < MaxMoves /\ streams' = {k \in streams : k.tab # tab}
      /\ deserted' = (deserted \/ fetches \union posts # {})
  BY DEF Leave
<1>2. /\ ClientShape /\ TabsFit /\ OwnDeltas /\ moves \in Nat /\ MaxMoves \in Nat /\ tab \in 1 .. moves + 1
  BY ShapeParts DEF OwnInv
<1>3. moves' \in 0 .. MaxMoves /\ tab' \in 1 .. moves' + 1 /\ tab' <= moves'
  BY <1>1, <1>2
<1>4. OwnInv'
  <2>1. ClientShape'
    BY <1>1, <1>2, <1>3 DEF ClientShape, Routes
  <2>2. TabsFit'
    BY <1>1, <1>2, <1>3 DEF TabsFit, Tabs
  <2>. QED  BY <1>1, <1>2, <2>1, <2>2 DEF OwnInv, OwnDeltas
<1>5. ASSUME PatientInv, ~deserted'  PROVE PatientInv'
  <2>1. fetches = {} /\ posts = {}
    BY <1>1, <1>5
  <2>2. streams' = {}
    BY <1>1, <1>5 DEF PatientInv, OfThisPage
  <2>3. OfThisPage' /\ OneConnection' /\ HeardSoFar'
    BY <1>1, <2>1, <2>2 DEF OfThisPage, OneConnection, HeardSoFar
  <2>4. AnswerGrowsInOrder'
    BY <1>1, <1>5 DEF PatientInv, AnswerGrowsInOrder
  <2>. QED  BY <2>3, <2>4 DEF PatientInv
<1>. QED  BY <1>4, <1>5

LEMMA UserIsQuiet == ASSUME ClientShape, StartNew \/ Ask \/ Stop  PROVE Quiet
<1>1. /\ moves \in Nat /\ MaxMoves \in Nat /\ moves <= MaxMoves /\ tab \in Nat /\ newest \in Nat /\ shown \in Listing
      /\ page \in Routes /\ (\A f \in fetches : f \in FetchRow /\ OfPage(f.tab))
      /\ (\A p \in posts : p \in PostRow /\ OfPage(p.tab))
  BY ShapeParts, WhoWaited
<1>2. CASE StartNew
  <2>1. /\ UNCHANGED <<tab, buffer, newest, fetches, posts, runs, streams, answer>>
        /\ page' = "new" /\ shown' \in Listing /\ moves' = moves + 1 /\ moves < MaxMoves
    BY <1>2, NamesAre DEF StartNew
  <2>. QED  BY <1>1, <2>1 DEF Quiet, Silenced, Routes
<1>3. CASE Ask
  <2>. DEFINE new == [chat |-> IF page = "new" THEN Fresh ELSE page, tab |-> tab, id |-> 0, made |-> page # "new"]
  <2>1. /\ UNCHANGED <<page, tab, shown, buffer, newest, fetches, runs, streams, answer>> /\ page # "away"
        /\ moves' = moves + 1 /\ moves < MaxMoves /\ posts' = posts \union {new}
    BY <1>3 DEF Ask
  <2>2. new \in PostRow /\ new.tab = tab
    <3>1. Fresh \in AllChats
      BY DEF AllChats
    <3>. QED  BY <1>1, <2>1, <3>1, NamesAre DEF PostRow, Routes
  <2>. HIDE DEF new
  <2>3. \A p \in posts' : p \in PostRow /\ (OfPage(p.tab) \/ (page # "away" /\ p.tab = tab))
    BY <1>1, <2>1, <2>2
  <2>. QED  BY <1>1, <2>1, <2>3 DEF Quiet, Silenced
<1>4. CASE Stop
  <2>1. /\ UNCHANGED <<page, tab, shown, newest, fetches, posts, runs, streams, answer, moves>>
        /\ buffer' = [buffer EXCEPT !.status = "stopping"]
    BY <1>4 DEF Stop
  <2>2. Silenced
    BY <2>1 DEF Silenced, Statuses
  <2>. QED  BY <1>1, <2>1, <2>2 DEF Quiet
<1>. QED  BY <1>2, <1>3, <1>4

(* Questions: the page that has asked is still there, or another is opened *)
(* for the conversation that was created.                                  *)
LEMMA PostsAreQuiet ==
  ASSUME ClientShape, NEW p \in posts, (Created(p) /\ page # "away") \/ Accept(p) \/ NotSent(p)  PROVE Quiet
<1>1. /\ moves \in Nat /\ MaxMoves \in Nat /\ moves <= MaxMoves /\ newest \in Nat /\ shown \in Listing
      /\ page \in Routes /\ (\A f \in fetches : f \in FetchRow /\ OfPage(f.tab))
      /\ (\A q \in posts : q \in PostRow /\ OfPage(q.tab)) /\ p \in PostRow /\ p.chat \in AllChats
  BY ShapeParts, WhoWaited
<1>2. CASE Created(p) /\ page # "away"
  <2>1. PICK yes \in BOOLEAN : yes = TRUE
    OBVIOUS
  <2>2. /\ UNCHANGED <<tab, shown, buffer, newest, fetches, runs, streams, answer, moves>> /\ page' = p.chat
        /\ posts' = (posts \ {p}) \union {[p EXCEPT !.made = yes]}
    BY <1>2, <2>1 DEF Created
  <2>3. [p EXCEPT !.made = yes] \in PostRow /\ [p EXCEPT !.made = yes].tab = p.tab
    BY <1>1 DEF PostRow
  <2>4. \A q \in posts' : q \in PostRow /\ OfPage(q.tab)
    BY <1>1, <2>2, <2>3
  <2>5. page' # "away" /\ page' \in Routes
    BY <1>1, <2>2, NamesAre DEF Routes
  <2>. QED  BY <1>1, <2>2, <2>4, <2>5 DEF Quiet, Silenced
<1>3. CASE Accept(p)
  <2>1. PICK i \in Names : i = Min({j \in Ids : answer[j].status = "none"})
    BY NamesAre
  <2>2. /\ UNCHANGED <<page, tab, shown, buffer, newest, fetches, runs, streams, moves>>
        /\ posts' = (posts \ {p}) \union {[p EXCEPT !.id = i]}
    BY <1>3, <2>1 DEF Accept
  <2>3. [p EXCEPT !.id = i] \in PostRow /\ [p EXCEPT !.id = i].tab = p.tab
    BY <1>1 DEF PostRow
  <2>4. \A q \in posts' : q \in PostRow /\ OfPage(q.tab)
    BY <1>1, <2>2, <2>3
  <2>. QED  BY <1>1, <2>2, <2>4 DEF Quiet, Silenced
<1>4. CASE NotSent(p)
  <2>1. /\ UNCHANGED <<page, tab, shown, buffer, newest, fetches, runs, streams, answer>>
        /\ posts' = posts \ {p} /\ moves' = moves + 1 /\ moves < MaxMoves
    BY <1>4 DEF NotSent
  <2>. QED  BY <1>1, <2>1 DEF Quiet, Silenced
<1>. QED  BY <1>2, <1>3, <1>4

LEMMA CreatedKeeps ==
  ASSUME OwnInv, NEW p \in posts, Created(p), page = "away"  PROVE OwnInv' /\ ~PatientInv
<1>1. /\ ClientShape /\ TabsFit /\ OwnDeltas /\ moves \in Nat /\ MaxMoves \in Nat /\ moves <= MaxMoves /\ tab \in Nat
      /\ newest + 1 \in Nat /\ p \in PostRow /\ p.chat \in AllChats /\ tab \in 1 .. moves + 1 /\ p.tab \in Tabs
  BY ShapeParts DEF OwnInv, TabsFit
<1>2. PICK yes \in BOOLEAN : yes = TRUE
  OBVIOUS
<1>3. /\ page' = p.chat /\ tab' = tab + 1 /\ newest' = newest + 1
      /\ posts' = (posts \ {p}) \union {[p EXCEPT !.made = yes]}
      /\ fetches' = fetches \union {FetchOf(newest + 1, p.chat, "open", tab', 0, 0)}
      /\ UNCHANGED <<shown, buffer, runs, streams, answer, moves>>
  BY <1>2 DEF Created
<1>4. [p EXCEPT !.made = yes] \in PostRow /\ [p EXCEPT !.made = yes].tab = p.tab
  BY <1>1 DEF PostRow
<1>5. tab' \in Nat /\ tab' \in 1 .. moves' + 1 /\ tab' \in Tabs
  <2>1. tab <= moves
    BY <1>1 DEF TabsFit
  <2>. QED  BY <1>1, <1>3, <2>1 DEF Tabs
<1>6. FetchOf(newest + 1, p.chat, "open", tab', 0, 0) \in FetchRow
      /\ FetchOf(newest + 1, p.chat, "open", tab', 0, 0).tab = tab'
  <2>. DEFINE t == tab'
           n == newest + 1
  <2>1. t \in Nat /\ n \in Nat /\ p.chat \in Talk
    BY <1>1, <1>5, NamesAre
  <2>. HIDE DEF t, n
  <2>2. FetchOf(n, p.chat, "open", t, 0, 0) \in FetchRow /\ FetchOf(n, p.chat, "open", t, 0, 0).tab = t
    BY <2>1, NamesAre DEF FetchOf, FetchRow
  <2>. QED  BY <2>2 DEF t, n
<1>7. page' \in Routes /\ page' # "away"
  BY <1>1, <1>3, NamesAre DEF Routes
<1>8. (\A q \in posts' : q \in PostRow /\ q.tab \in Tabs) /\ \A f \in fetches' : f \in FetchRow /\ f.tab \in Tabs
  BY <1>1, <1>3, <1>4, <1>5, <1>6, ShapeParts DEF TabsFit
<1>9. ClientShape'
  BY <1>1, <1>3, <1>5, <1>7, <1>8 DEF ClientShape
<1>10. TabsFit'
  BY <1>1, <1>3, <1>7, <1>8 DEF TabsFit, Tabs
<1>11. OwnDeltas'
  BY <1>1, <1>3 DEF OwnDeltas
<1>. QED  BY <1>9, <1>10, <1>11 DEF OwnInv, PatientInv, OfThisPage

LEMMA SendReturnsKeeps ==
  ASSUME OwnInv, NEW p \in posts, SendReturns(p)  PROVE OwnInv' /\ (PatientInv => PatientInv')
<1>1. /\ p \in PostRow /\ p.chat \in AllChats /\ p.id \in Names /\ shown \in Listing /\ p.chat \in Talk
  BY ShapeParts, NamesAre DEF OwnInv
<1>2. /\ Stream(p.tab, p.id, p.chat) /\ UNCHANGED <<page, tab, newest, fetches, moves>> /\ posts' \subseteq posts
      /\ shown' \in {shown, [shown EXCEPT !.asked = @ \union {p.id}]}
  BY DEF SendReturns
<1>3. shown' \in Listing
  BY <1>1, <1>2 DEF Listing
<1>. QED  BY <1>1, <1>2, <1>3, RunBegins
-----------------------------------------------------------------------------
(* Answers to what was fetched.                                            *)
LEMMA ReplyIsQuiet == ASSUME ClientShape, NEW f \in fetches, Reply(f)  PROVE Quiet
<1>1. /\ f \in FetchRow /\ f.chat \in Talk /\ moves <= MaxMoves /\ newest \in Nat /\ shown \in Listing
      /\ page \in Routes /\ (\A g \in fetches : g \in FetchRow /\ OfPage(g.tab))
      /\ (\A q \in posts : q \in PostRow /\ OfPage(q.tab))
  BY ShapeParts, WhoWaited
<1>2. PICK r \in Listing : r = Snapshot(f.chat)
  <2>1. \A S \in SUBSET Ids : S \subseteq Names
    BY DEF Names
  <2>. QED  BY <1>1, <2>1 DEF Snapshot, Listing
<1>3. /\ UNCHANGED <<page, tab, shown, buffer, newest, posts, runs, streams, answer, moves>>
      /\ fetches' = (fetches \ {f}) \union {[f EXCEPT !.reply = r]}
  BY <1>2 DEF Reply
<1>4. [f EXCEPT !.reply = r] \in FetchRow /\ [f EXCEPT !.reply = r].tab = f.tab
  BY <1>1 DEF FetchRow
<1>5. \A g \in fetches' : g \in FetchRow /\ OfPage(g.tab)
  BY <1>1, <1>3, <1>4
<1>. QED  BY <1>1, <1>3, <1>5 DEF Quiet, Silenced

LEMMA FetchedKeeps ==
  ASSUME OwnInv, NEW f \in fetches, Fetched(f)  PROVE OwnInv' /\ (PatientInv => PatientInv')
<1>1. /\ fetches' = fetches \ {f} /\ shown' = (IF f.no = newest THEN f.reply ELSE shown)
      /\ UNCHANGED <<page, tab, current, newest, posts, answer, moves>>
  BY DEF Fetched
<1>2. /\ ClientShape /\ f.chat \in Talk /\ f.reply \in Listing /\ shown \in Listing /\ moves <= MaxMoves
      /\ newest \in Nat /\ page \in Routes /\ (\A g \in fetches : g \in FetchRow /\ OfPage(g.tab))
      /\ (\A q \in posts : q \in PostRow /\ OfPage(q.tab))
  BY ShapeParts, WhoWaited DEF OwnInv
<1>3. shown' \in Listing /\ shown'.pending \subseteq Ids
  BY <1>1, <1>2 DEF Listing
<1>4. CASE f.why = "open" /\ shown'.pending # {}
  <2>1. PICK i \in Names : i = Min(shown'.pending)
    BY <1>3, NamesAre
  <2>2. Stream(f.tab, i, f.chat)
    BY <1>4, <2>1 DEF Fetched
  <2>. QED  BY <1>1, <1>2, <1>3, <2>2, RunBegins
<1>5. CASE ~(f.why = "open" /\ shown'.pending # {})
  <2>1. Silenced /\ UNCHANGED <<runs, streams>>
    BY <1>5 DEF Fetched, Silenced
  <2>2. Quiet
    BY <1>1, <1>2, <1>3, <2>1 DEF Quiet
  <2>. QED  BY <2>2, QuietStep
<1>. QED  BY <1>4, <1>5

LEMMA NotFetchedIsQuiet == ASSUME ClientShape, NEW f \in fetches, NotFetched(f)  PROVE Quiet
<1>1. moves' = moves + 1 /\ moves < MaxMoves /\ UNCHANGED <<page, tab, shown, posts, runs, streams, answer>>
  BY DEF NotFetched
<1>2. /\ f \in FetchRow /\ moves \in Nat /\ MaxMoves \in Nat /\ newest \in Nat /\ newest + 1 \in Nat /\ shown \in Listing
      /\ page \in Routes /\ (\A g \in fetches : g \in FetchRow /\ OfPage(g.tab))
      /\ (\A q \in posts : q \in PostRow /\ OfPage(q.tab)) /\ buffer \in BufferRow
  BY ShapeParts, WhoWaited
<1>3. Silenced /\ newest' \in Nat /\ \A g \in fetches' : g \in FetchRow /\ OfPage(g.tab)
  <2>1. CASE f.why = "done" /\ Own(f.tab, f.run) /\ BufferFor(f.id) /\ buffer.chat = current
    <3>1. PICK n \in Nat, c \in Talk, r \in Listing : n = newest + 1 /\ c = buffer.chat /\ r = NoReply
      <4>1. buffer.chat \in Talk /\ NoReply \in Listing
        BY <1>2, NamesAre DEF BufferRow
      <4>. QED  BY <1>2, <4>1
    <3>2. PICK why \in {"open", "done", "again"} : why = "again"
      OBVIOUS
    <3>. DEFINE g == [f EXCEPT !.no = n, !.why = why, !.chat = c, !.reply = r]
    <3>3. newest' = n /\ fetches' = (fetches \ {f}) \union {g} /\ UNCHANGED buffer
      BY <2>1, <3>1, <3>2 DEF NotFetched
    <3>4. g \in FetchRow /\ g.tab = f.tab
      BY <1>2 DEF FetchRow
    <3>. HIDE DEF g
    <3>. QED  BY <1>2, <3>3, <3>4 DEF Silenced
  <2>2. CASE ~(f.why = "done" /\ Own(f.tab, f.run) /\ BufferFor(f.id) /\ buffer.chat = current)
    <3>1. fetches' = fetches \ {f} /\ UNCHANGED newest
      BY <2>2 DEF NotFetched
    <3>2. buffer' \in {buffer, NoBuffer, [buffer EXCEPT !.status = "error"]}
      BY <2>2 DEF NotFetched
    <3>3. Silenced
      BY <3>2 DEF Silenced, Statuses
    <3>. QED  BY <1>2, <3>1, <3>3
  <2>. QED  BY <2>1, <2>2
<1>. QED  BY <1>1, <1>2, <1>3 DEF Quiet

LEMMA ServerIsQuiet ==
  ASSUME ClientShape, (\E i \in Ids : Write(i)) \/ (\E c \in AllChats : DeleteChat(c)) \/ (\E k \in streams : Silence(k))
  PROVE  Quiet
<1>1. /\ moves \in Nat /\ MaxMoves \in Nat /\ moves <= MaxMoves /\ newest \in Nat /\ shown \in Listing /\ Blank \in Listing
      /\ page \in Routes /\ (\A g \in fetches : g \in FetchRow /\ OfPage(g.tab))
      /\ (\A q \in posts : q \in PostRow /\ OfPage(q.tab))
  BY ShapeParts, NamesAre, WhoWaited
<1>2. CASE \E i \in Ids : Write(i)
  <2>1. UNCHANGED <<page, tab, current, shown, buffer, newest, fetches, posts, runs, streams, moves>>
    BY <1>2 DEF Write
  <2>. QED  BY <1>1, <2>1 DEF Quiet, Silenced
<1>3. CASE \E c \in AllChats : DeleteChat(c)
  <2>1. /\ UNCHANGED <<tab, newest, fetches, posts, runs, streams>> /\ page # "away" /\ moves' = moves + 1
        /\ moves < MaxMoves /\ page' \in {"new", page} /\ shown' \in {Blank, shown} /\ buffer' \in {NoBuffer, buffer}
    BY <1>3 DEF DeleteChat
  <2>. QED  BY <1>1, <2>1 DEF Quiet, Silenced, Routes
<1>4. CASE \E k \in streams : Silence(k)
  <2>1. UNCHANGED <<page, tab, shown, buffer, newest, fetches, posts, runs, moves>> /\ streams' \subseteq streams
    BY <1>4 DEF Silence
  <2>. QED  BY <1>1, <2>1 DEF Quiet, Silenced
<1>. QED  BY <1>2, <1>3, <1>4

(* What a connection says: a delta is of the answer of its connection; and *)
(* until somebody was left, only the last run writes, and where it stopped. *)
LEMMA DeltaKeeps ==
  ASSUME OwnInv, NEW k \in streams, Hear(k), k.next <= answer[k.id].made
  PROVE  OwnInv' /\ (PatientInv => PatientInv')
<1>. DEFINE on == [k EXCEPT !.next = @ + 1]
            delta == <<k.id, k.next>>
<1>1. /\ UNCHANGED <<newest, current, fetches, page, tab, shown, posts, runs, answer, moves>>
      /\ streams' = (streams \ {k}) \union (IF k.live THEN {on} ELSE {})
      /\ buffer' = IF Own(k.tab, k.run) /\ BufferFor(k.id) THEN [buffer EXCEPT !.got = Append(@, delta)] ELSE buffer
  BY DEF Hear
<1>2. /\ ClientShape /\ TabsFit /\ OwnDeltas /\ buffer \in BufferRow
      /\ k \in Connection /\ k.next \in Nat /\ k.id \in Names /\ k.tab \in Tabs
  BY ShapeParts DEF OwnInv, TabsFit
<1>3. /\ on \in Connection /\ on.tab = k.tab /\ on.run = k.run /\ on.next = k.next + 1 /\ on.id = k.id
      /\ on.live = k.live
  <2>1. PICK n \in Nat : n = k.next + 1
    BY <1>2
  <2>2. on = [k EXCEPT !.next = n]
    BY <2>1
  <2>3. [k EXCEPT !.next = n] \in Connection /\ [k EXCEPT !.next = n].tab = k.tab /\ [k EXCEPT !.next = n].run = k.run
        /\ [k EXCEPT !.next = n].next = n /\ [k EXCEPT !.next = n].id = k.id /\ [k EXCEPT !.next = n].live = k.live
    BY <1>2 DEF Connection
  <2>. QED  BY <2>1, <2>2, <2>3
<1>. HIDE DEF on
<1>4. \A l \in streams' : l = on \/ l \in streams
  BY <1>1
<1>5. \A l \in streams' : l \in Connection /\ l.tab \in Tabs
  BY <1>2, <1>3, <1>4, ShapeParts DEF TabsFit
<1>6. /\ buffer' \in BufferRow /\ buffer'.id = buffer.id
      /\ \/ buffer'.got = buffer.got /\ (~Own(k.tab, k.run) \/ ~BufferFor(k.id))
         \/ /\ buffer.id = k.id /\ Own(k.tab, k.run) /\ BufferFor(k.id)
            /\ Len(buffer'.got) = Len(buffer.got) + 1 /\ Len(buffer.got) \in Nat
            /\ buffer'.got[Len(buffer.got) + 1] = delta
            /\ \A n \in 1 .. Len(buffer.got) : buffer'.got[n] = buffer.got[n]
  <2>1. CASE Own(k.tab, k.run) /\ BufferFor(k.id)
    <3>1. delta \in Names \X Nat /\ buffer.got \in Seq(Names \X Nat) /\ buffer.id = k.id
      BY <1>2, <2>1 DEF BufferRow, BufferFor
    <3>. HIDE DEF delta
    <3>2. PICK got \in Seq(Names \X Nat) : got = Append(buffer.got, delta)
      BY <3>1, AppendProperties
    <3>3. buffer' = [buffer EXCEPT !.got = got]
      BY <1>1, <2>1, <3>2
    <3>4. buffer' \in BufferRow /\ buffer'.got = got /\ buffer'.id = buffer.id
      BY <1>2, <3>3 DEF BufferRow
    <3>5. Len(got) = Len(buffer.got) + 1 /\ Len(buffer.got) \in Nat /\ got[Len(buffer.got) + 1] = delta
          /\ \A n \in 1 .. Len(buffer.got) : got[n] = buffer.got[n]
      BY <3>1, <3>2, AppendProperties, LenProperties
    <3>. QED  BY <2>1, <3>1, <3>4, <3>5
  <2>2. CASE ~(Own(k.tab, k.run) /\ BufferFor(k.id))
    <3>1. buffer' = buffer
      BY <1>1, <2>2
    <3>. QED  BY <1>2, <2>2, <3>1
  <2>. QED  BY <2>1, <2>2
<1>7. OwnDeltas'
  <2>1. ASSUME NEW n \in 1 .. Len(buffer'.got)  PROVE buffer'.got[n][1] = buffer'.id
    <3>1. CASE buffer'.got = buffer.got
      BY <1>2, <1>6, <3>1 DEF OwnDeltas
    <3>2. CASE buffer'.got # buffer.got /\ n = Len(buffer.got) + 1
      BY <1>6, <3>2
    <3>3. CASE buffer'.got # buffer.got /\ n # Len(buffer.got) + 1
      <4>1. n \in 1 .. Len(buffer.got) /\ buffer'.got[n] = buffer.got[n]
        BY <1>6, <3>3
      <4>. QED  BY <1>2, <1>6, <4>1 DEF OwnDeltas
    <3>. QED  BY <3>1, <3>2, <3>3
  <2>. QED  BY <2>1 DEF OwnDeltas
<1>8. ClientShape' /\ TabsFit'
  BY <1>1, <1>2, <1>5, <1>6 DEF ClientShape, TabsFit, Tabs
<1>9. ASSUME PatientInv  PROVE PatientInv'
  <2>1. /\ OfThisPage /\ OneConnection /\ HeardSoFar /\ AnswerGrowsInOrder /\ page # "away"
        /\ k.tab = tab /\ (k.live <=> Own(k.tab, k.run))
    BY <1>9 DEF PatientInv, OfThisPage, OneConnection, Own
  <2>2. OfThisPage'
    BY <1>1, <1>3, <1>4, <2>1 DEF OfThisPage
  <2>3. OneConnection'
    BY <1>1, <1>3, <1>4, <2>1 DEF OneConnection
  <2>4. CASE ~k.live
    <3>1. buffer' = buffer /\ streams' \subseteq streams
      BY <1>1, <2>1, <2>4
    <3>2. HeardSoFar' /\ AnswerGrowsInOrder'
      BY <2>1, <3>1 DEF HeardSoFar, AnswerGrowsInOrder, BufferFor
    <3>. QED  BY <2>2, <2>3, <3>2 DEF PatientInv
  <2>5. CASE k.live
    <3>1. \A l \in streams' : l = on \/ ~l.live
      BY <1>1, <2>1, <2>5 DEF OneConnection
    <3>2. k.next = Len(buffer.got) + 1 \/ ~BufferFor(k.id)
      BY <2>1, <2>5 DEF HeardSoFar
    <3>3. (BufferFor(on.id)' => on.next = Len(buffer'.got) + 1) /\ AnswerGrowsInOrder'
      <4>1. CASE BufferFor(k.id)
        <5>1. /\ buffer.id = k.id /\ Len(buffer'.got) = Len(buffer.got) + 1 /\ Len(buffer.got) \in Nat
              /\ buffer'.got[Len(buffer.got) + 1] = delta /\ k.next = Len(buffer.got) + 1
              /\ \A n \in 1 .. Len(buffer.got) : buffer'.got[n] = buffer.got[n]
          BY <1>6, <2>1, <2>5, <3>2, <4>1
        <5>2. ASSUME NEW n \in 1 .. Len(buffer'.got)  PROVE buffer'.got[n] = <<buffer'.id, n>>
          <6>1. CASE n = Len(buffer.got) + 1
            BY <1>6, <5>1, <6>1
          <6>2. CASE n # Len(buffer.got) + 1
            <7>1. n \in 1 .. Len(buffer.got)
              BY <5>1, <6>2
            <7>. QED  BY <1>6, <2>1, <5>1, <7>1 DEF AnswerGrowsInOrder
          <6>. QED  BY <6>1, <6>2
        <5>3. on.next = Len(buffer'.got) + 1
          BY <1>3, <5>1
        <5>. QED  BY <5>2, <5>3 DEF AnswerGrowsInOrder
      <4>2. CASE ~BufferFor(k.id)
        <5>1. buffer' = buffer
          BY <1>1, <4>2
        <5>2. ~BufferFor(on.id)'
          BY <1>3, <4>2, <5>1 DEF BufferFor
        <5>. QED  BY <2>1, <5>1, <5>2 DEF AnswerGrowsInOrder
      <4>. QED  BY <4>1, <4>2
    <3>4. HeardSoFar'
      BY <3>1, <3>3 DEF HeardSoFar
    <3>. QED  BY <2>2, <2>3, <3>3, <3>4 DEF PatientInv
  <2>. QED  BY <2>4, <2>5
<1>. QED  BY <1>7, <1>8, <1>9 DEF OwnInv

LEMMA EndIsQuiet ==
  ASSUME ClientShape, NEW k \in streams, Hear(k), ~(k.next <= answer[k.id].made)  PROVE Quiet
<1>1. /\ UNCHANGED <<page, tab, shown, posts, runs, answer, moves>> /\ streams' = streams \ {k}
  BY DEF Hear
<1>2. /\ moves <= MaxMoves /\ newest \in Nat /\ shown \in Listing /\ page \in Routes
      /\ (\A g \in fetches : g \in FetchRow /\ OfPage(g.tab)) /\ (\A q \in posts : q \in PostRow /\ OfPage(q.tab))
  BY ShapeParts, WhoWaited
<1>3. Silenced /\ newest' \in Nat /\ \A g \in fetches' : g \in FetchRow /\ OfPage(g.tab)
  <2>1. CASE Own(k.tab, k.run) /\ answer[k.id].status = "completed"
    <3>1. Finish(k.id, "done", k.tab, k.run)
      BY <2>1 DEF Hear
    <3>. QED  BY <3>1, FinishAsks
  <2>2. CASE ~(Own(k.tab, k.run) /\ answer[k.id].status = "completed")
    <3>1. UNCHANGED <<newest, fetches>> /\ buffer' \in {buffer, [buffer EXCEPT !.status = "error"]}
      BY <2>2 DEF Hear
    <3>. QED  BY <1>2, <3>1 DEF Silenced, Statuses
  <2>. QED  BY <2>1, <2>2
<1>. QED  BY <1>1, <1>2, <1>3 DEF Quiet

LEMMA GiveUpIsQuiet == ASSUME ClientShape, NEW k \in streams, GiveUp(k)  PROVE Quiet
<1>1. /\ moves \in Nat /\ MaxMoves \in Nat /\ moves <= MaxMoves /\ newest \in Nat /\ shown \in Listing /\ page \in Routes
      /\ (\A g \in fetches : g \in FetchRow /\ OfPage(g.tab)) /\ (\A q \in posts : q \in PostRow /\ OfPage(q.tab))
  BY ShapeParts, WhoWaited
<1>2. /\ UNCHANGED <<page, tab, shown, posts, runs, answer>> /\ streams' = streams \ {k}
      /\ moves' \in {moves, moves + 1} /\ moves' <= MaxMoves
  BY <1>1 DEF GiveUp
<1>3. Silenced /\ newest' \in Nat /\ \A g \in fetches' : g \in FetchRow /\ OfPage(g.tab)
  <2>1. CASE Finish(k.id, "again", k.tab, k.run)
    BY <2>1, FinishAsks
  <2>2. CASE UNCHANGED <<newest, fetches>> /\ buffer' \in {buffer, [buffer EXCEPT !.status = "error"]}
    BY <1>1, <2>2 DEF Silenced, Statuses
  <2>. QED  BY <2>1, <2>2 DEF GiveUp
<1>. QED  BY <1>1, <1>2, <1>3 DEF Quiet

LEMMA ClientStart == ChatClientInit => ClientInv
<1>. SUFFICES ASSUME ChatClientInit  PROVE ClientInv
  OBVIOUS
<1>1. PICK p \in Landing, b \in Beginnings : ChatClientBegin(p, b)
  BY DEF ChatClientInit
<1>2. /\ page = p /\ tab = 1 /\ shown = Blank /\ buffer = NoBuffer /\ posts = {} /\ streams = {} /\ moves = 0
      /\ runs = [t \in 1 .. MaxMoves + 1 |-> 0]
  BY <1>1 DEF ChatClientBegin
<1>3. p \in AllChats \union {"new"} /\ MaxMoves \in Nat
  BY ChatClientAssumption DEF AllChats
<1>4. newest \in Nat /\ \A f \in fetches : f \in FetchRow /\ f.tab = tab
  <2>1. CASE p \in Chats
    <3>1. newest = 1 /\ fetches = {FetchOf(1, p, "open", 1, 0, 0)}
      BY <1>1, <2>1 DEF ChatClientBegin
    <3>2. p \in Talk
      BY <2>1, NamesAre DEF AllChats
    <3>. QED  BY <1>2, <3>1, <3>2, NamesAre DEF FetchOf, FetchRow
  <2>2. CASE p \notin Chats
    BY <1>1, <2>2 DEF ChatClientBegin
  <2>. QED  BY <2>1, <2>2
<1>5. ClientShape
  BY <1>2, <1>3, <1>4, NamesAre DEF ClientShape, Routes
<1>6. page # "away" /\ tab \in Tabs
  BY <1>2, <1>3, NamesAre DEF Tabs
<1>7. TabsFit /\ OfThisPage /\ OneConnection /\ HeardSoFar
  BY <1>2, <1>4, <1>6 DEF TabsFit, OfThisPage, OneConnection, HeardSoFar
<1>8. AnswerGrowsInOrder /\ OwnDeltas
  BY <1>2 DEF AnswerGrowsInOrder, OwnDeltas, NoBuffer
<1>. QED  BY <1>5, <1>7, <1>8 DEF ClientInv, OwnInv, PatientInv

LEMMA DesertedStays == [ChatClientNext]_chatClientVars /\ deserted => deserted'
<1>. SUFFICES ASSUME [ChatClientNext]_chatClientVars, deserted  PROVE deserted'
  OBVIOUS
<1>1. ASSUME NEW c \in AllChats, OpenChat(c) \/ DeleteChat(c)  PROVE deserted'
  BY <1>1 DEF OpenChat, DeleteChat
<1>2. CASE StartNew \/ Leave \/ Ask \/ Stop
  BY <1>2 DEF StartNew, Leave, Ask, Stop
<1>3. ASSUME NEW p \in posts, Created(p) \/ Accept(p) \/ SendReturns(p) \/ NotSent(p)  PROVE deserted'
  BY <1>3 DEF Created, Accept, SendReturns, NotSent
<1>4. ASSUME NEW f \in fetches, Reply(f) \/ Fetched(f) \/ NotFetched(f)  PROVE deserted'
  BY <1>4 DEF Reply, Fetched, NotFetched
<1>5. ASSUME NEW i \in Ids, Write(i)  PROVE deserted'
  BY <1>5 DEF Write
<1>6. ASSUME NEW k \in streams, Hear(k) \/ GiveUp(k) \/ Silence(k)  PROVE deserted'
  BY <1>6 DEF Hear, GiveUp, Silence
<1>7. CASE UNCHANGED chatClientVars
  BY <1>7 DEF chatClientVars
<1>. QED  BY <1>1, <1>2, <1>3, <1>4, <1>5, <1>6, <1>7 DEF ChatClientNext

LEMMA PagesStep ==
  ASSUME OwnInv, [ChatClientNext]_chatClientVars
  PROVE  OwnInv' /\ (PatientInv /\ ~deserted' => PatientInv')
<1>1. ClientShape
  BY DEF OwnInv
<1>2. ASSUME NEW c \in AllChats, OpenChat(c)  PROVE OwnInv' /\ (PatientInv => PatientInv')
  BY <1>2, OpenChatKeeps
<1>3. CASE StartNew \/ Ask \/ Stop
  BY <1>1, <1>3, UserIsQuiet, QuietStep
<1>4. CASE Leave
  BY <1>4, LeaveKeeps
<1>5. ASSUME NEW p \in posts, Created(p) \/ Accept(p) \/ NotSent(p)  PROVE OwnInv' /\ (PatientInv => PatientInv')
  <2>1. CASE Created(p) /\ page = "away"
    BY <2>1, CreatedKeeps
  <2>2. CASE ~(Created(p) /\ page = "away")
    BY <1>1, <1>5, <2>2, PostsAreQuiet, QuietStep
  <2>. QED  BY <2>1, <2>2
<1>6. ASSUME NEW p \in posts, SendReturns(p)  PROVE OwnInv' /\ (PatientInv => PatientInv')
  BY <1>6, SendReturnsKeeps
<1>7. ASSUME NEW f \in fetches, Reply(f) \/ Fetched(f) \/ NotFetched(f)  PROVE OwnInv' /\ (PatientInv => PatientInv')
  BY <1>1, <1>7, ReplyIsQuiet, FetchedKeeps, NotFetchedIsQuiet, QuietStep
<1>8. CASE (\E i \in Ids : Write(i)) \/ (\E c \in AllChats : DeleteChat(c)) \/ (\E k \in streams : Silence(k))
  BY <1>1, <1>8, ServerIsQuiet, QuietStep
<1>9. ASSUME NEW k \in streams, Hear(k) \/ GiveUp(k)  PROVE OwnInv' /\ (PatientInv => PatientInv')
  BY <1>1, <1>9, DeltaKeeps, EndIsQuiet, GiveUpIsQuiet, QuietStep
<1>10. CASE UNCHANGED chatClientVars
  <2>1. UNCHANGED <<page, tab, shown, buffer, newest, fetches, posts, runs, streams, moves>>
    BY <1>10 DEF chatClientVars
  <2>2. Quiet
    BY <1>1, <2>1, ShapeParts, WhoWaited DEF Quiet, Silenced
  <2>. QED  BY <2>2, QuietStep
<1>. QED  BY <1>2, <1>3, <1>4, <1>5, <1>6, <1>7, <1>8, <1>9, <1>10 DEF ChatClientNext

LEMMA ClientStep == ClientInv /\ [ChatClientNext]_chatClientVars => ClientInv'
<1>. SUFFICES ASSUME ClientInv, [ChatClientNext]_chatClientVars  PROVE ClientInv'
  OBVIOUS
<1>1. OwnInv /\ (deserted \/ PatientInv)
  BY DEF ClientInv
<1>2. OwnInv' /\ (PatientInv /\ ~deserted' => PatientInv')
  BY <1>1, PagesStep
<1>3. deserted => deserted'
  BY DesertedStays
<1>. QED  BY <1>1, <1>2, <1>3 DEF ClientInv

(***************************************************************************)
(* THEOREM (bufferFor; useChatStream, "only one connection"): the text in  *)
(* the buffer is that of the answer it is for, whatever connection of      *)
(* whatever page is still heard; and until a page was left that still      *)
(* waited for an answer it is from the first delta, in order and nothing   *)
(* twice -- through any number of conversations, answers, visits,          *)
(* questions and failures.  After that it is not so: MCChatClient shows    *)
(* two connections that write the same answer.                             *)
(***************************************************************************)
ChatClientSpec == ChatClientInit /\ [][ChatClientNext]_chatClientVars
THEOREM BuffersAreSound == ChatClientSpec => []BufferIsSound
<1>1. ChatClientInit => ClientInv
  BY ClientStart
<1>2. ClientInv /\ [ChatClientNext]_chatClientVars => ClientInv'
  BY ClientStep
<1>3. ClientInv => BufferIsSound
  BY DEF ClientInv, OwnInv, OwnDeltas, PatientInv, BufferIsSound
<1>. QED  BY <1>1, <1>2, <1>3, PTL DEF ChatClientSpec

-----------------------------------------------------------------------------
(* Settings: a request that got past the validation, and what it may have  *)
(* left: a section of one of those, valid, or one that was there before.   *)
Past(w) == request[w].at \notin {"validate", "rejected"}
Accepted == {0} \union {w \in Writers : Past(w)}
OfAccepted(section) ==
  section \in Section /\ section.by \in Accepted /\ (section.by # 0 => ValidSection(section))

WriterRow ==
  [body : Bodies, at : Steps, seen : Writers \union {0}, chunk : Section,
   quota : Writers \union {0}, ver : Nat, told : BOOLEAN]
AuditRow == [by : Writers, outcome : {"succeeded", "failed"}, told : BOOLEAN]

WriterFits(w) ==
  /\ Past(w) => ValidBody(request[w].body)
  /\ request[w].at \in {"dek", "seal"} => request[w].body.secret = "set"
  /\ request[w].seen \in {0, dek}
  /\ OfAccepted(request[w].chunk) /\ request[w].quota \in Accepted

(* The credential opens, and is of a request that was to set one.          *)
CredentialFits ==
  /\ dek \in Writers \union {0}
  /\ sealed \in [key : Writers \union {0}, of : Writers \union {0}]
  /\ sealed # Unsealed => sealed.key = dek /\ dek # 0
  /\ sealed.of \in Accepted /\ (sealed.of # 0 => request[sealed.of].body.secret = "set")

RowsTell ==
  /\ audit \subseteq AuditRow
  /\ \A row \in audit : row.outcome = "succeeded" /\ Described(row.by) => row.told

SettingsInv ==
  /\ request \in [Writers -> WriterRow]
  /\ tenant \in [chunk : Section, quota : Writers \union {0}]
  /\ kb \in [chunk : Section, cut : Section, ver : Nat \ {0}, indexed : Nat \ {0}]
  /\ OfAccepted(tenant.chunk) /\ tenant.quota \in Accepted /\ OfAccepted(kb.chunk)
  /\ CredentialFits /\ RowsTell
  /\ \A w \in Writers : WriterFits(w)

-----------------------------------------------------------------------------
(* What the invariant says of the readers.                                 *)
LEMMA Clamped ==
  ASSUME NEW v \in Int, NEW low \in Int, NEW high \in Int, low <= high
  PROVE  /\ Clamp(v, low, high) \in low .. high
         /\ v \in low .. high => Clamp(v, low, high) = v
BY DEF Clamp, Smaller, Larger

(* A target of the layers keeps the bounds; a default is what it is.       *)
LEMMA TargetBounded ==
  ASSUME SettingsInv
  PROVE  Target \in Int /\ (Counted(TargetLayers) => Target \in Low .. High)
<1>1. /\ TargetLayers[1] \in Int /\ TargetLayers[2] \in Int /\ System.target \in Int
      /\ Low \in Int /\ High \in Int /\ Low <= High
  BY SettingsAssumption DEF SettingsInv, Section, TargetLayers
<1>2. FirstUsable(TargetLayers, System.target) \in Int
  BY <1>1 DEF FirstUsable
<1>3. Clamp(FirstUsable(TargetLayers, System.target), Low, High) \in Low .. High
  BY <1>1, <1>2, Clamped
<1>. QED  BY <1>1, <1>3 DEF Target

LEMMA Advancing ==
  ASSUME SettingsInv
  PROVE  ChunkingAdvances
<1>1. OverlapLayers[1] \in Int /\ OverlapLayers[2] \in Int /\ System.overlap \in Int
  BY SettingsAssumption DEF SettingsInv, Section, OverlapLayers
<1>2. FirstUsable(OverlapLayers, System.overlap) \in Int
  BY <1>1 DEF FirstUsable
<1>3. /\ Target \in Int /\ (Counted(TargetLayers) => Target \in Low .. High) /\ Low \in Int /\ High \in Int
      /\ 1 <= Low
  BY TargetBounded, SettingsAssumption
<1>4. Target < 1 => ~Counted(TargetLayers)
  BY <1>3
<1>5. ASSUME Counted(OverlapLayers), 1 <= Target  PROVE Overlap \in 0 .. Target - 1
  <2>1. ReadCeiling = Target - 1 /\ ReadCeiling \in Int /\ 0 <= ReadCeiling
    BY <1>3, <1>5 DEF ReadCeiling, Larger
  <2>2. Clamp(FirstUsable(OverlapLayers, System.overlap), 0, ReadCeiling) \in 0 .. ReadCeiling
    BY <1>2, <2>1, Clamped
  <2>. QED  BY <1>5, <2>1, <2>2 DEF Overlap
<1>6. Overlap \in 0 .. Target - 1 \/ ~Counted(OverlapLayers) \/ (Target < 1 /\ ~Counted(TargetLayers))
  BY <1>3, <1>4, <1>5
<1>. QED  BY <1>3, <1>6 DEF ChunkingAdvances

LEMMA UsedAsAccepted ==
  ASSUME SettingsInv
  PROVE  AcceptedIsUsed
<1>1. Target = IF Counted(TargetLayers) THEN Clamp(FirstUsable(TargetLayers, System.target), Low, High) ELSE System.target
  BY DEF Target
<1>2. Low \in Nat \ {0} /\ High \in Nat /\ Low <= High
  BY SettingsAssumption
<1>3. TargetLayers[1] = kb.chunk.target /\ TargetLayers[2] = tenant.chunk.target
  BY DEF TargetLayers
<1>4. ASSUME NEW s \in Section, OfAccepted(s), s.by # 0, s.target # NotGiven
      PROVE  IsNumber(s.target) /\ s.target \in Low .. High /\ Clamp(s.target, Low, High) = s.target
  <2>1. s.target \in Low .. High /\ s.target \in Int
    BY <1>4 DEF OfAccepted, ValidSection, Section
  <2>2. IsNumber(s.target)
    BY <2>1, <1>2 DEF IsNumber, NotGiven, Text
  <2>3. Low \in Int /\ High \in Int /\ Low <= High
    BY <1>2
  <2>4. Clamp(s.target, Low, High) = s.target
    BY <2>1, <2>3, Clamped
  <2>. QED  BY <2>1, <2>2, <2>4
<1>5. OfAccepted(kb.chunk) /\ OfAccepted(tenant.chunk) /\ kb.chunk \in Section /\ tenant.chunk \in Section
  BY DEF SettingsInv, OfAccepted
<1>6. kb.chunk.by # 0 /\ kb.chunk.target # NotGiven => Target = kb.chunk.target
  <2>. SUFFICES ASSUME kb.chunk.by # 0, kb.chunk.target # NotGiven  PROVE Target = kb.chunk.target
    OBVIOUS
  <2>1. IsNumber(TargetLayers[1]) /\ Clamp(TargetLayers[1], Low, High) = TargetLayers[1]
    BY <1>3, <1>4, <1>5
  <2>. QED  BY <2>1, <1>1, <1>3 DEF Counted, FirstUsable
<1>7. ~IsNumber(kb.chunk.target) /\ tenant.chunk.by # 0 /\ tenant.chunk.target # NotGiven => Target = tenant.chunk.target
  <2>. SUFFICES ASSUME ~IsNumber(kb.chunk.target), tenant.chunk.by # 0, tenant.chunk.target # NotGiven
                PROVE  Target = tenant.chunk.target
    OBVIOUS
  <2>1. IsNumber(TargetLayers[2]) /\ Clamp(TargetLayers[2], Low, High) = TargetLayers[2] /\ ~IsNumber(TargetLayers[1])
    BY <1>3, <1>4, <1>5
  <2>. QED  BY <2>1, <1>1, <1>3 DEF Counted, FirstUsable
<1>. QED  BY <1>6, <1>7 DEF AcceptedIsUsed

LEMMA InvHolds ==
  ASSUME SettingsInv
  PROVE  SettingsHold
<1>1. CredentialsOpen
  BY DEF SettingsInv, CredentialFits, CredentialsOpen
<1>2. RejectedLeavesNothing
  <2>. SUFFICES ASSUME NEW w \in Writers, request[w].at = "rejected",
                       w \in {sealed.of, tenant.quota, tenant.chunk.by, kb.chunk.by}
                PROVE  FALSE
    BY DEF RejectedLeavesNothing
  <2>1. w \in Accepted
    BY DEF SettingsInv, CredentialFits, OfAccepted
  <2>2. w # 0
    BY SettingsAssumption
  <2>. QED  BY <2>1, <2>2 DEF Accepted, Past
<1>3. RotationIsTold
  <2>. SUFFICES ASSUME NEW row \in audit, row.outcome = "succeeded", row.by = sealed.of
                PROVE  row.told
    BY DEF RotationIsTold
  <2>1. row.by \in Writers /\ row.by # 0
    BY SettingsAssumption DEF SettingsInv, RowsTell, AuditRow
  <2>2. request[row.by].body.secret = "set"
    BY <2>1 DEF SettingsInv, CredentialFits
  <2>. QED  BY <2>1, <2>2 DEF SettingsInv, RowsTell, Described
<1>. QED  BY <1>1, <1>2, <1>3, Advancing, UsedAsAccepted DEF SettingsHold

-----------------------------------------------------------------------------
(* A step of one request: what was accepted stays so, and its row fits.    *)
LEMMA RequestSteps ==
  ASSUME SettingsInv, NEW w \in Writers, NEW r \in WriterRow,
         request' = [request EXCEPT ![w] = r], r.body = request[w].body,
         Past(w) => r.at \notin {"validate", "rejected"},
         r.at \notin {"validate", "rejected"} => ValidBody(r.body),
         r.at \in {"dek", "seal"} => r.body.secret = "set",
         r.seen \in {0, dek'}, dek # 0 => dek' = dek, OfAccepted(r.chunk), r.quota \in Accepted
  PROVE  /\ request' \in [Writers -> WriterRow] /\ \A v \in Writers : WriterFits(v)'
         /\ Accepted \subseteq Accepted' /\ \A s : OfAccepted(s) => OfAccepted(s)'
         /\ \A v \in Writers : request'[v].body = request[v].body
         /\ request'[w] = r
<1>1. request \in [Writers -> WriterRow] /\ \A v \in Writers : WriterFits(v)
  BY DEF SettingsInv
<1>2. \A v \in Writers : request'[v] = IF v = w THEN r ELSE request[v]
  BY <1>1
<1>3. Accepted \subseteq Accepted'
  BY <1>2 DEF Accepted, Past
<1>4. \A s : OfAccepted(s) => OfAccepted(s)'
  BY <1>3 DEF OfAccepted, ValidSection, WriteCeiling, IsNumber, Larger
<1>5. ASSUME NEW v \in Writers  PROVE WriterFits(v)'
  <2>1. CASE v = w
    <3>1. request'[v] = r
      BY <1>2, <2>1
    <3>2. OfAccepted(r.chunk)' /\ r.quota \in Accepted'
      BY <1>3, <1>4
    <3>. QED  BY <3>1, <3>2 DEF WriterFits, Past, OfAccepted
  <2>2. CASE v # w
    <3>1. request'[v] = request[v] /\ WriterFits(v)
      BY <1>1, <1>2, <2>2
    <3>2. OfAccepted(request[v].chunk)' /\ request[v].quota \in Accepted'
      BY <3>1, <1>3, <1>4 DEF WriterFits
    <3>3. request[v].seen \in {0, dek'}
      BY <3>1 DEF WriterFits
    <3>. QED  BY <3>1, <3>2, <3>3 DEF WriterFits, Past, OfAccepted
  <2>. QED  BY <2>1, <2>2
<1>. QED  BY <1>1, <1>2, <1>3, <1>4, <1>5

(* The row of the audit log.                                               *)
LEMMA AuditSteps ==
  ASSUME SettingsInv, NEW w \in Writers, NEW told \in BOOLEAN, NEW outcome \in {"succeeded", "failed"},
         Audited(w, outcome, told), outcome = "succeeded" /\ Described(w) => told,
         \A v \in Writers : request'[v].body = request[v].body
  PROVE  RowsTell'
<1>. DEFINE new == [by |-> w, outcome |-> outcome, told |-> told]
<1>1. new \in AuditRow /\ new.by = w /\ new.outcome = outcome /\ new.told = told
  BY DEF AuditRow
<1>. HIDE DEF new
<1>2. audit' \subseteq audit \union {new}
  BY DEF Audited, Entered, new
<1>3. \A v \in Writers : Described(v)' <=> Described(v)
  BY DEF Described
<1>4. audit \subseteq AuditRow /\ \A row \in audit : row.outcome = "succeeded" /\ Described(row.by) => row.told
  BY DEF SettingsInv, RowsTell
<1>5. audit' \subseteq AuditRow
  BY <1>1, <1>2, <1>4
<1>6. ASSUME NEW row \in audit', row.outcome = "succeeded", Described(row.by)'  PROVE row.told
  <2>1. row.by \in Writers
    BY <1>5 DEF AuditRow
  <2>2. Described(row.by)
    BY <1>3, <1>6, <2>1
  <2>. QED  BY <1>1, <1>2, <1>4, <1>6, <2>2
<1>. QED  BY <1>5, <1>6 DEF RowsTell

LEMMA QuietRows ==
  ASSUME SettingsInv, audit' = audit, \A v \in Writers : request'[v].body = request[v].body
  PROVE  RowsTell'
<1>1. \A v \in Writers : Described(v)' <=> Described(v)
  BY DEF Described
<1>2. audit \subseteq AuditRow /\ \A row \in audit : row.outcome = "succeeded" /\ Described(row.by) => row.told
  BY DEF SettingsInv, RowsTell
<1>3. \A row \in audit : row.by \in Writers
  BY <1>2 DEF AuditRow
<1>. QED  BY <1>1, <1>2, <1>3 DEF RowsTell

(* The credential, when nobody writes it.                                  *)
LEMMA QuietCredential ==
  ASSUME SettingsInv, UNCHANGED <<dek, sealed>>, Accepted \subseteq Accepted',
         \A v \in Writers : request'[v].body = request[v].body
  PROVE  CredentialFits'
<1>1. CredentialFits
  BY DEF SettingsInv
<1>2. sealed.of \in Writers \union {0}
  BY <1>1 DEF CredentialFits
<1>. QED  BY <1>1, <1>2 DEF CredentialFits

(* A step that leaves the settings of tenant and knowledge base alone.     *)
LEMMA QuietSettings ==
  ASSUME SettingsInv, UNCHANGED <<tenant, kb>>, Accepted \subseteq Accepted', \A s : OfAccepted(s) => OfAccepted(s)'
  PROVE  /\ tenant' \in [chunk : Section, quota : Writers \union {0}]
         /\ kb' \in [chunk : Section, cut : Section, ver : Nat \ {0}, indexed : Nat \ {0}]
         /\ OfAccepted(tenant.chunk)' /\ (tenant.quota \in Accepted)' /\ OfAccepted(kb.chunk)'
<1>1. OfAccepted(tenant.chunk) /\ tenant.quota \in Accepted /\ OfAccepted(kb.chunk)
  BY DEF SettingsInv
<1>. QED  BY <1>1 DEF SettingsInv, OfAccepted

-----------------------------------------------------------------------------
LEMMA SettingsStart == ASSUME SettingsInit  PROVE SettingsInv
<1>. SettingsBegin("validate", Plans, Legacy)
  BY DEF SettingsInit
<1>1. PICK old \in Legacy, own \in Legacy :
        /\ tenant = [chunk |-> old, quota |-> 0]
        /\ kb = [chunk |-> own, cut |-> own, ver |-> 1, indexed |-> 1]
  BY DEF SettingsBegin
<1>2. PICK plan \in Plans :
        request = [w \in Writers |-> [body |-> plan[w], at |-> "validate", seen |-> 0,
                                      chunk |-> NoSection, quota |-> 0, ver |-> 1, told |-> FALSE]]
  BY DEF SettingsBegin
<1>3. dek = 0 /\ sealed = Unsealed /\ audit = {}
  BY DEF SettingsBegin
<1>4. /\ Legacy \subseteq Section /\ (\A s \in Legacy : s.by = 0) /\ plan \in [Writers -> Bodies] /\ 0 \notin Writers
  BY SettingsAssumption
<1>5. NoSection \in Section /\ NoSection.by = 0 /\ 0 \in Accepted
  BY DEF NoSection, Section, NotGiven, Accepted
<1>6. OfAccepted(old) /\ OfAccepted(own) /\ OfAccepted(NoSection)
  BY <1>4, <1>5 DEF OfAccepted
<1>7. request \in [Writers -> WriterRow]
  BY <1>2, <1>4, <1>5 DEF WriterRow, Steps
<1>8. \A w \in Writers : WriterFits(w)
  BY <1>2, <1>5, <1>6 DEF WriterFits, Past
<1>9. CredentialFits
  BY <1>3, <1>5 DEF CredentialFits, Unsealed, Sealed
<1>10. RowsTell
  BY <1>3 DEF RowsTell
<1>. QED  BY <1>1, <1>4, <1>5, <1>6, <1>7, <1>8, <1>9, <1>10 DEF SettingsInv

LEMMA ValidateKeeps == ASSUME SettingsInv, NEW w \in Writers, Validate(w)  PROVE SettingsInv'
<1>. DEFINE body == request[w].body
            at == IF ~ValidBody(body) THEN "rejected"
                  ELSE CASE body.secret = "set" -> "dek" [] body.secret = "revoke" -> "revoke" [] OTHER -> "read"
            r == [request[w] EXCEPT !.at = at]
<1>1. request \in [Writers -> WriterRow] /\ WriterFits(w) /\ request[w] \in WriterRow
  BY DEF SettingsInv
<1>2. request' = [request EXCEPT ![w] = r] /\ UNCHANGED <<tenant, kb, dek, sealed>>
  BY <1>1 DEF Validate, WriterRow
<1>3. request[w].at = "validate"
  BY DEF Validate, AtStep
<1>4. /\ at \in {"rejected", "dek", "revoke", "read"} /\ (at # "rejected" => ValidBody(body))
      /\ at = "dek" => body.secret = "set"
  OBVIOUS
<1>. HIDE DEF at
<1>5. /\ r \in WriterRow /\ r.body = body /\ r.at = at /\ r.seen = request[w].seen
      /\ r.chunk = request[w].chunk /\ r.quota = request[w].quota
  BY <1>1, <1>4 DEF WriterRow, Steps, Answered
<1>6. /\ r.seen \in {0, dek'} /\ OfAccepted(r.chunk) /\ r.quota \in Accepted
  BY <1>1, <1>2, <1>5 DEF WriterFits
<1>. HIDE DEF r
<1>7. ~Past(w)
  BY <1>3 DEF Past
<1>8. /\ request' \in [Writers -> WriterRow] /\ \A v \in Writers : WriterFits(v)'
      /\ Accepted \subseteq Accepted' /\ \A s : OfAccepted(s) => OfAccepted(s)'
      /\ \A v \in Writers : request'[v].body = request[v].body
  BY <1>2, <1>4, <1>5, <1>6, <1>7, RequestSteps
<1>9. RowsTell'
  <2>1. audit' = audit \/ Audited(w, "failed", request[w].told)
    BY DEF Validate
  <2>2. request[w].told \in BOOLEAN
    BY <1>1 DEF WriterRow
  <2>. QED  BY <2>1, <2>2, <1>8, AuditSteps, QuietRows
<1>. QED  BY <1>2, <1>8, <1>9, QuietCredential, QuietSettings DEF SettingsInv

LEMMA ReadDekKeeps == ASSUME SettingsInv, NEW w \in Writers, ReadDek(w)  PROVE SettingsInv'
<1>. DEFINE r == [request[w] EXCEPT !.at = "seal", !.seen = dek]
<1>1. request \in [Writers -> WriterRow] /\ WriterFits(w) /\ request[w] \in WriterRow /\ dek \in Writers \union {0}
  BY DEF SettingsInv, CredentialFits
<1>2. request' = [request EXCEPT ![w] = r] /\ UNCHANGED <<tenant, kb, dek, sealed, audit>>
  BY <1>1 DEF ReadDek, WriterRow
<1>3. request[w].at = "dek"
  BY DEF ReadDek, AtStep
<1>4. /\ r \in WriterRow /\ r.body = request[w].body /\ r.at = "seal" /\ r.seen = dek
      /\ r.chunk = request[w].chunk /\ r.quota = request[w].quota
  BY <1>1 DEF WriterRow, Steps
<1>5. /\ r.seen \in {0, dek'} /\ OfAccepted(r.chunk) /\ r.quota \in Accepted
      /\ ValidBody(r.body) /\ r.body.secret = "set"
  BY <1>1, <1>2, <1>3, <1>4 DEF WriterFits, Past
<1>. HIDE DEF r
<1>6. /\ request' \in [Writers -> WriterRow] /\ \A v \in Writers : WriterFits(v)'
      /\ Accepted \subseteq Accepted' /\ \A s : OfAccepted(s) => OfAccepted(s)'
      /\ \A v \in Writers : request'[v].body = request[v].body
  BY <1>2, <1>4, <1>5, RequestSteps
<1>. QED  BY <1>2, <1>6, QuietRows, QuietCredential, QuietSettings DEF SettingsInv

LEMMA SealKeeps == ASSUME SettingsInv, NEW w \in Writers, Seal(w)  PROVE SettingsInv'
<1>. DEFINE r == [request[w] EXCEPT !.at = "read"]
            key == IF request[w].seen # 0 THEN request[w].seen ELSE Winner(w)
<1>1. /\ request \in [Writers -> WriterRow] /\ WriterFits(w) /\ request[w] \in WriterRow
      /\ CredentialFits /\ dek \in Writers \union {0} /\ w # 0
  BY SettingsAssumption DEF SettingsInv, CredentialFits
<1>2. request' = [request EXCEPT ![w] = r] /\ UNCHANGED <<tenant, kb, audit>>
  BY <1>1 DEF Seal, WriterRow
<1>3. sealed' = [key |-> key, of |-> w] /\ dek' = IF dek = 0 THEN w ELSE dek
  BY DEF Seal, Sealed
<1>4. request[w].at = "seal" /\ request[w].seen \in {0, dek} /\ request[w].body.secret = "set" /\ ValidBody(request[w].body)
  BY <1>1 DEF Seal, AtStep, WriterFits, Past
<1>5. key = dek' /\ dek' # 0 /\ dek' \in Writers
  BY <1>1, <1>3, <1>4 DEF Winner
<1>. HIDE DEF key
<1>6. /\ r \in WriterRow /\ r.body = request[w].body /\ r.at = "read" /\ r.seen = request[w].seen
      /\ r.chunk = request[w].chunk /\ r.quota = request[w].quota
  BY <1>1 DEF WriterRow, Steps
<1>7. /\ r.seen \in {0, dek} /\ OfAccepted(r.chunk) /\ r.quota \in Accepted
  BY <1>1, <1>4, <1>6 DEF WriterFits
<1>. HIDE DEF r
<1>10. r.seen \in {0, dek'} /\ (dek # 0 => dek' = dek)
  BY <1>3, <1>7
<1>8. \A v \in Writers : request[v].seen \in {0, dek}
  BY DEF SettingsInv, WriterFits
<1>9. /\ request' \in [Writers -> WriterRow] /\ \A v \in Writers : WriterFits(v)'
      /\ Accepted \subseteq Accepted' /\ \A s : OfAccepted(s) => OfAccepted(s)'
      /\ \A v \in Writers : request'[v].body = request[v].body
      /\ request'[w] = r
  BY <1>2, <1>4, <1>6, <1>7, <1>10, RequestSteps
<1>11. w \in Accepted'
  BY <1>6, <1>9 DEF Accepted, Past
<1>12. CredentialFits'
  BY <1>1, <1>3, <1>4, <1>5, <1>9, <1>11 DEF CredentialFits
<1>. QED  BY <1>2, <1>9, <1>12, QuietRows, QuietSettings DEF SettingsInv

LEMMA RevokeKeeps == ASSUME SettingsInv, NEW w \in Writers, Revoke(w)  PROVE SettingsInv'
<1>. DEFINE r == [request[w] EXCEPT !.at = "read"]
<1>1. /\ request \in [Writers -> WriterRow] /\ WriterFits(w) /\ request[w] \in WriterRow
      /\ dek \in Writers \union {0}
  BY DEF SettingsInv, CredentialFits
<1>2. request' = [request EXCEPT ![w] = r] /\ UNCHANGED <<tenant, kb, dek, audit>> /\ sealed' = Unsealed
  BY <1>1 DEF Revoke, WriterRow
<1>3. request[w].at = "revoke" /\ ValidBody(request[w].body)
  BY <1>1 DEF Revoke, AtStep, WriterFits, Past
<1>4. /\ r \in WriterRow /\ r.body = request[w].body /\ r.at = "read" /\ r.seen = request[w].seen
      /\ r.chunk = request[w].chunk /\ r.quota = request[w].quota
  BY <1>1 DEF WriterRow, Steps
<1>5. /\ r.seen \in {0, dek'} /\ OfAccepted(r.chunk) /\ r.quota \in Accepted
  BY <1>1, <1>2, <1>4 DEF WriterFits
<1>. HIDE DEF r
<1>6. /\ request' \in [Writers -> WriterRow] /\ \A v \in Writers : WriterFits(v)'
      /\ Accepted \subseteq Accepted' /\ \A s : OfAccepted(s) => OfAccepted(s)'
      /\ \A v \in Writers : request'[v].body = request[v].body
  BY <1>2, <1>3, <1>4, <1>5, RequestSteps
<1>7. CredentialFits'
  BY <1>1, <1>2 DEF CredentialFits, Unsealed, Sealed, Accepted
<1>. QED  BY <1>2, <1>6, <1>7, QuietRows, QuietSettings DEF SettingsInv

LEMMA ReadKeeps == ASSUME SettingsInv, NEW w \in Writers, Read(w)  PROVE SettingsInv'
<1>. DEFINE now == IF Updating(w) THEN kb.chunk ELSE tenant.chunk
            r == [request[w] EXCEPT !.at = "write", !.quota = tenant.quota, !.chunk = now, !.ver = kb.ver]
<1>1. /\ request \in [Writers -> WriterRow] /\ WriterFits(w) /\ request[w] \in WriterRow
      /\ OfAccepted(now) /\ tenant.quota \in Accepted /\ kb.ver \in Nat /\ tenant.quota \in Writers \union {0}
  BY DEF SettingsInv
<1>2. request' = [request EXCEPT ![w] = r] /\ UNCHANGED <<tenant, kb, dek, sealed, audit>>
  BY <1>1 DEF Read, WriterRow
<1>3. request[w].at = "read" /\ ValidBody(request[w].body)
  BY <1>1 DEF Read, AtStep, WriterFits, Past
<1>. HIDE DEF now
<1>4. now \in Section
  BY <1>1 DEF OfAccepted
<1>5. /\ r \in WriterRow /\ r.body = request[w].body /\ r.at = "write" /\ r.seen = request[w].seen
      /\ r.chunk = now /\ r.quota = tenant.quota
  BY <1>1, <1>4 DEF WriterRow, Steps
<1>6. r.seen \in {0, dek'}
  BY <1>1, <1>2, <1>5 DEF WriterFits
<1>. HIDE DEF r
<1>7. /\ request' \in [Writers -> WriterRow] /\ \A v \in Writers : WriterFits(v)'
      /\ Accepted \subseteq Accepted' /\ \A s : OfAccepted(s) => OfAccepted(s)'
      /\ \A v \in Writers : request'[v].body = request[v].body
  BY <1>1, <1>2, <1>3, <1>5, <1>6, RequestSteps
<1>. QED  BY <1>2, <1>7, QuietRows, QuietCredential, QuietSettings DEF SettingsInv

(* The section that is stored: the one that was sent, or the one there was. *)
LEMMA SentIsAccepted ==
  ASSUME SettingsInv, NEW w \in Writers, AtStep(w, "write"), request[w].body.chunk # "none"
  PROVE  OfAccepted(Sent(w))
<1>1. /\ request[w] \in WriterRow /\ WriterFits(w) /\ w \in Nat
  BY SettingsAssumption DEF SettingsInv
<1>2. ValidBody(request[w].body) /\ w \in Accepted
  BY <1>1 DEF WriterFits, Past, AtStep, Accepted
<1>3. request[w].body \in Bodies
  BY <1>1 DEF WriterRow
<1>. DEFINE section == request[w].body.section
<1>4. section \in Section /\ ValidSection(section)
  BY <1>2, <1>3 DEF ValidBody, Bodies
<1>5. Sent(w) = [section EXCEPT !.by = w]
  BY DEF Sent
<1>. HIDE DEF section
<1>6. Sent(w) \in Section /\ Sent(w).by = w /\ Sent(w).target = section.target /\ Sent(w).overlap = section.overlap
  BY <1>1, <1>4, <1>5 DEF Section
<1>7. ValidSection(Sent(w))
  BY <1>4, <1>6 DEF ValidSection, WriteCeiling
<1>. QED  BY <1>2, <1>6, <1>7 DEF OfAccepted

LEMMA DoneKeeps ==
  ASSUME SettingsInv, NEW w \in Writers, AtStep(w, "write"), Done(w), UNCHANGED <<dek, sealed>>
  PROVE  /\ request' \in [Writers -> WriterRow] /\ \A v \in Writers : WriterFits(v)'
         /\ Accepted \subseteq Accepted' /\ \A s : OfAccepted(s) => OfAccepted(s)'
         /\ RowsTell' /\ CredentialFits'
<1>. DEFINE r == [request[w] EXCEPT !.at = "ok", !.told = Described(w)]
<1>1. request \in [Writers -> WriterRow] /\ WriterFits(w) /\ request[w] \in WriterRow
  BY DEF SettingsInv
<1>2. request' = [request EXCEPT ![w] = r] /\ Audited(w, "succeeded", Described(w))
  BY <1>1 DEF Done, WriterRow
<1>3. ValidBody(request[w].body)
  BY <1>1 DEF AtStep, WriterFits, Past
<1>4. Described(w) \in BOOLEAN
  BY DEF Described
<1>5. /\ r \in WriterRow /\ r.body = request[w].body /\ r.at = "ok" /\ r.seen = request[w].seen
      /\ r.chunk = request[w].chunk /\ r.quota = request[w].quota
  BY <1>1, <1>4 DEF WriterRow, Steps, Answered
<1>6. r.seen \in {0, dek'} /\ OfAccepted(r.chunk) /\ r.quota \in Accepted
  BY <1>1, <1>5 DEF WriterFits
<1>. HIDE DEF r
<1>7. /\ request' \in [Writers -> WriterRow] /\ \A v \in Writers : WriterFits(v)'
      /\ Accepted \subseteq Accepted' /\ \A s : OfAccepted(s) => OfAccepted(s)'
      /\ \A v \in Writers : request'[v].body = request[v].body
  BY <1>2, <1>3, <1>5, <1>6, RequestSteps
<1>8. RowsTell'
  BY <1>2, <1>4, <1>7, AuditSteps
<1>. QED  BY <1>7, <1>8, QuietCredential

LEMMA WriteTenantKeeps == ASSUME SettingsInv, NEW w \in Writers, WriteTenant(w)  PROVE SettingsInv'
<1>. DEFINE chunk == IF request[w].body.chunk = "tenant" THEN Sent(w) ELSE request[w].chunk
            limits == IF request[w].body.quota = "set" THEN w ELSE request[w].quota
<1>1. tenant' = [chunk |-> chunk, quota |-> limits] /\ AtStep(w, "write") /\ Done(w) /\ UNCHANGED <<kb, dek, sealed>>
  BY DEF WriteTenant
<1>2. WriterFits(w) /\ request[w] \in WriterRow
  BY DEF SettingsInv
<1>3. OfAccepted(chunk)
  BY <1>1, <1>2, SentIsAccepted DEF WriterFits
<1>4. limits \in Accepted /\ limits \in Writers \union {0}
  BY <1>1, <1>2 DEF WriterFits, WriterRow, Accepted, Past, AtStep
<1>. HIDE DEF chunk, limits
<1>5. /\ request' \in [Writers -> WriterRow] /\ \A v \in Writers : WriterFits(v)'
      /\ Accepted \subseteq Accepted' /\ \A s : OfAccepted(s) => OfAccepted(s)'
      /\ RowsTell' /\ CredentialFits'
  BY <1>1, DoneKeeps
<1>6. OfAccepted(tenant.chunk)' /\ (tenant.quota \in Accepted)' /\ tenant' \in [chunk : Section, quota : Writers \union {0}]
  <2>1. limits \in Accepted' /\ chunk \in Section
    BY <1>3, <1>4, <1>5 DEF OfAccepted
  <2>2. tenant'.chunk = chunk /\ tenant'.quota = limits
    BY <1>1
  <2>3. OfAccepted(tenant.chunk)'
    BY <1>3, <1>5, <2>2 DEF OfAccepted, ValidSection, WriteCeiling
  <2>. QED  BY <1>1, <1>4, <2>1, <2>2, <2>3
<1>7. /\ kb' \in [chunk : Section, cut : Section, ver : Nat \ {0}, indexed : Nat \ {0}]
      /\ OfAccepted(kb.chunk)'
  <2>1. OfAccepted(kb.chunk) /\ kb \in [chunk : Section, cut : Section, ver : Nat \ {0}, indexed : Nat \ {0}]
    BY DEF SettingsInv
  <2>. QED  BY <1>1, <1>5, <2>1 DEF OfAccepted
<1>. QED  BY <1>5, <1>6, <1>7 DEF SettingsInv

LEMMA WriteKbKeeps == ASSUME SettingsInv, NEW w \in Writers, WriteKb(w)  PROVE SettingsInv'
<1>. DEFINE ver == IF ChunkingChanged(request[w].chunk, Sent(w)) THEN request[w].ver + 1 ELSE kb.ver
<1>1. /\ AtStep(w, "write") /\ request[w].body.chunk # "none" /\ Done(w) /\ UNCHANGED <<tenant, dek, sealed>>
  BY DEF WriteKb, Updating
<1>2. /\ kb \in [chunk : Section, cut : Section, ver : Nat \ {0}, indexed : Nat \ {0}]
      /\ request[w] \in WriterRow
  BY DEF SettingsInv
<1>3. kb' = [kb EXCEPT !.chunk = Sent(w), !.ver = ver]
  BY <1>2 DEF WriteKb
<1>4. ver \in Nat \ {0}
  BY <1>2 DEF WriterRow
<1>5. OfAccepted(Sent(w)) /\ Sent(w) \in Section
  BY <1>1, SentIsAccepted DEF OfAccepted
<1>. HIDE DEF ver
<1>6. /\ request' \in [Writers -> WriterRow] /\ \A v \in Writers : WriterFits(v)'
      /\ Accepted \subseteq Accepted' /\ \A s : OfAccepted(s) => OfAccepted(s)'
      /\ RowsTell' /\ CredentialFits'
  BY <1>1, DoneKeeps
<1>7. kb' \in [chunk : Section, cut : Section, ver : Nat \ {0}, indexed : Nat \ {0}] /\ kb'.chunk = Sent(w)
  BY <1>2, <1>3, <1>4, <1>5
<1>8. OfAccepted(kb.chunk)'
  BY <1>5, <1>6, <1>7 DEF OfAccepted, ValidSection, WriteCeiling
<1>9. /\ tenant' \in [chunk : Section, quota : Writers \union {0}]
      /\ OfAccepted(tenant.chunk)' /\ (tenant.quota \in Accepted)'
  <2>1. OfAccepted(tenant.chunk) /\ tenant.quota \in Accepted /\ tenant \in [chunk : Section, quota : Writers \union {0}]
    BY DEF SettingsInv
  <2>. QED  BY <1>1, <1>6, <2>1 DEF OfAccepted
<1>. QED  BY <1>6, <1>7, <1>8, <1>9 DEF SettingsInv

LEMMA BreaksKeeps == ASSUME SettingsInv, NEW w \in Writers, Breaks(w)  PROVE SettingsInv'
<1>. DEFINE r == [request[w] EXCEPT !.at = "failed"]
<1>1. request \in [Writers -> WriterRow] /\ WriterFits(w) /\ request[w] \in WriterRow
  BY DEF SettingsInv
<1>2. request' = [request EXCEPT ![w] = r] /\ UNCHANGED <<tenant, kb, dek, sealed>> /\ Audited(w, "failed", FALSE)
  BY <1>1 DEF Breaks, WriterRow, Audited
<1>3. ValidBody(request[w].body)
  BY <1>1 DEF Breaks, WriterFits, Past
<1>4. /\ r \in WriterRow /\ r.body = request[w].body /\ r.at = "failed" /\ r.seen = request[w].seen
      /\ r.chunk = request[w].chunk /\ r.quota = request[w].quota
  BY <1>1 DEF WriterRow, Steps, Answered
<1>5. r.seen \in {0, dek'} /\ OfAccepted(r.chunk) /\ r.quota \in Accepted
  BY <1>1, <1>2, <1>4 DEF WriterFits
<1>. HIDE DEF r
<1>6. /\ request' \in [Writers -> WriterRow] /\ \A v \in Writers : WriterFits(v)'
      /\ Accepted \subseteq Accepted' /\ \A s : OfAccepted(s) => OfAccepted(s)'
      /\ \A v \in Writers : request'[v].body = request[v].body
  BY <1>2, <1>3, <1>4, <1>5, RequestSteps
<1>7. RowsTell'
  BY <1>2, <1>6, AuditSteps
<1>. QED  BY <1>2, <1>6, <1>7, QuietCredential, QuietSettings DEF SettingsInv

LEMMA RecutKeeps == ASSUME SettingsInv, Recut  PROVE SettingsInv'
<1>1. kb' = [kb EXCEPT !.cut = kb.chunk, !.indexed = kb.ver] /\ UNCHANGED <<tenant, dek, sealed, request, audit>>
  BY DEF Recut
<1>2. kb \in [chunk : Section, cut : Section, ver : Nat \ {0}, indexed : Nat \ {0}]
  BY DEF SettingsInv
<1>3. kb' \in [chunk : Section, cut : Section, ver : Nat \ {0}, indexed : Nat \ {0}] /\ kb'.chunk = kb.chunk
  BY <1>1, <1>2
<1>4. Accepted' = Accepted /\ \A s : OfAccepted(s)' <=> OfAccepted(s)
  BY <1>1 DEF Accepted, Past, OfAccepted, ValidSection, WriteCeiling
<1>5. CredentialFits' /\ RowsTell' /\ \A w \in Writers : WriterFits(w)'
  BY <1>1, <1>4 DEF SettingsInv, CredentialFits, RowsTell, Described, WriterFits, Past, OfAccepted
<1>6. OfAccepted(kb.chunk)' /\ OfAccepted(tenant.chunk)'
  BY <1>1, <1>3, <1>4 DEF SettingsInv, OfAccepted
<1>. QED  BY <1>1, <1>3, <1>4, <1>5, <1>6 DEF SettingsInv

LEMMA SettingsStutter == ASSUME SettingsInv, UNCHANGED settingsVars  PROVE SettingsInv'
<1>1. UNCHANGED <<tenant, kb, dek, sealed, request, audit>>
  BY DEF settingsVars
<1>2. Accepted' = Accepted /\ \A s : OfAccepted(s)' <=> OfAccepted(s)
  BY <1>1 DEF Accepted, Past, OfAccepted, ValidSection, WriteCeiling
<1>3. CredentialFits' /\ RowsTell' /\ \A w \in Writers : WriterFits(w)'
  BY <1>1, <1>2 DEF SettingsInv, CredentialFits, RowsTell, Described, WriterFits, Past, OfAccepted
<1>4. OfAccepted(kb.chunk)' /\ OfAccepted(tenant.chunk)'
  BY <1>1, <1>2 DEF SettingsInv, OfAccepted
<1>. QED  BY <1>1, <1>2, <1>3, <1>4 DEF SettingsInv

LEMMA SettingsSteps == SettingsInv /\ [SettingsNext]_settingsVars => SettingsInv'
<1>. SUFFICES ASSUME SettingsInv, [SettingsNext]_settingsVars  PROVE SettingsInv'
  OBVIOUS
<1>1. ASSUME NEW w \in Writers, Validate(w) \/ ReadDek(w) \/ Seal(w) \/ Revoke(w) \/ Read(w)  PROVE SettingsInv'
  BY <1>1, ValidateKeeps, ReadDekKeeps, SealKeeps, RevokeKeeps, ReadKeeps
<1>2. ASSUME NEW w \in Writers, WriteTenant(w) \/ WriteKb(w) \/ Breaks(w)  PROVE SettingsInv'
  BY <1>2, WriteTenantKeeps, WriteKbKeeps, BreaksKeeps
<1>. QED  BY <1>1, <1>2, RecutKeeps, SettingsStutter DEF SettingsNext

(* TenantSettingsService.update, KnowledgeBaseService.update, _dek and     *)
(* read_param: a credential that is stored can be opened, a request that   *)
(* was refused has left nothing, one that set or revoked a credential says *)
(* so, a target that is stored keeps its bounds and its overlap stays      *)
(* below it, whatever the defaults are, and what was accepted is what is   *)
(* used.                                                                   *)
THEOREM SettingsAreSound == SettingsSpec => []SettingsHold
<1>1. SettingsInit => SettingsInv
  BY SettingsStart
<1>2. SettingsInv => SettingsHold
  BY InvHolds
<1>. QED  BY <1>1, <1>2, SettingsSteps, PTL DEF SettingsSpec

(* KnowledgeBaseService.update reads the row and writes a version above    *)
(* the one it has read: while no two updates have read before one of them  *)
(* wrote, the version differs from the one that was cut for as long as the *)
(* chunks do.                                                              *)
Editing(w) == AtStep(w, "write") /\ Updating(w)
EditsFit ==
  /\ kb.indexed <= kb.ver /\ (~SameValues(kb.cut, kb.chunk) => kb.ver # kb.indexed)
  /\ \A w \in Writers : Editing(w) => request[w].chunk = kb.chunk /\ request[w].ver = kb.ver
  /\ \A v, w \in Writers : Editing(v) /\ Editing(w) => v = w
VersionFollows == overlapped \in BOOLEAN /\ (overlapped \/ EditsFit)

LEMMA BodiesStay ==
  ASSUME SettingsInv, [SettingsNext]_settingsVars
  PROVE  \A v \in Writers : request'[v].body = request[v].body
<1>1. request \in [Writers -> WriterRow]
  BY DEF SettingsInv
<1>2. ASSUME NEW w \in Writers, Validate(w) \/ ReadDek(w) \/ Seal(w) \/ Revoke(w) \/ Read(w)
      PROVE  \A v \in Writers : request'[v].body = request[v].body
  BY <1>1, <1>2 DEF Validate, ReadDek, Seal, Revoke, Read, WriterRow
<1>3. ASSUME NEW w \in Writers, WriteTenant(w) \/ WriteKb(w) \/ Breaks(w)
      PROVE  \A v \in Writers : request'[v].body = request[v].body
  <2>1. Done(w) \/ Breaks(w)
    BY <1>3 DEF WriteTenant, WriteKb
  <2>2. \/ request' = [request EXCEPT ![w].at = "ok", ![w].told = Described(w)]
        \/ request' = [request EXCEPT ![w].at = "failed"]
    BY <2>1 DEF Done, Breaks
  <2>. QED  BY <1>1, <2>2 DEF WriterRow
<1>4. Recut \/ UNCHANGED settingsVars => request' = request
  BY DEF Recut, settingsVars
<1>. QED  BY <1>2, <1>3, <1>4 DEF SettingsNext

(* Once two updates have overlapped, they have.                            *)
LEMMA OverlapStays ==
  ASSUME [SettingsNext]_settingsVars, overlapped  PROVE overlapped'
BY DEF SettingsNext, Validate, ReadDek, Seal, Revoke, Read, WriteTenant, WriteKb, Breaks, Recut, settingsVars

LEMMA WritingSteps ==
  ASSUME SettingsInv, NEW w \in Writers, [SettingsNext]_settingsVars, ~Read(w), AtStep(w, "write")'
  PROVE  request'[w] = request[w]
<1>1. request \in [Writers -> WriterRow]
  BY DEF SettingsInv
<1>2. ASSUME NEW v \in Writers, Validate(v) \/ ReadDek(v) \/ Seal(v) \/ Revoke(v)
      PROVE  request'[w] = request[w]
  BY <1>1, <1>2 DEF Validate, ReadDek, Seal, Revoke, WriterRow, AtStep
<1>3. ASSUME NEW v \in Writers, Read(v) \/ WriteTenant(v) \/ WriteKb(v) \/ Breaks(v)
      PROVE  request'[w] = request[w]
  BY <1>1, <1>3 DEF Read, WriteTenant, WriteKb, Done, Breaks, WriterRow, AtStep
<1>4. Recut \/ UNCHANGED settingsVars => request' = request
  BY DEF Recut, settingsVars
<1>. QED  BY <1>2, <1>3, <1>4 DEF SettingsNext

LEMMA EditsStayFit ==
  ASSUME SettingsInv, EditsFit, [SettingsNext]_settingsVars, ~overlapped'
  PROVE  EditsFit'
<1>1. \A v \in Writers : Updating(v)' <=> Updating(v)
  BY BodiesStay DEF Updating
<1>2. /\ kb \in [chunk : Section, cut : Section, ver : Nat \ {0}, indexed : Nat \ {0}]
      /\ request \in [Writers -> WriterRow]
  BY DEF SettingsInv
<1>3. ASSUME NEW v \in Writers, ~Read(v), Editing(v)'  PROVE Editing(v) /\ request'[v] = request[v]
  <2>1. request'[v] = request[v]
    BY <1>3, WritingSteps DEF Editing
  <2>. QED  BY <1>1, <1>3, <2>1 DEF Editing, AtStep
<1>4. ASSUME NEW w \in Writers, Read(w)  PROVE EditsFit'
  <2>1. kb' = kb /\ request'[w].chunk = (IF Updating(w) THEN kb.chunk ELSE tenant.chunk) /\ request'[w].ver = kb.ver
    BY <1>2, <1>4 DEF Read, WriterRow
  <2>2. ASSUME NEW v \in Writers, v # w  PROVE request'[v] = request[v]
    BY <1>2, <1>4, <2>2 DEF Read
  <2>3. ASSUME NEW v \in Writers, v # w, Updating(w)  PROVE ~Editing(v)
    BY <1>4, <2>3 DEF Read, Editing
  <2>4. ASSUME NEW v \in Writers, v # w, Editing(v)'  PROVE Editing(v) /\ request'[v] = request[v]
    BY <1>1, <2>2, <2>4 DEF Editing, AtStep
  <2>5. ASSUME NEW v \in Writers, Editing(v)'  PROVE request'[v].chunk = kb'.chunk /\ request'[v].ver = kb'.ver
    <3>1. CASE v = w
      <4>1. Updating(w)
        BY <1>1, <2>5, <3>1 DEF Editing
      <4>. QED  BY <2>1, <3>1, <4>1
    <3>2. CASE v # w
      BY <2>1, <2>4, <2>5, <3>2 DEF EditsFit
    <3>. QED  BY <3>1, <3>2
  <2>6. ASSUME NEW u \in Writers, NEW v \in Writers, Editing(u)', Editing(v)'  PROVE u = v
    <3>1. Updating(u) /\ Updating(v)
      BY <1>1, <2>6 DEF Editing
    <3>2. CASE u = w
      BY <2>3, <2>4, <2>6, <3>1, <3>2
    <3>3. CASE v = w
      BY <2>3, <2>4, <2>6, <3>1, <3>3
    <3>4. CASE u # w /\ v # w
      BY <2>4, <2>6, <3>4 DEF EditsFit
    <3>. QED  BY <3>2, <3>3, <3>4
  <2>. QED  BY <2>1, <2>5, <2>6 DEF EditsFit
<1>5. CASE kb' = kb /\ ~\E w \in Writers : Read(w)
  <2>1. \A v \in Writers : Editing(v)' => Editing(v) /\ request'[v] = request[v]
    BY <1>3, <1>5
  <2>. QED  BY <1>5, <2>1 DEF EditsFit
<1>6. CASE Recut
  <2>1. kb' = [kb EXCEPT !.cut = kb.chunk, !.indexed = kb.ver] /\ request' = request
    BY <1>6 DEF Recut
  <2>2. kb'.indexed = kb'.ver /\ kb'.cut = kb'.chunk /\ kb'.chunk = kb.chunk /\ kb'.ver = kb.ver /\ kb'.ver \in Nat
    BY <1>2, <2>1
  <2>3. kb'.indexed <= kb'.ver /\ SameValues(kb'.cut, kb'.chunk)
    BY <2>2 DEF SameValues
  <2>4. \A v \in Writers : Editing(v)' <=> Editing(v)
    BY <1>1, <2>1 DEF Editing, AtStep
  <2>. QED  BY <2>1, <2>2, <2>3, <2>4 DEF EditsFit
<1>7. ASSUME NEW w \in Writers, WriteKb(w)  PROVE EditsFit'
  <2>. DEFINE ver == IF ChunkingChanged(request[w].chunk, Sent(w)) THEN request[w].ver + 1 ELSE kb.ver
  <2>1. /\ Editing(w) /\ kb' = [kb EXCEPT !.chunk = Sent(w), !.ver = ver]
        /\ request' = [request EXCEPT ![w].at = "ok", ![w].told = Described(w)]
    BY <1>2, <1>7 DEF WriteKb, Done, Editing
  <2>2. request[w].chunk = kb.chunk /\ request[w].ver = kb.ver
    BY <2>1 DEF EditsFit
  <2>3. ver = (IF SameValues(kb.chunk, Sent(w)) THEN kb.ver ELSE kb.ver + 1)
    BY <2>2 DEF ChunkingChanged
  <2>. HIDE DEF ver
  <2>4. kb'.chunk = Sent(w) /\ kb'.ver = ver /\ kb'.cut = kb.cut /\ kb'.indexed = kb.indexed
    BY <1>2, <2>1
  <2>5. kb.indexed <= kb.ver /\ (~SameValues(kb.cut, kb.chunk) => kb.ver # kb.indexed)
    BY DEF EditsFit
  <2>6. kb'.indexed <= kb'.ver /\ (~SameValues(kb'.cut, kb'.chunk) => kb'.ver # kb'.indexed)
    BY <1>2, <2>3, <2>4, <2>5 DEF SameValues
  <2>7. ASSUME NEW v \in Writers, Editing(v)'  PROVE FALSE
    <3>1. ~Read(v)
      BY <1>2, <2>1, <2>7 DEF Read, Editing, AtStep, WriterRow
    <3>2. Editing(v) /\ request'[v] = request[v]
      BY <1>3, <2>7, <3>1
    <3>3. v = w
      BY <2>1, <3>2 DEF EditsFit
    <3>. QED  BY <1>2, <2>1, <3>2, <3>3 DEF Editing, AtStep, WriterRow
  <2>. QED  BY <2>6, <2>7 DEF EditsFit
<1>8. kb' = kb \/ Recut \/ \E w \in Writers : WriteKb(w)
  BY DEF SettingsNext, Validate, ReadDek, Seal, Revoke, Read, WriteTenant, Breaks, settingsVars
<1>. QED  BY <1>4, <1>5, <1>6, <1>7, <1>8

LEMMA VersionStays ==
  ASSUME SettingsInv, VersionFollows, [SettingsNext]_settingsVars
  PROVE  VersionFollows'
<1>1. overlapped' \in BOOLEAN
  BY DEF VersionFollows, SettingsNext, Validate, ReadDek, Seal, Revoke, Read, WriteTenant, WriteKb, Breaks,
         Recut, settingsVars
<1>2. overlapped => overlapped'
  BY OverlapStays
<1>3. ~overlapped /\ ~overlapped' => EditsFit'
  BY EditsStayFit DEF VersionFollows
<1>. QED  BY <1>1, <1>2, <1>3 DEF VersionFollows

(* _chunking_changed, KnowledgeBaseService.update: as long as no two       *)
(* updates of the knowledge base overlapped, a rebuild is asked for        *)
(* whenever the chunks were cut with other values, after any number of     *)
(* changes and of rebuilds between them.                                   *)
THEOREM RebuildsAreAsked == SettingsSpec => []RebuildIsAsked
<1>1. SettingsInit => SettingsInv /\ VersionFollows
  <2>. SUFFICES ASSUME SettingsInit  PROVE VersionFollows
    BY SettingsStart
  <2>1. PICK own \in Legacy : kb = [chunk |-> own, cut |-> own, ver |-> 1, indexed |-> 1]
    BY DEF SettingsInit, SettingsBegin
  <2>2. PICK plan \in Plans :
          request = [w \in Writers |-> [body |-> plan[w], at |-> "validate", seen |-> 0,
                                        chunk |-> NoSection, quota |-> 0, ver |-> 1, told |-> FALSE]]
    BY DEF SettingsInit, SettingsBegin
  <2>3. \A w \in Writers : ~Editing(w)
    BY <2>2 DEF Editing, AtStep
  <2>4. overlapped = FALSE
    BY DEF SettingsInit, SettingsBegin
  <2>5. EditsFit
    BY <2>1, <2>3 DEF EditsFit, SameValues
  <2>. QED  BY <2>4, <2>5 DEF VersionFollows
<1>2. SettingsInv /\ VersionFollows /\ [SettingsNext]_settingsVars => (SettingsInv /\ VersionFollows)'
  BY SettingsSteps, VersionStays
<1>3. VersionFollows => RebuildIsAsked
  BY DEF VersionFollows, EditsFit, RebuildIsAsked
<1>. QED  BY <1>1, <1>2, <1>3, PTL DEF SettingsSpec
=============================================================================
