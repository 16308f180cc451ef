---------------------------- MODULE QuotaProofs ----------------------------
(***************************************************************************)
(* The counters of a tenant, for any number of turns, tasks, periods and   *)
(* faults and any limits: the limits are kept, what was reserved comes     *)
(* back, and no counter stays immortal or below zero.                      *)
(***************************************************************************)
EXTENDS Quota, TLAPS, FiniteSetTheorems, SequenceTheorems, WellFoundedInduction

Gauges == {"streams", "slots"}
Pcs == Reserving \union Adjusting \union Resting \union {"held", "run", "record", "work"}
Corrections == [res : Resources, by : Int]
Counter == [n : Int, ttl : {"absent", "none", "set"}]
Row == [pc : Pcs, i : 1 .. 3, per : [Resources -> Periods], got : SUBSET Resources, seen : Int,
        usage : Int, todo : Seq(Corrections), then : {"off", "refused", "give", "done"}]

Types ==
  /\ ctr \in [Resources -> [Periods -> Counter]]
  /\ now \in Periods
  /\ cl \in [Clients -> Row]
  /\ rows \in [Periods -> Nat] /\ logged \in [Periods -> Nat]
  /\ recon \in [st : {"off", "never", "idle", "tokens", "messages"}, per : Periods,
                tokens : Nat, messages : Nat]
  /\ snap \in [Periodic -> [Periods -> Nat]]
  /\ lost \in {"no", "yes", "torn"} /\ faults \in 0 .. MaxFaults
  /\ lost # "no" => faults > 0

(* What a turn has before it takes the i-th of Order.                      *)
Before(i) == IF i = 1 THEN {} ELSE IF i = 2 THEN {"messages"} ELSE {"messages", "tokens"}
Whole == {"messages", "tokens", "streams"}
Place(c) == IF c \in Tasks THEN "slots" ELSE "streams"
Wanted(c, x) == IF c \in Tasks THEN "slots" ELSE Order[x.i]

(* The list of corrections still has one of r.                             *)
Listed(x, r) ==
  x.pc \in Adjusting /\ \E n \in 1 .. Len(x.todo) : x.todo[n].res = r /\ (n > 1 \/ x.pc = "adjust")

(* The three lists of corrections: the settlement of the tokens, the place *)
(* at the end, and what is left of all that a refused turn gives back.     *)
Giving(c, x) ==
  /\ x.then = "give" /\ c \in Turns /\ "streams" \in x.got /\ "messages" \notin x.got
  /\ Len(x.todo) = 1 /\ x.todo[1].res = "tokens" /\ x.todo[1].by >= 0 - Estimate
Closing(c, x) ==
  /\ x.then = "done" /\ x.todo = <<[res |-> Place(c), by |-> -1]>>
  /\ x.pc # "adjust" => Place(c) \notin x.got
Returning(c, x) ==
  /\ x.then = "refused" /\ c \in Turns /\ ("streams" \in x.got => Listed(x, "streams"))
  /\ \E d \in 0 .. 2 : /\ Len(x.todo) + d <= 3
                       /\ \A n \in 1 .. Len(x.todo) :
                            x.todo[n] = [res |-> Order[n + d], by |-> 0 - Amount(Order[n + d])]

(* What the place in the code says of the rest of a client.                *)
Fits(c, x) ==
  /\ \A r \in Gauges : x.per[r] = 0
  /\ x.got \subseteq IF c \in Tasks THEN {"slots"} ELSE Whole
  /\ x.pc \in Resting => x = Rest(x.pc)
  /\ x.pc \in Reserving => /\ x.got = IF c \in Tasks THEN {} ELSE Before(x.i)
                           /\ x.then = "off"
  /\ x.pc = "held" => c \in Turns /\ x.got = Whole /\ x.then = "off"
  /\ x.pc \in {"run", "record"} => c \in Turns /\ x.got = {"tokens", "streams"} /\ x.then = "off"
  /\ x.pc = "record" => x.usage \in Nat
  /\ x.pc = "work" => c \in Tasks /\ x.got = {"slots"} /\ x.then = "off"
  /\ x.pc \in Adjusting => x.todo # <<>> /\ (Giving(c, x) \/ Closing(c, x) \/ Returning(c, x))
  /\ x.pc = "clamp" => x.seen < 0

(* The client has added to the counter what it will take off again.        *)
Owes(c, x, r, p) ==
  /\ x.per[r] = p
  /\ \/ r \in x.got /\ x.then # "done"
     \/ x.pc \in {"expire", "undo"} /\ Wanted(c, x) = r
     \/ Listed(x, r)
Owing(r, p) == {c \in Clients : Owes(c, cl[c], r, p)}

(* Nothing is on a counter that nobody has added.                          *)
CounterCovers ==
  lost = "no" =>
    \A r \in Resources, p \in Periods :
      r \in Gauges \/ recon.st = "off" => ctr[r][p].n >= Amount(r) * Cardinality(Owing(r, p))

(* Without a fault a place that is counted is one that somebody gives back.*)
GaugesExact ==
  faults = 0 =>
    /\ \A r \in Gauges, p \in Periods : ctr[r][p].n = Cardinality(Owing(r, p))
    /\ \A c \in Clients : At(c, "clamp") => Op(c).res \notin Gauges

(* Holders, and those whom the number they have seen lets in.              *)
Entitled(c, x, r) == r \in x.got \/ (x.pc = "expire" /\ Wanted(c, x) = r /\ x.seen <= Limits[r])
Entering(r) == {c \in Clients : Entitled(c, cl[c], r)}
PlacesSuffice == lost = "no" => \A r \in Gauges : Cardinality(Entering(r)) <= Limits[r]

(* Who will put an expiry on a key that has none.                          *)
Tends(c, x, r, p) ==
  /\ x.per[r] = p /\ c \in Turns
  /\ \/ x.pc = "expire" /\ Wanted(c, x) = r
     \/ x.pc \in {"clamp", "keep"} /\ x.todo[1].res = r
KeysTended ==
  ~Faulty /\ lost # "torn" =>
    /\ \A c \in Clients : cl[c].pc \in {"expire", "undo"} => ctr[Res(c)][Per(c, Res(c))].ttl # "absent"
    /\ \A r \in Resources \ {"slots"}, p \in Periods :
         ctr[r][p].ttl = "none" => \E c \in Clients : Tends(c, cl[c], r, p)

(* Who will put back at least what a counter lacks.                        *)
Repays(c, x, r, p) == x.pc = "clamp" /\ x.todo[1].res = r /\ x.per[r] = p /\ x.seen <= ctr[r][p].n
DeficitsRepaid ==
  ~Faulty /\ recon.st = "off" /\ (\A c \in Turns : ~Refusing(c)) =>
    \A r \in Resources \ {"slots"}, p \in Periods :
      ctr[r][p].n < 0 => \E c \in Turns : Repays(c, cl[c], r, p)

(* A turn creates its message once.                                        *)
HasCreated(c) == c \in Turns /\ (cl[c].pc \in {"run", "record", "done", "dead"} \/ cl[c].then \in {"give", "done"})
Created == {c \in Clients : HasCreated(c)}
RowsBounded == \A p \in Periods : rows[p] <= Cardinality(Created)

Sound == Types /\ \A c \in Clients : Fits(c, cl[c])
QuotaInv ==
  /\ Sound /\ CounterCovers /\ GaugesExact /\ PlacesSuffice
  /\ KeysTended /\ DeficitsRepaid /\ RowsBounded

-----------------------------------------------------------------------------
(* What the building blocks return.                                        *)

LEMMA Basics ==
  /\ \A i \in 1 .. 3 : Order[i] \in Resources /\ Order[i] \in Whole
  /\ Order[1] = "messages" /\ Order[2] = "tokens" /\ Order[3] = "streams"
  /\ \A r \in Resources : Amount(r) \in Nat \ {0} /\ (r # "tokens" => Amount(r) = 1)
  /\ 0 \in Periods /\ Periods \subseteq Nat
  /\ IsFiniteSet(Clients) /\ \A c \in Clients : c \in Tasks <=> c \notin Turns
  /\ \A r \in Resources : Limits[r] \in Nat
BY QuotaAssumption DEF Order, Resources, Whole, Amount, Periods, Clients

(* The forms in which a client's record is changed.                        *)
Endings == {"off", "refused", "give", "done"}
LEMMA RowWith ==
  ASSUME NEW x \in Row, NEW pc \in Pcs
  PROVE  /\ [x EXCEPT !.pc = pc] \in Row
         /\ \A seen \in Int : [x EXCEPT !.pc = pc, !.seen = seen] \in Row
         /\ \A got \in SUBSET Resources, i \in 1 .. 3, seen \in Int :
              [x EXCEPT !.got = got, !.i = i, !.seen = seen, !.pc = pc] \in Row
         /\ \A got \in SUBSET Resources, seen \in Int :
              [x EXCEPT !.seen = seen, !.got = got, !.pc = pc] \in Row
         /\ \A todo \in Seq(Corrections), seen \in Int :
              [x EXCEPT !.todo = todo, !.pc = pc, !.seen = seen] \in Row
         /\ \A got \in SUBSET Resources, per \in [Resources -> Periods] :
              [x EXCEPT !.pc = pc, !.got = got, !.per = per] \in Row
         /\ \A usage \in Int : [x EXCEPT !.usage = usage, !.pc = pc] \in Row
         /\ \A todo \in Seq(Corrections), then \in Endings, usage \in Int :
              [x EXCEPT !.pc = pc, !.todo = todo, !.then = then, !.usage = usage] \in Row
         /\ \A todo \in Seq(Corrections), then \in Endings, got \in SUBSET Resources :
              [x EXCEPT !.todo = todo, !.then = then, !.got = got] \in Row
         /\ \A todo \in Seq(Corrections), then \in Endings, got \in SUBSET Resources, i \in 1 .. 3, seen \in Int :
              [x EXCEPT !.pc = pc, !.todo = todo, !.then = then, !.got = got, !.i = i, !.seen = seen] \in Row
BY DEF Row, Endings

LEMMA RestIsFit ==
  ASSUME NEW pc \in Resting \union {"adjust"}
  PROVE  /\ Rest(pc) \in Row /\ Rest(pc).pc = pc /\ Rest(pc).got = {} /\ Rest(pc).then = "off"
         /\ Rest(pc).todo = <<>> /\ Rest(pc).per = [r \in Resources |-> 0] /\ Rest(pc).i = 1
         /\ Rest(pc).seen = 0 /\ Idle \in Row /\ Idle.pc = "off"
<1>1. pc \in Pcs /\ 0 \in Periods
  BY Basics DEF Resting, Pcs, Adjusting
<1>2. Idle \in Row
  <2>1. [r \in Resources |-> 0] \in [Resources -> Periods] /\ <<>> \in Seq(Corrections) /\ "off" \in Pcs
    BY <1>1, EmptySeq DEF Pcs, Resting
  <2>. QED  BY <2>1 DEF Idle, Row
<1>3. Rest(pc) \in Row /\ Rest(pc).pc = pc
  BY <1>1, <1>2 DEF Rest, Row
<1>. QED  BY <1>2, <1>3 DEF Rest, Idle

LEMMA CountersMove ==
  ASSUME Types, NEW r \in Resources, NEW p \in Periods, NEW by \in Int, IncrBy(r, p, by)
  PROVE  /\ ctr' \in [Resources -> [Periods -> Counter]]
         /\ ctr'[r][p].n = ctr[r][p].n + by
         /\ ctr'[r][p].ttl = IF ctr[r][p].ttl = "absent" THEN "none" ELSE ctr[r][p].ttl
         /\ \A s \in Resources, q \in Periods : s # r \/ q # p => ctr'[s][q] = ctr[s][q]
<1>. DEFINE new == [n |-> ctr[r][p].n + by, ttl |-> IF ctr[r][p].ttl = "absent" THEN "none" ELSE ctr[r][p].ttl]
<1>1. ctr[r][p] \in Counter
  BY DEF Types
<1>2. new \in Counter
  BY <1>1 DEF Counter
<1>3. ctr' = [ctr EXCEPT ![r][p] = new]
  BY DEF IncrBy
<1>. HIDE DEF new
<1>4. ctr' \in [Resources -> [Periods -> Counter]] /\ ctr'[r][p] = new
      /\ \A s \in Resources, q \in Periods : s # r \/ q # p => ctr'[s][q] = ctr[s][q]
  BY <1>2, <1>3 DEF Types
<1>. QED  BY <1>4 DEF new

-----------------------------------------------------------------------------
(* What each step makes of its client.                                     *)

Moves(c) == cl' = [cl EXCEPT ![c] = cl'[c]] /\ cl'[c] \in Row /\ Fits(c, cl'[c])

LEMMA MoveTo ==
  ASSUME Types, NEW c \in Clients, NEW y \in Row, cl' = [cl EXCEPT ![c] = y], Fits(c, y)
  PROVE  Moves(c) /\ cl'[c] = y
BY DEF Types, Moves

LEMMA WantedIs ==
  ASSUME Types, NEW c \in Clients
  PROVE  /\ Res(c) = Wanted(c, cl[c]) /\ Res(c) \in Resources /\ cl[c] \in Row
         /\ KeyPeriod(Res(c)) \in Periods /\ Per(c, Res(c)) \in Periods
         /\ c \in Turns => Res(c) = Order[cl[c].i] /\ Res(c) \in Whole
         /\ c \in Tasks => Res(c) = "slots"
         /\ c \in Tasks <=> c \notin Turns
         /\ Res(c) \in Gauges => KeyPeriod(Res(c)) = 0
<1>1. cl[c] \in Row /\ cl[c].i \in 1 .. 3 /\ now \in Periods
  BY DEF Types, Row
<1>2. Res(c) = Wanted(c, cl[c]) /\ Res(c) \in Resources
      /\ (c \in Turns => Res(c) = Order[cl[c].i] /\ Res(c) \in Whole)
      /\ (c \in Tasks => Res(c) = "slots") /\ (c \in Tasks <=> c \notin Turns)
  BY <1>1, Basics DEF Res, Wanted, Resources
<1>3. KeyPeriod(Res(c)) \in Periods /\ (Res(c) \in Gauges => KeyPeriod(Res(c)) = 0)
  BY <1>1, Basics DEF KeyPeriod, Gauges, Periodic
<1>4. Per(c, Res(c)) \in Periods
  BY <1>1, <1>2 DEF Per, Row
<1>. QED  BY <1>1, <1>2, <1>3, <1>4

LEMMA IncrRow ==
  ASSUME Sound, NEW c \in Clients, Incr(c)
  PROVE  LET r == Res(c)  p == KeyPeriod(r) IN
         /\ Moves(c) /\ IncrBy(r, p, Amount(r)) /\ cl[c].pc \in {"off", "incr"}
         /\ cl'[c] = [cl[c] EXCEPT !.pc = "expire", !.per = [@ EXCEPT ![r] = p],
                                   !.seen = ctr[r][p].n + Amount(r)]
         /\ cl[c].got = (IF c \in Tasks THEN {} ELSE Before(cl[c].i)) /\ cl[c].then = "off"
<1>. DEFINE r == Res(c)
            p == KeyPeriod(r)
            x == cl[c]
            y == [x EXCEPT !.pc = "expire", !.per = [@ EXCEPT ![r] = p], !.seen = ctr[r][p].n + Amount(r)]
<1>0. Types /\ Fits(c, x)
  BY DEF Sound
<1>1. x \in Row /\ r \in Resources /\ p \in Periods /\ (r \in Gauges => p = 0)
  BY <1>0, WantedIs
<1>2. IncrBy(r, p, Amount(r)) /\ x.pc \in {"off", "incr"} /\ cl' = [cl EXCEPT ![c] = y]
  BY DEF Incr
<1>3. ctr[r][p].n + Amount(r) \in Int
  <2>. HIDE DEF r, p
  <2>1. ctr[r][p] \in Counter /\ Amount(r) \in Int
    BY <1>0, <1>1, Basics DEF Types
  <2>. QED  BY <2>1 DEF Counter
<1>4. y \in Row /\ y.pc = "expire" /\ y.per = [x.per EXCEPT ![r] = p] /\ y.got = x.got /\ y.then = x.then /\ y.i = x.i
  BY <1>1, <1>3 DEF Row, Pcs, Reserving
<1>5. x.got = (IF c \in Tasks THEN {} ELSE Before(x.i)) /\ x.then = "off"
  <2>1. CASE x.pc = "incr"
    BY <2>1, <1>0 DEF Fits, Reserving
  <2>2. CASE x.pc = "off"
    <3>1. x = Rest("off")
      BY <2>2, <1>0 DEF Fits, Resting
    <3>2. Rest("off").got = {} /\ Rest("off").i = 1 /\ Rest("off").then = "off"
      BY RestIsFit DEF Resting
    <3>3. x.got = {} /\ x.i = 1 /\ x.then = "off"
      BY <3>1, <3>2
    <3>4. Before(1) = {}
      BY DEF Before
    <3>. QED  BY <3>3, <3>4
  <2>. QED  BY <1>2, <2>1, <2>2
<1>6. \A s \in Gauges : y.per[s] = 0
  BY <1>0, <1>1, <1>4 DEF Fits, Row, Gauges, Resources
<1>7. Fits(c, y)
  BY <1>0, <1>4, <1>5, <1>6 DEF Fits, Resting, Reserving, Adjusting
<1>8. Moves(c) /\ cl'[c] = y
  <2>. HIDE DEF y
  <2>. QED  BY <1>0, <1>2, <1>4, <1>7, MoveTo
<1>. QED  BY <1>2, <1>5, <1>8

(* EXPIRE and EXPIRE NX change no number.                                  *)
OnlyExpiry(r, p, ttl) ==
  /\ ctr' \in [Resources -> [Periods -> Counter]] /\ ctr'[r][p].ttl = ttl
  /\ \A s \in Resources, q \in Periods :
       ctr'[s][q].n = ctr[s][q].n /\ (s # r \/ q # p => ctr'[s][q] = ctr[s][q])

LEMMA ExpiryMove ==
  ASSUME Types, NEW r \in Resources, NEW p \in Periods, NEW ttl \in {"absent", "none", "set"},
         ctr' = [ctr EXCEPT ![r][p].ttl = ttl]
  PROVE  OnlyExpiry(r, p, ttl)
<1>0. ctr \in [Resources -> [Periods -> Counter]]
  BY DEF Types
<1>. DEFINE new == [ctr[r][p] EXCEPT !.ttl = ttl]
<1>1. new \in Counter /\ new.n = ctr[r][p].n /\ new.ttl = ttl
  <2>1. ctr[r][p] \in Counter
    BY <1>0
  <2>. QED  BY <2>1 DEF Counter
<1>2. ctr' = [ctr EXCEPT ![r][p] = new]
  OBVIOUS
<1>. HIDE DEF new
<1>3. ctr' \in [Resources -> [Periods -> Counter]] /\ ctr'[r][p] = new
      /\ \A s \in Resources, q \in Periods : s # r \/ q # p => ctr'[s][q] = ctr[s][q]
  BY <1>0, <1>1, <1>2
<1>. QED  BY <1>1, <1>3 DEF OnlyExpiry

LEMMA CheckRow ==
  ASSUME Sound, NEW c \in Clients, Check(c)
  PROVE  LET r == Res(c)  p == Per(c, r)  x == cl[c]  y == cl'[c] IN
         /\ Moves(c) /\ x.pc = "expire" /\ x.then = "off" /\ y.per = x.per /\ y.then = "off"
         /\ x.got = (IF c \in Tasks THEN {} ELSE Before(x.i))
         /\ OnlyExpiry(r, p, IF ctr[r][p].ttl = "absent" THEN "absent" ELSE "set")
         /\ \/ y.pc = "undo" /\ y.got = x.got /\ y.i = x.i
            \/ y.pc \in {"work", "held", "incr"} /\ y.got = x.got \union {r} /\ x.seen <= Limits[r]
<1>. DEFINE r == Res(c)
            p == Per(c, r)
            x == cl[c]
            no == [x EXCEPT !.pc = "undo", !.seen = 0]
            next == IF c \in Tasks THEN "work" ELSE IF x.i = 3 THEN "held" ELSE "incr"
            i == IF x.i = 3 THEN 1 ELSE x.i + 1
            yes == [x EXCEPT !.got = @ \union {r}, !.i = i, !.seen = 0, !.pc = next]
<1>0. Types /\ Fits(c, x) /\ x.pc = "expire"
  BY DEF Sound, Check, At
<1>1. x \in Row /\ r \in Resources /\ p \in Periods /\ r = Wanted(c, x)
  BY <1>0, WantedIs
<1>2. OnlyExpiry(r, p, IF ctr[r][p].ttl = "absent" THEN "absent" ELSE "set")
  <2>1. ctr[r][p] \in Counter
    BY <1>0, <1>1 DEF Types
  <2>2. (IF ctr[r][p].ttl = "absent" THEN "absent" ELSE "set") \in {"absent", "none", "set"}
    OBVIOUS
  <2>3. ctr' = [ctr EXCEPT ![r][p].ttl = IF ctr[r][p].ttl = "absent" THEN "absent" ELSE "set"]
    BY DEF Check
  <2>. HIDE DEF r, p
  <2>. QED  BY <1>0, <1>1, <2>2, <2>3, ExpiryMove
<1>3. x.got = (IF c \in Tasks THEN {} ELSE Before(x.i)) /\ x.then = "off"
  BY <1>0 DEF Fits, Reserving
<1>4. CASE ~Admitted(c)
  <2>1. cl' = [cl EXCEPT ![c] = no]
    BY <1>4 DEF Check
  <2>2. no \in Row /\ no.pc = "undo" /\ no.got = x.got /\ no.i = x.i /\ no.per = x.per /\ no.then = x.then
    <3>. DEFINE zero == 0  undo == "undo"
    <3>1. zero \in Int /\ undo \in Pcs
      BY DEF Pcs, Reserving
    <3>. HIDE DEF zero, undo
    <3>2. [x EXCEPT !.pc = undo, !.seen = zero] \in Row
      BY <1>1, <3>1, RowWith
    <3>. USE DEF zero, undo
    <3>. QED  BY <1>1, <3>2 DEF Row
  <2>. HIDE DEF no
  <2>3. Fits(c, no)
    BY <1>0, <1>3, <2>2 DEF Fits, Resting, Reserving, Adjusting
  <2>4. Moves(c) /\ cl'[c] = no
    BY <1>0, <2>1, <2>2, <2>3, MoveTo
  <2>. QED  BY <1>0, <1>2, <1>3, <2>2, <2>4
<1>5. CASE Admitted(c)
  <2>1. cl' = [cl EXCEPT ![c] = yes]
    BY <1>5 DEF Check
  <2>2. i \in 1 .. 3 /\ next \in {"work", "held", "incr"}
    BY <1>1 DEF Row
  <2>3. yes \in Row /\ yes.pc = next /\ yes.got = x.got \union {r} /\ yes.i = i /\ yes.per = x.per /\ yes.then = x.then
    <3>. HIDE DEF r, p, i, next
    <3>. DEFINE zero == 0  got == x.got \union {r}
    <3>1. zero \in Int /\ next \in Pcs /\ got \in SUBSET Resources
      BY <1>1, <2>2 DEF Pcs, Reserving, Row
    <3>. HIDE DEF zero, next, i, got
    <3>2. [x EXCEPT !.got = got, !.i = i, !.seen = zero, !.pc = next] \in Row
      BY <1>1, <2>2, <3>1, RowWith
    <3>. USE DEF zero, got
    <3>. QED  BY <1>1, <3>2 DEF Row
  <2>4. x.seen <= Limits[r]
    BY <1>5 DEF Admitted
  <2>5. yes.got = IF c \in Tasks THEN {"slots"} ELSE IF x.i = 3 THEN Whole ELSE Before(i)
    <3>1. CASE c \in Tasks
      BY <3>1, <1>0, <1>1, <1>3, <2>3, WantedIs
    <3>2. CASE c \notin Tasks
      <4>1. r = Order[x.i] /\ x.i \in 1 .. 3
        BY <3>2, <1>0, <1>1, WantedIs DEF Row, Clients
      <4>. QED  BY <4>1, <3>2, <1>3, <2>3, Basics DEF Before, Whole
    <3>. QED  BY <3>1, <3>2
  <2>6. c \notin Tasks => c \in Turns
    BY DEF Clients
  <2>. HIDE DEF yes
  <2>7. Fits(c, yes)
    <3>1. yes.got \subseteq IF c \in Tasks THEN {"slots"} ELSE Whole
      BY <2>5 DEF Before, Whole
    <3>. QED  BY <1>0, <1>3, <2>2, <2>3, <2>5, <2>6, <3>1 DEF Fits, Resting, Reserving, Adjusting
  <2>. HIDE DEF i, next
  <2>8. Moves(c) /\ cl'[c] = yes
    BY <1>0, <2>1, <2>3, <2>7, MoveTo
  <2>. QED  BY <1>0, <1>2, <1>3, <2>2, <2>3, <2>4, <2>8
<1>. QED  BY <1>4, <1>5

LEMMA OneMore ==
  ASSUME NEW S, IsFiniteSet(S), NEW x, x \notin S
  PROVE  IsFiniteSet(S \union {x}) /\ Cardinality(S \union {x}) = Cardinality(S) + 1
BY FS_AddElement

(* The list of a turn that has taken the first k of Order.                 *)
LEMMA ReleasesOf ==
  ASSUME Types, NEW c \in Clients, NEW i \in 2 .. 4,
         cl[c].got = IF i = 4 THEN Whole ELSE Before(i)
  PROVE  /\ Releases(c) \in Seq(Corrections) /\ Len(Releases(c)) = i - 1
         /\ \A n \in 1 .. i - 1 : Releases(c)[n] = [res |-> Order[n], by |-> 0 - Amount(Order[n])]
         /\ \A r \in Resources : r \in cl[c].got <=> \E n \in 1 .. i - 1 : Releases(c)[n].res = r
<1>1. Cardinality(cl[c].got) = i - 1
  <2>. DEFINE one == {"messages"}
              two == {"messages", "tokens"}
  <2>1. Cardinality(one) = 1 /\ IsFiniteSet(one)
    BY FS_Singleton
  <2>2. two = one \union {"tokens"} /\ "tokens" \notin one
    OBVIOUS
  <2>3. Whole = two \union {"streams"} /\ "streams" \notin two
    BY DEF Whole
  <2>4. Before(2) = one /\ Before(3) = two /\ Cardinality({}) = 0
    BY FS_EmptySet DEF Before
  <2>. HIDE DEF one, two
  <2>5. IsFiniteSet(two) /\ Cardinality(two) = 2
    BY <2>1, <2>2, OneMore
  <2>6. Cardinality(Whole) = 3
    BY <2>3, <2>5, OneMore
  <2>. QED  BY <2>1, <2>4, <2>5, <2>6
<1>2. Releases(c) = [n \in 1 .. i - 1 |-> [res |-> Order[n], by |-> 0 - Amount(Order[n])]]
  BY <1>1 DEF Releases
<1>3. \A n \in 1 .. i - 1 : [res |-> Order[n], by |-> 0 - Amount(Order[n])] \in Corrections
  <2>1. \A n \in 1 .. i - 1 : n \in 1 .. 3
    OBVIOUS
  <2>2. \A n \in 1 .. 3 : Order[n] \in Resources /\ 0 - Amount(Order[n]) \in Int
    BY Basics
  <2>. QED  BY <2>1, <2>2 DEF Corrections
<1>4. Releases(c) \in Seq(Corrections) /\ Len(Releases(c)) = i - 1
  BY <1>2, <1>3, IsASeq, LenProperties
<1>5. \A n \in 1 .. i - 1 : Releases(c)[n] = [res |-> Order[n], by |-> 0 - Amount(Order[n])]
  BY <1>2
<1>6. \A r \in Resources : r \in cl[c].got <=> \E n \in 1 .. i - 1 : Order[n] = r
  BY Basics DEF Before, Whole
<1>7. ASSUME NEW n \in 1 .. i - 1 PROVE Releases(c)[n].res = Order[n]
  <2>1. Releases(c)[n] = [res |-> Order[n], by |-> 0 - Amount(Order[n])]
    BY <1>5
  <2>. QED  BY <2>1
<1>. QED  BY <1>4, <1>5, <1>6, <1>7

LEMMA RolledBack ==
  ASSUME Sound, NEW c \in Clients, cl[c].pc \in Reserving
  PROVE  LET x == cl[c]  y == Rollback(c) IN
         /\ y \in Row /\ Fits(c, y) /\ y.got = {} /\ y.pc \in {"refused", "adjust"}
         /\ y.pc = "refused" \/ y.then = "refused"
         /\ \A r \in Resources, p \in Periods : Owes(c, y, r, p) =>
              r \in x.got /\ x.per[r] = p /\ r \notin Gauges /\ r # Wanted(c, x)
<1>. DEFINE x == cl[c]
            y == Rollback(c)
<1>0. Types /\ Fits(c, x)
  BY DEF Sound
<1>1. x \in Row /\ x.got = (IF c \in Tasks THEN {} ELSE Before(x.i)) /\ (c \in Tasks <=> c \notin Turns)
  BY <1>0, WantedIs DEF Fits, Reserving
<1>2. CASE x.got = {}
  <2>1. y = Rest("refused")
    BY <1>2 DEF Rollback
  <2>2. /\ y \in Row /\ y.pc = "refused" /\ y.got = {} /\ y.then = "off" /\ y.todo = <<>>
        /\ y.per = [r \in Resources |-> 0]
    BY <2>1, RestIsFit DEF Resting
  <2>3. Fits(c, y)
    BY <2>1, <2>2 DEF Fits, Resting, Reserving, Adjusting, Gauges, Resources
  <2>4. \A r \in Resources, p \in Periods : ~Owes(c, y, r, p)
    BY <2>2 DEF Owes, Listed, Adjusting
  <2>. QED  BY <2>2, <2>3, <2>4
<1>3. CASE x.got # {}
  <2>1. c \in Turns /\ x.i \in 2 .. 3 /\ x.got = Before(x.i)
    BY <1>1, <1>3 DEF Before, Row
  <2>. DEFINE todo == Releases(c)
  <2>2. /\ todo \in Seq(Corrections) /\ Len(todo) = x.i - 1
        /\ \A n \in 1 .. x.i - 1 : todo[n] = [res |-> Order[n], by |-> 0 - Amount(Order[n])]
        /\ \A r \in Resources : r \in x.got <=> \E n \in 1 .. x.i - 1 : todo[n].res = r
    BY <1>0, <2>1, ReleasesOf
  <2>. DEFINE pc == "adjust"  then == "refused"  none == {}  zero == 0  one == 1
  <2>3. y = [x EXCEPT !.pc = pc, !.todo = todo, !.then = then, !.got = none, !.i = one, !.seen = zero]
    BY <1>3 DEF Rollback
  <2>4. pc \in Pcs /\ then \in Endings /\ none \in SUBSET Resources /\ zero \in Int /\ one \in 1 .. 3
    BY DEF Pcs, Adjusting, Endings
  <2>. HIDE DEF pc, then, none, zero, one, todo
  <2>5. y \in Row
    <3>1. [x EXCEPT !.pc = pc, !.todo = todo, !.then = then, !.got = none, !.i = one, !.seen = zero] \in Row
      <4>. HIDE DEF x
      <4>. QED  BY <1>1, <2>2, <2>4, RowWith
    <3>. QED  BY <2>3, <3>1
  <2>. USE DEF pc, then, none
  <2>6. y.pc = pc /\ y.todo = todo /\ y.then = then /\ y.got = none /\ y.per = x.per
    BY <1>1, <2>3 DEF Row
  <2>. HIDE DEF y
  <2>7. Returning(c, y)
    <3>1. \A n \in 1 .. Len(y.todo) : y.todo[n] = [res |-> Order[n + 0], by |-> 0 - Amount(Order[n + 0])]
      BY <2>2, <2>6, <2>1
    <3>. QED  BY <2>1, <2>2, <2>6, <3>1 DEF Returning
  <2>8. Fits(c, y)
    <3>1. y.todo # <<>>
      BY <2>1, <2>2, <2>6
    <3>. QED  BY <1>0, <2>6, <2>7, <3>1 DEF Fits, Resting, Reserving, Adjusting
  <2>9. \A r \in Resources, p \in Periods : Owes(c, y, r, p) => r \in x.got /\ x.per[r] = p
    BY <2>2, <2>6 DEF Owes, Listed
  <2>10. \A r \in x.got : r \notin Gauges /\ r # Wanted(c, x)
    BY <1>1, <2>1, Basics DEF Before, Gauges, Wanted
  <2>. USE DEF y
  <2>. QED  BY <2>5, <2>6, <2>8, <2>9, <2>10
<1>. QED  BY <1>2, <1>3

LEMMA Closed ==
  ASSUME Sound, NEW c \in Clients
  PROVE  LET x == cl[c]  y == Close(c) IN
         /\ y \in Row /\ y.pc = "adjust" /\ y.got = x.got /\ y.then = "done" /\ Fits(c, y)
         /\ y.todo = <<[res |-> Place(c), by |-> -1]>> /\ y.per = [r \in Resources |-> 0]
         /\ \A r \in Resources, p \in Periods : Owes(c, y, r, p) <=> r = Place(c) /\ p = 0
<1>. DEFINE x == cl[c]
            y == Close(c)
            rest == Rest("adjust")
            op == [res |-> Place(c), by |-> -1]
            todo == <<op>>
            then == "done"
            got == x.got
<1>0. Types /\ Fits(c, x) /\ x \in Row
  BY WantedIs DEF Sound
<1>1. rest \in Row /\ rest.pc = "adjust" /\ rest.per = [r \in Resources |-> 0]
  BY RestIsFit
<1>2. op \in Corrections /\ op.res = Place(c)
  BY DEF Corrections, Place, Resources
<1>3. todo \in Seq(Corrections) /\ Len(todo) = 1 /\ todo[1] = op
  <2>. HIDE DEF op
  <2>. QED  BY <1>2
<1>4. then \in Endings /\ got \in SUBSET Resources
  BY <1>0 DEF Endings, Row
<1>5. y = [rest EXCEPT !.todo = todo, !.then = then, !.got = got]
  BY DEF Close, Place
<1>. HIDE DEF rest, todo, then, got
<1>6. [rest EXCEPT !.todo = todo, !.then = then, !.got = got] \in Row
  BY <1>1, <1>3, <1>4, RowWith DEF Pcs, Adjusting
<1>7. y \in Row /\ y.pc = "adjust" /\ y.got = got /\ y.then = then /\ y.todo = todo /\ y.per = rest.per
  BY <1>1, <1>5, <1>6 DEF Row
<1>. USE DEF todo, then, got
<1>. HIDE DEF y
<1>8. Closing(c, y)
  BY <1>7 DEF Closing
<1>9. Fits(c, y)
  <2>1. y.todo # <<>>
    BY <1>3, <1>7
  <2>2. \A r \in Gauges : y.per[r] = 0
    BY <1>1, <1>7 DEF Gauges, Resources
  <2>. QED  BY <1>0, <1>7, <1>8, <2>1, <2>2 DEF Fits, Resting, Reserving, Adjusting
<1>10. ASSUME NEW r \in Resources, NEW p \in Periods PROVE Owes(c, y, r, p) <=> r = Place(c) /\ p = 0
  <2>1. y.per[r] = 0
    BY <1>1, <1>7
  <2>2. Listed(y, r) <=> r = Place(c)
    <3>. HIDE DEF op, todo
    <3>0. y.todo = todo
      BY <1>7
    <3>1. \A n \in 1 .. Len(todo) : n = 1 /\ todo[n].res = Place(c)
      BY <1>2, <1>3
    <3>2. 1 \in 1 .. Len(todo)
      BY <1>3
    <3>. QED  BY <1>7, <3>0, <3>1, <3>2 DEF Listed, Adjusting
  <2>. QED  BY <1>7, <2>1, <2>2 DEF Owes
<1>. USE DEF y
<1>. QED  BY <1>1, <1>7, <1>9, <1>10

LEMMA TodoIs ==
  ASSUME Sound, NEW c \in Clients, cl[c].pc \in Adjusting
  PROVE  LET x == cl[c] IN
         /\ x \in Row /\ x.todo \in Seq(Corrections) /\ Len(x.todo) >= 1 /\ Op(c) = x.todo[1]
         /\ Op(c) \in Corrections /\ Per(c, Op(c).res) \in Periods
         /\ Op(c).by >= 0 - Amount(Op(c).res)
         /\ Op(c).res \in Gauges => Op(c).by = -1 /\ Per(c, Op(c).res) = 0
         /\ Op(c).res = "slots" <=> c \in Tasks
         /\ \A n \in 2 .. Len(x.todo) : x.todo[n].res # Op(c).res
<1>. DEFINE x == cl[c]
<1>0. Types /\ Fits(c, x) /\ x \in Row /\ (c \in Tasks <=> c \notin Turns)
  BY WantedIs DEF Sound
<1>1. x.todo \in Seq(Corrections) /\ x.todo # <<>>
  BY <1>0 DEF Row, Fits
<1>2. Len(x.todo) >= 1 /\ Op(c) = x.todo[1] /\ x.todo[1] \in Corrections
  BY <1>1, HeadTailProperties, ElementOfSeq DEF Op
<1>3. x.todo[1].res \in Resources /\ x.todo[1].by \in Int
  BY <1>2 DEF Corrections
<1>4. Per(c, x.todo[1].res) \in Periods
  BY <1>0, <1>3 DEF Per, Row
<1>5. x.todo[1].res \in Gauges => Per(c, x.todo[1].res) = 0
  BY <1>0 DEF Fits, Per
<1>6. CASE Giving(c, x)
  <2>1. x.todo[1].res = "tokens" /\ Len(x.todo) = 1 /\ x.todo[1].by >= 0 - Amount("tokens") /\ c \in Turns
    BY <1>6 DEF Giving, Amount
  <2>. QED  BY <1>0, <1>1, <1>2, <1>4, <1>5, <2>1 DEF Gauges
<1>7. CASE Closing(c, x)
  <2>1. x.todo = <<[res |-> Place(c), by |-> -1]>>
    BY <1>7 DEF Closing
  <2>2. x.todo[1].res = Place(c) /\ x.todo[1].by = -1 /\ Len(x.todo) = 1
    BY <2>1
  <2>3. Amount(Place(c)) = 1 /\ (Place(c) = "slots" <=> c \in Tasks)
    BY DEF Amount, Place
  <2>. QED  BY <1>0, <1>1, <1>2, <1>4, <1>5, <2>2, <2>3
<1>8. CASE Returning(c, x)
  <2>1. PICK d \in 0 .. 2 : /\ Len(x.todo) + d <= 3
                            /\ \A n \in 1 .. Len(x.todo) :
                                 x.todo[n] = [res |-> Order[n + d], by |-> 0 - Amount(Order[n + d])]
    BY <1>8 DEF Returning
  <2>2. ASSUME NEW n \in 1 .. Len(x.todo)
        PROVE  x.todo[n].res = Order[n + d] /\ x.todo[n].by = 0 - Amount(Order[n + d])
    <3>1. x.todo[n] = [res |-> Order[n + d], by |-> 0 - Amount(Order[n + d])]
      BY <2>1
    <3>. QED  BY <3>1
  <2>3. 1 \in 1 .. Len(x.todo) /\ 1 + d \in 1 .. 3 /\ Order[1 + d] \in Whole
    BY <1>1, <1>2, <2>1, Basics
  <2>4. x.todo[1].res = Order[1 + d] /\ x.todo[1].by = 0 - Amount(Order[1 + d])
    BY <2>2, <2>3
  <2>5. \A n \in 2 .. Len(x.todo) : n + d \in 2 + d .. 3 /\ x.todo[n].res = Order[n + d]
    BY <1>1, <2>1, <2>2
  <2>6. \A m \in 2 + d .. 3 : Order[m] # Order[1 + d]
    BY Basics
  <2>7. Order[1 + d] # "slots" /\ c \notin Tasks /\ (Order[1 + d] \in Gauges => Amount(Order[1 + d]) = 1)
        /\ Amount(Order[1 + d]) \in Nat
    BY <2>3, <1>8, <1>0, Basics DEF Returning, Whole, Gauges, Resources
  <2>. QED  BY <1>0, <1>1, <1>2, <1>4, <1>5, <2>4, <2>5, <2>6, <2>7
<1>. QED  BY <1>0, <1>6, <1>7, <1>8 DEF Fits

LEMMA AdjustRow ==
  ASSUME Sound, NEW c \in Clients, Adjust(c)
  PROVE  LET x == cl[c]  y == cl'[c]  res == Op(c).res  p == Per(c, res) IN
         /\ Moves(c) /\ IncrBy(res, p, Op(c).by) /\ x.pc = "adjust" /\ y.then = x.then
         /\ y.got = x.got \ {res} /\ y.per = x.per /\ y.todo = x.todo
         /\ y.pc = IF ctr[res][p].n + Op(c).by < 0 THEN "clamp" ELSE "keep"
         /\ y.pc = "clamp" => y.seen = ctr[res][p].n + Op(c).by
         /\ Owes(c, x, res, p) /\ \A q \in Periods : ~Owes(c, y, res, q)
         /\ \A r \in Resources, q \in Periods : r # res => (Owes(c, y, r, q) <=> Owes(c, x, r, q))
<1>. DEFINE x == cl[c]
            res == Op(c).res
            p == Per(c, res)
            n == ctr[res][p].n + Op(c).by
            seen == IF n < 0 THEN n ELSE 0
            got == x.got \ {res}
            pc == IF n < 0 THEN "clamp" ELSE "keep"
            y == [x EXCEPT !.seen = seen, !.got = got, !.pc = pc]
<1>0. Types /\ Fits(c, x) /\ x.pc = "adjust" /\ x.pc \in Adjusting
  BY DEF Sound, Adjust, At, Adjusting
<1>1. /\ x \in Row /\ x.todo \in Seq(Corrections) /\ Len(x.todo) >= 1 /\ Op(c) = x.todo[1]
      /\ Op(c) \in Corrections /\ p \in Periods
      /\ \A m \in 2 .. Len(x.todo) : x.todo[m].res # res
  BY <1>0, TodoIs
<1>2. res \in Resources /\ Op(c).by \in Int
  BY <1>1 DEF Corrections
<1>3. cl' = [cl EXCEPT ![c] = y] /\ IncrBy(res, p, Op(c).by)
  BY DEF Adjust
<1>4. n \in Int /\ seen \in Int /\ pc \in {"clamp", "keep"} /\ got \in SUBSET Resources
  <2>. HIDE DEF res, p
  <2>1. ctr[res][p] \in Counter
    BY <1>0, <1>1, <1>2 DEF Types
  <2>2. ctr[res][p].n \in Int
    BY <2>1 DEF Counter
  <2>. QED  BY <1>1, <1>2, <2>2 DEF Row
<1>. HIDE DEF seen, got, pc, n
<1>5. y \in Row
  BY <1>1, <1>4, RowWith DEF Pcs, Adjusting
<1>6. y.seen = seen /\ y.got = got /\ y.pc = pc /\ y.per = x.per /\ y.todo = x.todo /\ y.then = x.then /\ y.i = x.i
  BY <1>1 DEF Row
<1>. HIDE DEF y
<1>7. y.got \subseteq x.got /\ res \notin y.got /\ (\A r \in x.got : r = res \/ r \in y.got)
  BY <1>6 DEF got
<1>8. \A r : Listed(y, r) <=> Listed(x, r) /\ r # res
  <2>1. \A r : Listed(y, r) <=> \E m \in 1 .. Len(x.todo) : x.todo[m].res = r /\ m > 1
    BY <1>4, <1>6 DEF Listed, Adjusting
  <2>2. \A r : Listed(x, r) <=> \E m \in 1 .. Len(x.todo) : x.todo[m].res = r
    BY <1>0 DEF Listed, Adjusting
  <2>3. Len(x.todo) \in Nat /\ x.todo[1].res = res
    BY <1>1
  <2>4. \A m \in 1 .. Len(x.todo) : m = 1 \/ (m > 1 /\ x.todo[m].res # res)
    BY <1>1, <2>3
  <2>5. \A m \in 1 .. Len(x.todo) : x.todo[m].res # res => m > 1
    BY <2>3, <2>4
  <2>. QED  BY <2>1, <2>2, <2>4, <2>5
<1>9. Listed(x, res) /\ ~Listed(y, res)
  <2>1. 1 \in 1 .. Len(x.todo)
    BY <1>1
  <2>. QED  BY <1>0, <1>1, <1>8, <2>1 DEF Listed
<1>10. Giving(c, x) => Giving(c, y)
  BY <1>1, <1>6, <1>7 DEF Giving
<1>11. Closing(c, x) => Closing(c, y)
  <2>1. ASSUME Closing(c, x) PROVE res = Place(c)
    <3>1. x.todo = <<[res |-> Place(c), by |-> -1]>>
      BY <2>1 DEF Closing
    <3>. QED  BY <1>1, <3>1
  <2>. QED  BY <1>6, <1>7, <2>1 DEF Closing
<1>12. Returning(c, x) => Returning(c, y)
  BY <1>6, <1>7, <1>8 DEF Returning
<1>13. Fits(c, y)
  <2>1. y.pc = "clamp" => y.seen < 0
    BY <1>4, <1>6 DEF seen, pc
  <2>2. y.pc \in {"clamp", "keep"}
    BY <1>4, <1>6
  <2>. QED
    BY <1>0, <1>6, <1>7, <1>10, <1>11, <1>12, <2>1, <2>2 DEF Fits, Resting, Reserving, Adjusting
<1>14. Moves(c) /\ cl'[c] = y
  BY <1>0, <1>3, <1>5, <1>13, MoveTo
<1>15. /\ Owes(c, x, res, p) /\ \A q \in Periods : ~Owes(c, y, res, q)
       /\ \A r \in Resources, q \in Periods : r # res => (Owes(c, y, r, q) <=> Owes(c, x, r, q))
  <2>1. x.per[res] = p
    BY DEF Per
  <2>2. y.pc \notin {"expire", "undo"} /\ x.pc \notin {"expire", "undo"}
    BY <1>0, <1>4, <1>6
  <2>. QED  BY <1>6, <1>7, <1>8, <1>9, <2>1, <2>2 DEF Owes
<1>. QED
  <2>1. y.got = x.got \ {res}
    BY <1>6 DEF got
  <2>2. y.pc = IF n < 0 THEN "clamp" ELSE "keep"
    BY <1>6 DEF pc
  <2>3. y.pc = "clamp" => y.seen = n
    BY <1>6 DEF seen, pc
  <2>. QED  BY <1>0, <1>3, <1>6, <1>14, <1>15, <2>1, <2>2, <2>3 DEF n

LEMMA ClampRow ==
  ASSUME Sound, NEW c \in Clients, Clamp(c)
  PROVE  LET x == cl[c]  y == cl'[c]  res == Op(c).res  p == Per(c, res) IN
         /\ Moves(c) /\ IncrBy(res, p, ClampBy(c)) /\ x.pc = "clamp" /\ y.pc = "keep"
         /\ y.got = x.got /\ y.per = x.per /\ y.todo = x.todo /\ y.then = x.then
         /\ ClampBy(c) \in Nat \ {0} /\ (c \in Turns => ClampBy(c) = 0 - x.seen)
         /\ \A r \in Resources, q \in Periods : Owes(c, y, r, q) <=> Owes(c, x, r, q)
<1>. DEFINE x == cl[c]
            y == [x EXCEPT !.pc = "keep"]
<1>0. Types /\ Fits(c, x) /\ x.pc = "clamp" /\ x \in Row /\ (c \in Tasks <=> c \notin Turns)
  BY WantedIs DEF Sound, Clamp, At
<1>1. IncrBy(Op(c).res, Per(c, Op(c).res), ClampBy(c)) /\ cl' = [cl EXCEPT ![c] = y]
  BY DEF Clamp, Goto
<1>2. y \in Row /\ y.pc = "keep" /\ y.got = x.got /\ y.per = x.per /\ y.todo = x.todo /\ y.then = x.then
      /\ y.i = x.i
  <2>1. y \in Row
    BY <1>0, RowWith DEF Pcs, Adjusting
  <2>. QED  BY <1>0, <2>1 DEF Row
<1>. HIDE DEF y
<1>3. \A r : Listed(y, r) <=> Listed(x, r)
  BY <1>0, <1>2 DEF Listed, Adjusting
<1>4. Fits(c, y)
  BY <1>0, <1>2, <1>3 DEF Fits, Resting, Reserving, Adjusting, Giving, Closing, Returning
<1>5. Moves(c) /\ cl'[c] = y
  BY <1>0, <1>1, <1>2, <1>4, MoveTo
<1>6. x.seen < 0 /\ x.seen \in Int
  BY <1>0 DEF Fits, Row
<1>7. ClampBy(c) \in Nat \ {0} /\ (c \in Turns => ClampBy(c) = 0 - x.seen)
  BY <1>0, <1>6 DEF ClampBy
<1>8. \A r \in Resources, q \in Periods : Owes(c, y, r, q) <=> Owes(c, x, r, q)
  BY <1>0, <1>2, <1>3 DEF Owes
<1>. QED  BY <1>0, <1>1, <1>2, <1>5, <1>7, <1>8

(* The end of a list, reached or given up.                                 *)
LEMMA LeaveRow ==
  ASSUME Sound, NEW c \in Clients, cl[c].pc \in Adjusting
  PROVE  LET x == cl[c]  y == Leave(c) IN
         /\ y \in Row /\ Fits(c, y) /\ y.got \subseteq x.got
         /\ \A r \in Resources, p \in Periods : Owes(c, y, r, p) => Owes(c, x, r, p)
         /\ x.then = "give" => y.then = "done"
         /\ x.then # "give" => y = Rest(x.then) /\ x.then \in {"done", "refused"}
<1>. DEFINE x == cl[c]
            y == Leave(c)
<1>0. Types /\ Fits(c, x) /\ x \in Row
  BY WantedIs DEF Sound
<1>1. Giving(c, x) \/ Closing(c, x) \/ Returning(c, x)
  BY <1>0 DEF Fits
<1>2. CASE x.then = "give"
  <2>1. y = Close(c)
    BY <1>2 DEF Leave
  <2>2. /\ y \in Row /\ y.pc = "adjust" /\ y.got = x.got /\ y.then = "done" /\ Fits(c, y)
        /\ \A r \in Resources, p \in Periods : Owes(c, y, r, p) <=> r = Place(c) /\ p = 0
    BY <2>1, Closed
  <2>3. Giving(c, x)
    BY <1>1, <1>2 DEF Closing, Returning
  <2>4. Place(c) = "streams" /\ "streams" \in x.got /\ x.per["streams"] = 0
    BY <1>0, <2>3, Basics DEF Giving, Place, Fits, Gauges, Clients
  <2>5. \A r \in Resources, p \in Periods : Owes(c, y, r, p) => Owes(c, x, r, p)
    BY <1>2, <2>2, <2>4 DEF Owes
  <2>. QED  BY <1>2, <2>2, <2>5
<1>3. CASE x.then # "give"
  <2>1. y = Rest(x.then) /\ x.then \in {"done", "refused"}
    BY <1>1, <1>3 DEF Leave, Giving, Closing, Returning
  <2>2. /\ y \in Row /\ y.pc = x.then /\ y.got = {} /\ y.then = "off" /\ y.todo = <<>>
        /\ y.per = [r \in Resources |-> 0]
    BY <2>1, RestIsFit DEF Resting
  <2>3. Fits(c, y)
    BY <2>1, <2>2 DEF Fits, Resting, Reserving, Adjusting, Gauges, Resources
  <2>4. \A r \in Resources, p \in Periods : ~Owes(c, y, r, p)
    BY <2>1, <2>2 DEF Owes, Listed, Adjusting
  <2>. QED  BY <1>3, <2>1, <2>2, <2>3, <2>4
<1>. QED  BY <1>2, <1>3

(* Without a fault the last entry of a list leaves no place behind.        *)
LEMMA KeepRow ==
  ASSUME Sound, NEW c \in Clients, Keep(c)
  PROVE  LET x == cl[c]  y == cl'[c]  res == Op(c).res  p == Per(c, res) IN
         /\ Moves(c) /\ OnlyExpiry(res, p, Kept(c, ctr[res][p].ttl)) /\ x.pc = "keep"
         /\ y.got \subseteq x.got /\ y.pc \notin {"expire", "undo", "clamp"}
         /\ \A r \in Resources, q \in Periods : Owes(c, y, r, q) => Owes(c, x, r, q)
         /\ \A r \in Gauges, q \in Periods : Owes(c, x, r, q) => Owes(c, y, r, q)
         /\ y = Leave(c) \/ (y.then = x.then /\ y.pc = "adjust")
<1>. DEFINE x == cl[c]
            y == IF Len(x.todo) > 1 THEN [x EXCEPT !.todo = Tail(x.todo), !.pc = "adjust", !.seen = 0]
                 ELSE Leave(c)
            res == Op(c).res
            p == Per(c, res)
<1>0. Types /\ Fits(c, x) /\ x.pc = "keep" /\ x.pc \in Adjusting
  BY DEF Sound, Keep, At, Adjusting
<1>1. /\ x \in Row /\ x.todo \in Seq(Corrections) /\ Len(x.todo) >= 1 /\ Op(c) = x.todo[1]
      /\ res \in Resources /\ p \in Periods
  BY <1>0, TodoIs DEF Corrections
<1>2. cl' = [cl EXCEPT ![c] = y] /\ ctr' = [ctr EXCEPT ![res][p].ttl = Kept(c, ctr[res][p].ttl)]
  BY DEF Keep
<1>3. OnlyExpiry(res, p, Kept(c, ctr[res][p].ttl))
  <2>. HIDE DEF res, p
  <2>1. ctr[res][p] \in Counter
    BY <1>0, <1>1 DEF Types
  <2>2. Kept(c, ctr[res][p].ttl) \in {"absent", "none", "set"}
    BY <2>1 DEF Kept, Counter
  <2>. QED  BY <1>0, <1>1, <1>2, <2>2, ExpiryMove
<1>l. Len(x.todo) \in Nat
  BY <1>1, LenProperties
<1>m. /\ Len(x.todo) > 1 => Len(x.todo) # 1
      /\ Len(x.todo) >= 1 /\ ~(Len(x.todo) > 1) => Len(x.todo) = 1
  <2>1. \A m \in Nat : (m > 1 => m # 1) /\ (m >= 1 /\ ~(m > 1) => m = 1)
    OBVIOUS
  <2>. QED  BY <1>l, <2>1
<1>4. CASE Len(x.todo) > 1
  <2>. DEFINE todo == Tail(x.todo)
              zero == 0
              pc == "adjust"
  <2>1. todo \in Seq(Corrections) /\ Len(todo) = Len(x.todo) - 1
        /\ \A n \in 1 .. Len(todo) : todo[n] = x.todo[n + 1]
    BY <1>1, <1>4, HeadTailProperties
  <2>2. y = [x EXCEPT !.todo = todo, !.pc = pc, !.seen = zero] /\ zero \in Int /\ pc \in Pcs
    BY <1>4 DEF Pcs, Adjusting
  <2>. HIDE DEF todo, zero, pc
  <2>3. y \in Row
    <3>1. [x EXCEPT !.todo = todo, !.pc = pc, !.seen = zero] \in Row
      BY <1>1, <2>1, <2>2, RowWith
    <3>. QED  BY <2>2, <3>1
  <2>4. y.pc = "adjust" /\ y.todo = todo /\ y.then = x.then /\ y.got = x.got /\ y.per = x.per
    BY <1>1, <2>2 DEF Row, pc
  <2>. HIDE DEF y
  <2>5. Returning(c, x)
    <3>1. ~Giving(c, x)
      BY <1>m, <1>4 DEF Giving
    <3>2. ~Closing(c, x)
      <4>1. Len(<<[res |-> Place(c), by |-> -1]>>) = 1
        OBVIOUS
      <4>. QED  BY <1>m, <1>4, <4>1 DEF Closing
    <3>. QED  BY <1>0, <3>1, <3>2 DEF Fits
  <2>6. \A r : Listed(y, r) <=> Listed(x, r)
    <3>1. \A r : Listed(y, r) <=> \E n \in 1 .. Len(todo) : todo[n].res = r
      BY <2>4 DEF Listed, Adjusting
    <3>2. \A r : Listed(x, r) <=> \E n \in 1 .. Len(x.todo) : x.todo[n].res = r /\ n > 1
      BY <1>0 DEF Listed, Adjusting
    <3>3. Len(x.todo) \in Nat
      BY <1>1
    <3>4. \A n \in 1 .. Len(todo) : n + 1 \in 1 .. Len(x.todo) /\ n + 1 > 1 /\ todo[n].res = x.todo[n + 1].res
      BY <2>1, <3>3
    <3>5. \A n \in 1 .. Len(x.todo) : n > 1 => n - 1 \in 1 .. Len(todo) /\ todo[n - 1].res = x.todo[n].res
      <4>1. \A n \in 1 .. Len(x.todo) : n > 1 => n - 1 \in 1 .. Len(todo) /\ (n - 1) + 1 = n
        BY <2>1, <3>3
      <4>. QED  BY <2>1, <4>1
    <3>. QED  BY <3>1, <3>2, <3>4, <3>5
  <2>7. Returning(c, y)
    <3>1. PICK d \in 0 .. 2 : /\ Len(x.todo) + d <= 3
                              /\ \A n \in 1 .. Len(x.todo) :
                                   x.todo[n] = [res |-> Order[n + d], by |-> 0 - Amount(Order[n + d])]
      BY <2>5 DEF Returning
    <3>2. d + 1 \in 0 .. 2 /\ Len(todo) + (d + 1) <= 3
      <4>1. \A k \in Nat : k > 1 /\ k + d <= 3 => d + 1 \in 0 .. 2 /\ (k - 1) + (d + 1) <= 3
        OBVIOUS
      <4>. QED  BY <1>l, <1>4, <2>1, <3>1, <4>1
    <3>3. ASSUME NEW n \in 1 .. Len(todo)
          PROVE  todo[n] = [res |-> Order[n + (d + 1)], by |-> 0 - Amount(Order[n + (d + 1)])]
      <4>1. n + 1 \in 1 .. Len(x.todo) /\ n + (d + 1) = (n + 1) + d /\ todo[n] = x.todo[n + 1]
        BY <1>l, <2>1, <3>2
      <4>. QED  BY <3>1, <4>1
    <3>. QED  BY <2>4, <2>5, <2>6, <3>2, <3>3 DEF Returning
  <2>8. Fits(c, y)
    <3>1. y.todo # <<>>
      BY <1>1, <1>4, <2>1, <2>4
    <3>. QED  BY <1>0, <2>4, <2>7, <3>1 DEF Fits, Resting, Reserving, Adjusting
  <2>9. Moves(c) /\ cl'[c] = y
    BY <1>0, <1>2, <2>3, <2>8, MoveTo
  <2>10. \A r \in Resources, q \in Periods : Owes(c, y, r, q) <=> Owes(c, x, r, q)
    BY <1>0, <2>4, <2>6 DEF Owes
  <2>. QED  BY <1>0, <1>3, <2>4, <2>9, <2>10 DEF Gauges, Resources
<1>5. CASE ~(Len(x.todo) > 1)
  <2>1. y = Leave(c)
    BY <1>5
  <2>. HIDE DEF y
  <2>2. /\ y \in Row /\ Fits(c, y) /\ y.got \subseteq x.got
        /\ \A r \in Resources, q \in Periods : Owes(c, y, r, q) => Owes(c, x, r, q)
    BY <1>0, <2>1, LeaveRow
  <2>3. Moves(c) /\ cl'[c] = y
    BY <1>0, <1>2, <2>2, MoveTo
  <2>4. y.pc \notin {"expire", "undo", "clamp"}
    <3>1. x.then # "give" => y = Rest(x.then) /\ x.then \in {"done", "refused"}
      BY <1>0, <2>1, LeaveRow
    <3>2. x.then = "give" => y = Close(c)
      BY <2>1 DEF Leave
    <3>3. Close(c).pc = "adjust" /\ Rest("done").pc = "done" /\ Rest("refused").pc = "refused"
      BY Closed, RestIsFit DEF Resting
    <3>. QED  BY <3>1, <3>2, <3>3
  <2>5. ASSUME NEW r \in Gauges, NEW q \in Periods, Owes(c, x, r, q) PROVE Owes(c, y, r, q)
    <3>1. ~Listed(x, r)
      <4>1. Len(x.todo) = 1
        BY <1>m, <1>1, <1>5
      <4>. QED  BY <1>0, <4>1 DEF Listed
    <3>2. r \in x.got /\ x.then # "done" /\ x.per[r] = q
      BY <1>0, <2>5, <3>1 DEF Owes
    <3>3. Giving(c, x)
      <4>1. ~Returning(c, x)
        <5>1. c \in Turns => r # "slots"
          BY <1>0, <3>2, Basics DEF Fits, Whole
        <5>. QED  BY <3>1, <3>2, <5>1 DEF Returning, Gauges
      <4>2. ~Closing(c, x)
        BY <3>2 DEF Closing
      <4>. QED  BY <1>0, <4>1, <4>2 DEF Fits
    <3>4. r = "streams" /\ Place(c) = "streams" /\ x.per[r] = 0
      BY <1>0, <3>2, <3>3, Basics DEF Giving, Place, Fits, Gauges, Whole, Clients
    <3>5. y = Close(c)
      BY <2>1, <3>3 DEF Giving, Leave
    <3>6. "streams" \in Resources /\ 0 \in Periods
      BY Basics DEF Resources
    <3>7. Owes(c, Close(c), "streams", 0)
      BY <3>4, <3>6, Closed
    <3>. QED  BY <3>2, <3>4, <3>5, <3>7
  <2>. QED  BY <1>0, <1>3, <2>1, <2>2, <2>3, <2>4, <2>5
<1>. QED  BY <1>4, <1>5

LEMMA CorrectRow ==
  ASSUME Sound, NEW c \in Clients, NEW todo \in Seq(Corrections), todo # <<>>, NEW then \in Endings
  PROVE  LET x == cl[c]  y == Correct(c, todo, then) IN
         /\ y \in Row /\ y.pc = "adjust" /\ y.todo = todo /\ y.then = then
         /\ y.got = x.got /\ y.per = x.per
<1>. DEFINE x == cl[c]
            pc == "adjust"
            usage == -1
            y == [x EXCEPT !.pc = pc, !.todo = todo, !.then = then, !.usage = usage]
<1>1. x \in Row /\ pc \in Pcs /\ usage \in Int
  BY WantedIs DEF Sound, Pcs, Adjusting
<1>2. Correct(c, todo, then) = y
  BY DEF Correct
<1>. HIDE DEF pc, usage
<1>3. y \in Row
  BY <1>1, RowWith
<1>4. y.pc = pc /\ y.todo = todo /\ y.then = then /\ y.got = x.got /\ y.per = x.per
  BY <1>1 DEF Row
<1>. QED  BY <1>2, <1>3, <1>4 DEF pc

LEMMA SettleRow ==
  ASSUME Sound, NEW c \in Clients, cl[c].pc \in {"run", "record"}, NEW u \in Nat \union {-1}
  PROVE  LET x == cl[c]  y == Correct(c, Settlement(u), "give") IN
         /\ y \in Row /\ Fits(c, y) /\ y.pc = "adjust" /\ y.then \in {"give", "done"} /\ y.got = x.got
         /\ \A r \in Resources, q \in Periods : Owes(c, y, r, q) => Owes(c, x, r, q)
         /\ \A r \in Gauges, q \in Periods : Owes(c, x, r, q) => Owes(c, y, r, q)
<1>. DEFINE x == cl[c]
            y == Correct(c, Settlement(u), "give")
<1>0. /\ Types /\ Fits(c, x) /\ x \in Row
      /\ c \in Turns /\ x.got = {"tokens", "streams"} /\ x.then = "off" /\ (c \in Tasks <=> c \notin Turns)
  BY WantedIs DEF Sound, Fits
<1>1. x.per["streams"] = 0 /\ Place(c) = "streams"
  BY <1>0 DEF Fits, Gauges, Place
<1>2. Estimate \in Nat \ {0}
  BY QuotaAssumption
<1>3. ASSUME NEW r \in Gauges, NEW q \in Periods
      PROVE  Owes(c, x, r, q) <=> r = "streams" /\ q = 0
  <2>1. ~Listed(x, r)
    BY DEF Listed, Adjusting
  <2>. QED  BY <1>0, <1>1, <2>1 DEF Owes, Gauges
<1>4. CASE Settlement(u) = <<>>
  <2>1. y = Close(c)
    BY <1>4 DEF Correct
  <2>. HIDE DEF y
  <2>2. /\ y \in Row /\ y.pc = "adjust" /\ y.got = x.got /\ y.then = "done" /\ Fits(c, y)
        /\ \A r \in Resources, p \in Periods : Owes(c, y, r, p) <=> r = "streams" /\ p = 0
    BY <2>1, <1>1, Closed
  <2>3. "streams" \in Gauges /\ 0 \in Periods /\ Gauges \subseteq Resources
    BY Basics DEF Gauges, Resources
  <2>. USE DEF y
  <2>. QED  BY <1>3, <2>2, <2>3
<1>5. CASE Settlement(u) # <<>>
  <2>. DEFINE by == IF u = -1 THEN 0 - Estimate ELSE u - Estimate
              op == [res |-> "tokens", by |-> by]
              todo == <<op>>
  <2>1. Settlement(u) = todo
    BY <1>5 DEF Settlement
  <2>2. by \in Int /\ by >= 0 - Estimate
    BY <1>2
  <2>. HIDE DEF by
  <2>3. op \in Corrections /\ op.res = "tokens" /\ op.by = by
    BY <2>2 DEF Corrections, Resources
  <2>. HIDE DEF op
  <2>4. todo \in Seq(Corrections) /\ Len(todo) = 1 /\ todo[1] = op /\ todo # <<>>
    BY <2>3
  <2>. HIDE DEF todo
  <2>5. y.pc = "adjust" /\ y.todo = todo /\ y.then = "give" /\ y.got = x.got /\ y.per = x.per /\ y \in Row
    BY <2>1, <2>4, CorrectRow DEF Endings
  <2>. HIDE DEF y
  <2>6. Giving(c, y)
    BY <1>0, <2>2, <2>3, <2>4, <2>5 DEF Giving
  <2>7. Fits(c, y)
    BY <1>0, <2>4, <2>5, <2>6 DEF Fits, Resting, Reserving, Adjusting
  <2>8. \A r : Listed(y, r) <=> r = "tokens"
    <3>1. \A n \in 1 .. Len(todo) : n = 1 /\ todo[n].res = "tokens"
      BY <2>3, <2>4
    <3>2. 1 \in 1 .. Len(todo)
      BY <2>4
    <3>. QED  BY <2>5, <3>1, <3>2 DEF Listed, Adjusting
  <2>9. ASSUME NEW r \in Resources, NEW q \in Periods, Owes(c, y, r, q) PROVE Owes(c, x, r, q)
    <3>1. r \in x.got /\ x.per[r] = q
      BY <1>0, <2>5, <2>8, <2>9 DEF Owes
    <3>. QED  BY <1>0, <3>1 DEF Owes
  <2>10. ASSUME NEW r \in Gauges, NEW q \in Periods, Owes(c, x, r, q) PROVE Owes(c, y, r, q)
    BY <1>0, <1>1, <1>3, <2>5, <2>10 DEF Owes
  <2>. USE DEF y
  <2>. QED  BY <2>5, <2>7, <2>9, <2>10
<1>. QED  BY <1>4, <1>5

(* A step that only lets go of what its client owed.                       *)
Ebbs(c) ==
  /\ Moves(c) /\ cl'[c].got \subseteq cl[c].got /\ cl'[c].pc \notin {"expire", "undo"}
  /\ \A r \in Resources, q \in Periods : Owes(c, cl'[c], r, q) => Owes(c, cl[c], r, q)
KeepsPlace(c) == \A r \in Gauges, q \in Periods : Owes(c, cl[c], r, q) => Owes(c, cl'[c], r, q)

LEMMA RefuseRow ==
  ASSUME Sound, NEW c \in Clients, Refuse(c)
  PROVE  LET r == Res(c)  p == Per(c, r)  x == cl[c]  y == cl'[c] IN
         /\ Ebbs(c) /\ IncrBy(r, p, 0 - Amount(r)) /\ x.pc = "undo"
         /\ y.pc \in {"refused", "adjust"} /\ (y.pc = "refused" \/ y.then = "refused")
         /\ Owes(c, x, r, p) /\ \A q \in Periods : ~Owes(c, y, r, q)
         /\ \A s \in Gauges, q \in Periods : Owes(c, x, s, q) => s = r /\ q = p
<1>. DEFINE r == Res(c)
            p == Per(c, r)
            x == cl[c]
            y == Rollback(c)
<1>0. Types /\ Fits(c, x) /\ x.pc = "undo" /\ x.pc \in Reserving
  BY DEF Sound, Refuse, At, Reserving
<1>1. x \in Row /\ r = Wanted(c, x) /\ (c \in Tasks <=> c \notin Turns)
  BY <1>0, WantedIs
<1>2. IncrBy(r, p, 0 - Amount(r)) /\ cl' = [cl EXCEPT ![c] = y]
  BY DEF Refuse, Undo
<1>3. /\ y \in Row /\ Fits(c, y) /\ y.got = {} /\ y.pc \in {"refused", "adjust"}
      /\ y.pc = "refused" \/ y.then = "refused"
      /\ \A s \in Resources, q \in Periods : Owes(c, y, s, q) =>
              s \in x.got /\ x.per[s] = q /\ s \notin Gauges /\ s # Wanted(c, x)
  BY <1>0, RolledBack
<1>. HIDE DEF y
<1>4. Moves(c) /\ cl'[c] = y
  BY <1>0, <1>2, <1>3, MoveTo
<1>5. x.then = "off" /\ x.got = IF c \in Tasks THEN {} ELSE Before(x.i)
  BY <1>0 DEF Fits, Reserving
<1>6. \A s \in Resources, q \in Periods : Owes(c, y, s, q) => Owes(c, x, s, q)
  BY <1>3, <1>5 DEF Owes
<1>7. Owes(c, x, r, p) /\ \A q \in Periods : ~Owes(c, y, r, q)
  <2>1. r \in Resources
    BY <1>0, WantedIs
  <2>. QED  BY <1>0, <1>1, <1>3, <2>1 DEF Owes, Per
<1>8. ASSUME NEW s \in Gauges, NEW q \in Periods, Owes(c, x, s, q) PROVE s = r /\ q = p
  <2>1. ~Listed(x, s)
    BY <1>0 DEF Listed, Adjusting
  <2>2. s \notin x.got
    BY <1>5 DEF Before, Gauges
  <2>3. s = r
    BY <1>1, <1>8, <2>1, <2>2 DEF Owes
  <2>. QED  BY <1>8, <2>3 DEF Owes, Per
<1>9. Ebbs(c)
  BY <1>3, <1>4, <1>6 DEF Ebbs
<1>. QED  BY <1>0, <1>2, <1>3, <1>4, <1>7, <1>8, <1>9

LEMMA CreateRow ==
  ASSUME Sound, NEW c \in Clients, Create(c)
  PROVE  LET x == cl[c]  y == cl'[c] IN
         /\ Ebbs(c) /\ KeepsPlace(c) /\ x.pc = "held" /\ x.then = "off" /\ c \in Turns
         /\ \/ y.pc = "run" /\ rows' = [rows EXCEPT ![now] = @ + 1] /\ faults' = faults
            \/ y.pc = "adjust" /\ rows' = rows /\ Fault
<1>. DEFINE x == cl[c]
<1>0. Types /\ Fits(c, x) /\ x.pc = "held" /\ x \in Row /\ (c \in Tasks <=> c \notin Turns)
  BY WantedIs DEF Sound, Create, At
<1>1. c \in Turns /\ x.got = Whole /\ x.then = "off"
  BY <1>0 DEF Fits
<1>2. ASSUME rows' = [rows EXCEPT ![now] = @ + 1], faults' = faults,
             cl' = [cl EXCEPT ![c] = [@ EXCEPT !.pc = "run", !.got = cl[c].got \ {"messages"},
                                             !.per["messages"] = 0]]
      PROVE  Ebbs(c) /\ KeepsPlace(c) /\ cl'[c].pc = "run"
  <2>. DEFINE pc == "run"
              got == x.got \ {"messages"}
              per == [x.per EXCEPT !["messages"] = 0]
              y == [x EXCEPT !.pc = pc, !.got = got, !.per = per]
  <2>1. pc \in Pcs /\ got \in SUBSET Resources /\ per \in [Resources -> Periods]
    BY <1>0, Basics DEF Row, Pcs
  <2>2. cl' = [cl EXCEPT ![c] = y]
    BY <1>2
  <2>3. got = {"tokens", "streams"}
    BY <1>1 DEF Whole
  <2>. HIDE DEF pc, got, per
  <2>4. y \in Row
    BY <1>0, <2>1, RowWith
  <2>5. y.pc = pc /\ y.got = got /\ y.per = per /\ y.then = x.then
    BY <1>0 DEF Row
  <2>. HIDE DEF y
  <2>6. \A r \in Resources : r # "messages" => y.per[r] = x.per[r]
    BY <1>0, <2>5 DEF per, Row
  <2>7. Fits(c, y)
    <3>1. \A r \in Gauges : y.per[r] = 0
      BY <1>0, <2>6 DEF Fits, Gauges, Resources
    <3>2. y.got \subseteq IF c \in Tasks THEN {"slots"} ELSE Whole
      BY <1>0, <1>1, <2>3, <2>5 DEF Whole
    <3>. QED  BY <1>1, <2>3, <2>5, <3>1, <3>2 DEF Fits, Resting, Reserving, Adjusting, pc
  <2>8. Moves(c) /\ cl'[c] = y
    BY <1>0, <2>2, <2>4, <2>7, MoveTo
  <2>9. ASSUME NEW r \in Resources, NEW q \in Periods
        PROVE  (Owes(c, y, r, q) => Owes(c, x, r, q)) /\ (r \in Gauges => (Owes(c, x, r, q) => Owes(c, y, r, q)))
    <3>1. ~Listed(y, r) /\ ~Listed(x, r)
      BY <1>0, <2>5 DEF Listed, Adjusting, pc
    <3>2. Owes(c, y, r, q) <=> y.per[r] = q /\ r \in {"tokens", "streams"}
      BY <1>1, <2>3, <2>5, <3>1 DEF Owes, pc
    <3>3. Owes(c, x, r, q) <=> x.per[r] = q /\ r \in Whole
      BY <1>0, <1>1, <3>1 DEF Owes
    <3>. QED  BY <2>6, <3>2, <3>3 DEF Whole, Gauges
  <2>10. y.got \subseteq x.got /\ y.pc = "run" /\ Gauges \subseteq Resources
    BY <2>5 DEF got, pc, Gauges, Resources
  <2>. QED  BY <2>8, <2>9, <2>10 DEF Ebbs, KeepsPlace
<1>3. ASSUME Fault, cl' = [cl EXCEPT ![c] = Correct(c, Releases(c), "refused")]
      PROVE  Ebbs(c) /\ KeepsPlace(c) /\ cl'[c].pc = "adjust"
  <2>. DEFINE y == Correct(c, Releases(c), "refused")
              todo == Releases(c)
  <2>1. /\ todo \in Seq(Corrections) /\ Len(todo) = 3
        /\ \A n \in 1 .. 3 : todo[n] = [res |-> Order[n], by |-> 0 - Amount(Order[n])]
        /\ \A r \in Resources : r \in x.got <=> \E n \in 1 .. 3 : todo[n].res = r
    <3>1. 4 \in 2 .. 4 /\ x.got = (IF 4 = 4 THEN Whole ELSE Before(4)) /\ 4 - 1 = 3
      BY <1>1
    <3>2. /\ todo \in Seq(Corrections) /\ Len(todo) = 4 - 1
          /\ \A n \in 1 .. 4 - 1 : todo[n] = [res |-> Order[n], by |-> 0 - Amount(Order[n])]
          /\ \A r \in Resources : r \in x.got <=> \E n \in 1 .. 4 - 1 : todo[n].res = r
      BY <1>0, <3>1, ReleasesOf
    <3>. QED  BY <3>1, <3>2
  <2>. HIDE DEF todo
  <2>a. todo \in Seq(Corrections) /\ Len(todo) = 3
    BY <2>1
  <2>2. todo # <<>>
    BY <2>a, EmptySeq
  <2>3. y \in Row /\ y.pc = "adjust" /\ y.todo = todo /\ y.then = "refused" /\ y.got = x.got /\ y.per = x.per
    BY <2>1, <2>2, CorrectRow DEF todo, Endings
  <2>4. cl' = [cl EXCEPT ![c] = y]
    BY <1>3
  <2>. HIDE DEF y
  <2>5. \A r \in Resources : Listed(y, r) <=> r \in x.got
    BY <2>1, <2>3 DEF Listed, Adjusting
  <2>6. Returning(c, y)
    <3>1. \A n \in 1 .. Len(y.todo) : y.todo[n] = [res |-> Order[n + 0], by |-> 0 - Amount(Order[n + 0])]
      <4>1. \A n \in 1 .. 3 : n + 0 = n
        OBVIOUS
      <4>. QED  BY <2>1, <2>3, <4>1
    <3>2. 0 \in 0 .. 2 /\ Len(y.todo) + 0 <= 3
      <4>1. Len(y.todo) = 3
        BY <2>a, <2>3
      <4>. QED  BY <4>1
    <3>3. "streams" \in y.got => Listed(y, "streams")
      BY <2>3, <2>5 DEF Resources
    <3>. QED  BY <1>1, <2>3, <3>1, <3>2, <3>3 DEF Returning
  <2>7. Fits(c, y)
    BY <1>0, <2>2, <2>3, <2>6 DEF Fits, Resting, Reserving, Adjusting
  <2>8. Moves(c) /\ cl'[c] = y
    BY <1>0, <2>3, <2>4, <2>7, MoveTo
  <2>9. \A r \in Resources, q \in Periods : Owes(c, y, r, q) <=> Owes(c, x, r, q)
    <3>1. \A r \in Resources : ~Listed(x, r)
      BY <1>0 DEF Listed, Adjusting
    <3>. QED  BY <1>0, <1>1, <2>3, <2>5, <3>1 DEF Owes
  <2>. QED  BY <2>3, <2>8, <2>9 DEF Ebbs, KeepsPlace, Gauges, Resources
<1>. QED  BY <1>0, <1>1, <1>2, <1>3 DEF Create

LEMMA GenerateRow ==
  ASSUME Sound, NEW c \in Clients, Generate(c)
  PROVE  LET x == cl[c]  y == cl'[c] IN
         /\ Ebbs(c) /\ KeepsPlace(c) /\ x.pc = "run" /\ x.then = "off" /\ c \in Turns
         /\ y.pc = "record" \/ (y.pc = "adjust" /\ y.then \in {"give", "done"})
         /\ faults' = faults \/ Fault
<1>. DEFINE x == cl[c]
<1>0. Types /\ Fits(c, x) /\ x.pc = "run" /\ x \in Row /\ c \in Turns /\ x.then = "off"
      /\ x.got = {"tokens", "streams"}
  BY WantedIs DEF Sound, Generate, At, Fits
<1>1. PICK u \in Actuals \union {-1} :
       \/ /\ cl' = [cl EXCEPT ![c] =
                 IF u = -1 THEN Correct(c, Settlement(u), "give")
                 ELSE [cl[c] EXCEPT !.usage = u, !.pc = "record"]]
          /\ faults' = faults
       \/ cl' = [cl EXCEPT ![c] = Correct(c, Settlement(u), "give")] /\ Fault
  BY DEF Generate
<1>2. u \in Nat \union {-1} /\ (u # -1 => u \in Nat)
  BY QuotaAssumption
<1>3. CASE cl' = [cl EXCEPT ![c] = Correct(c, Settlement(u), "give")]
  <2>. DEFINE y == Correct(c, Settlement(u), "give")
  <2>1. /\ y \in Row /\ Fits(c, y) /\ y.pc = "adjust" /\ y.then \in {"give", "done"} /\ y.got = x.got
        /\ \A r \in Resources, q \in Periods : Owes(c, y, r, q) => Owes(c, x, r, q)
        /\ \A r \in Gauges, q \in Periods : Owes(c, x, r, q) => Owes(c, y, r, q)
    BY <1>0, <1>2, SettleRow
  <2>. HIDE DEF y
  <2>2. Moves(c) /\ cl'[c] = y
    BY <1>0, <1>3, <2>1, MoveTo DEF y
  <2>. QED  BY <1>0, <1>1, <2>1, <2>2 DEF Ebbs, KeepsPlace
<1>4. CASE u # -1 /\ cl' = [cl EXCEPT ![c] = [cl[c] EXCEPT !.usage = u, !.pc = "record"]]
  <2>. DEFINE y == [x EXCEPT !.usage = u, !.pc = "record"]
  <2>1. y \in Row
    <3>. DEFINE pc == "record"
    <3>1. pc \in Pcs /\ u \in Int
      BY <1>2 DEF Pcs
    <3>. HIDE DEF pc
    <3>2. [x EXCEPT !.usage = u, !.pc = pc] \in Row
      BY <1>0, <3>1, RowWith
    <3>. QED  BY <3>2 DEF pc
  <2>2. y.pc = "record" /\ y.usage = u /\ y.got = x.got /\ y.per = x.per /\ y.then = x.then /\ y.todo = x.todo
    BY <1>0 DEF Row
  <2>3. cl' = [cl EXCEPT ![c] = y]
    BY <1>4
  <2>. HIDE DEF y
  <2>4. Fits(c, y)
    BY <1>0, <1>2, <1>4, <2>2 DEF Fits, Resting, Reserving, Adjusting
  <2>5. Moves(c) /\ cl'[c] = y
    BY <1>0, <2>1, <2>3, <2>4, MoveTo
  <2>6. \A r \in Resources, q \in Periods : Owes(c, y, r, q) <=> Owes(c, x, r, q)
    <3>1. \A r : ~Listed(x, r) /\ ~Listed(y, r)
      BY <1>0, <2>2 DEF Listed, Adjusting
    <3>. QED  BY <1>0, <2>2, <3>1 DEF Owes
  <2>. QED  BY <1>0, <1>1, <2>2, <2>5, <2>6 DEF Ebbs, KeepsPlace, Gauges, Resources
<1>. QED  BY <1>1, <1>3, <1>4

LEMMA RecordRow ==
  ASSUME Sound, NEW c \in Clients, Record(c)
  PROVE  LET x == cl[c]  y == cl'[c] IN
         /\ Ebbs(c) /\ KeepsPlace(c) /\ x.pc = "record" /\ x.then = "off" /\ c \in Turns
         /\ y.pc = "adjust" /\ y.then \in {"give", "done"} /\ x.usage \in Nat
         /\ faults' = faults \/ Fault
<1>. DEFINE x == cl[c]
            y == Correct(c, Settlement(x.usage), "give")
<1>0. Types /\ Fits(c, x) /\ x.pc = "record" /\ x \in Row /\ c \in Turns /\ x.then = "off" /\ x.usage \in Nat
  BY WantedIs DEF Sound, Record, At, Fits
<1>1. cl' = [cl EXCEPT ![c] = y]
  BY DEF Record
<1>2. /\ y \in Row /\ Fits(c, y) /\ y.pc = "adjust" /\ y.then \in {"give", "done"} /\ y.got = x.got
      /\ \A r \in Resources, q \in Periods : Owes(c, y, r, q) => Owes(c, x, r, q)
      /\ \A r \in Gauges, q \in Periods : Owes(c, x, r, q) => Owes(c, y, r, q)
  BY <1>0, SettleRow
<1>. HIDE DEF y
<1>3. Moves(c) /\ cl'[c] = y
  BY <1>0, <1>1, <1>2, MoveTo
<1>. QED  BY <1>0, <1>2, <1>3 DEF Ebbs, KeepsPlace, Record

LEMMA WorkRow ==
  ASSUME Sound, NEW c \in Clients, Work(c)
  PROVE  Ebbs(c) /\ KeepsPlace(c) /\ c \notin Turns /\ cl[c].pc = "work" /\ cl'[c].pc = "adjust"
<1>. DEFINE x == cl[c]
            y == Close(c)
<1>0. /\ Types /\ Fits(c, x) /\ x.pc = "work" /\ x \in Row /\ x.then = "off" /\ x.got = {"slots"}
      /\ c \in Tasks /\ c \notin Turns
  BY WantedIs DEF Sound, Work, At, Fits
<1>1. cl' = [cl EXCEPT ![c] = y]
  BY DEF Work
<1>2. /\ y \in Row /\ y.pc = "adjust" /\ y.got = x.got /\ Fits(c, y)
      /\ \A r \in Resources, q \in Periods : Owes(c, y, r, q) <=> r = "slots" /\ q = 0
  BY <1>0, Closed DEF Place
<1>. HIDE DEF y
<1>3. Moves(c) /\ cl'[c] = y
  BY <1>0, <1>1, <1>2, MoveTo
<1>4. \A r \in Resources, q \in Periods : Owes(c, x, r, q) <=> r = "slots" /\ q = 0
  BY <1>0 DEF Owes, Listed, Adjusting, Fits, Gauges
<1>. QED  BY <1>0, <1>2, <1>3, <1>4 DEF Ebbs, KeepsPlace, Gauges, Resources

LEMMA RestingOwesNothing ==
  ASSUME Sound, NEW c \in Clients, cl[c].pc \in Resting, NEW r \in Resources, NEW p \in Periods
  PROVE  ~Owes(c, cl[c], r, p) /\ cl[c].then = "off" /\ cl[c].got = {}
<1>1. cl[c] = Rest(cl[c].pc)
  BY DEF Sound, Fits
<1>2. cl[c].got = {} /\ cl[c].then = "off"
  BY <1>1, RestIsFit
<1>. QED  BY <1>2 DEF Owes, Listed, Adjusting, Resting

LEMMA RestingIsFit ==
  ASSUME Sound, NEW c \in Clients, NEW pc \in Resting
  PROVE  Rest(pc) \in Row /\ Fits(c, Rest(pc)) /\ \A r \in Resources, p \in Periods : ~Owes(c, Rest(pc), r, p)
<1>. DEFINE y == Rest(pc)
<1>1. /\ y \in Row /\ y.pc = pc /\ y.got = {} /\ y.then = "off" /\ y.todo = <<>>
      /\ y.per = [r \in Resources |-> 0]
  BY RestIsFit
<1>2. y = Rest(y.pc)
  BY <1>1
<1>. HIDE DEF y
<1>3. Fits(c, y)
  BY <1>1, <1>2 DEF Fits, Resting, Reserving, Adjusting, Gauges, Resources
<1>4. \A r \in Resources, p \in Periods : ~Owes(c, y, r, p)
  BY <1>1 DEF Owes, Listed, Adjusting, Resting
<1>. QED  BY <1>1, <1>3, <1>4 DEF y

LEMMA RequeueRow ==
  ASSUME Sound, NEW c \in Clients, Requeue(c)
  PROVE  Ebbs(c) /\ KeepsPlace(c) /\ c \notin Turns /\ cl[c].pc = "refused" /\ cl'[c].pc = "off"
<1>0. /\ Types /\ cl[c].pc = "refused" /\ cl[c].pc \in Resting /\ c \in Tasks /\ c \notin Turns
      /\ cl' = [cl EXCEPT ![c] = Idle]
  BY WantedIs DEF Sound, Requeue, At, Resting
<1>1. Idle = Rest("off")
  <2>1. ASSUME NEW x \in Row PROVE [x EXCEPT !.pc = x.pc] = x
    BY DEF Row
  <2>2. Idle \in Row /\ Idle.pc = "off"
    BY RestIsFit DEF Resting
  <2>. QED  BY <2>1, <2>2 DEF Rest
<1>2. "off" \in Resting
  BY DEF Resting
<1>3. /\ Rest("off") \in Row /\ Fits(c, Rest("off")) /\ Rest("off").pc = "off" /\ Rest("off").got = {}
      /\ \A r \in Resources, p \in Periods : ~Owes(c, Rest("off"), r, p)
  BY <1>2, RestIsFit, RestingIsFit
<1>4. Moves(c) /\ cl'[c] = Rest("off")
  BY <1>0, <1>1, <1>3, MoveTo
<1>. QED  BY <1>0, <1>3, <1>4, RestingOwesNothing DEF Ebbs, KeepsPlace, Gauges, Resources

LEMMA DieRow ==
  ASSUME Sound, NEW c \in Clients, Die(c)
  PROVE  Ebbs(c) /\ cl'[c].pc = "dead" /\ cl[c].pc \notin Resting /\ Fault
<1>0. Types /\ cl[c].pc \notin Resting /\ Fault /\ cl' = [cl EXCEPT ![c] = Rest("dead")] /\ "dead" \in Resting
  BY DEF Sound, Die, Resting
<1>3. /\ Rest("dead") \in Row /\ Fits(c, Rest("dead")) /\ Rest("dead").pc = "dead" /\ Rest("dead").got = {}
      /\ \A r \in Resources, p \in Periods : ~Owes(c, Rest("dead"), r, p)
  BY <1>0, RestIsFit, RestingIsFit
<1>4. Moves(c) /\ cl'[c] = Rest("dead")
  BY <1>0, <1>3, MoveTo
<1>. QED  BY <1>0, <1>3, <1>4 DEF Ebbs

LEMMA RaiseRow ==
  ASSUME Sound, NEW c \in Clients, Raise(c)
  PROVE  LET x == cl[c]  y == cl'[c] IN
         /\ Ebbs(c) /\ Fault /\ y.pc # "clamp" /\ x.pc \in Reserving \union Adjusting
         /\ x.pc \in Adjusting /\ x.then \in {"give", "done"} => y.then = "done" \/ y.pc = "done"
<1>. DEFINE x == cl[c]
            y == IF x.pc \in Reserving THEN Rollback(c) ELSE Leave(c)
<1>0. Types /\ Fits(c, x) /\ x.pc \in Reserving \union Adjusting /\ Fault /\ cl' = [cl EXCEPT ![c] = y]
  BY DEF Sound, Raise
<1>1. CASE x.pc \in Reserving
  <2>0. y = Rollback(c) /\ x.pc \notin Adjusting
    BY <1>1 DEF Reserving, Adjusting
  <2>1. /\ y \in Row /\ Fits(c, y) /\ y.got = {} /\ y.pc \in {"refused", "adjust"}
        /\ \A r \in Resources, p \in Periods : Owes(c, y, r, p) => r \in x.got /\ x.per[r] = p
    BY <1>1, <2>0, RolledBack
  <2>2. x.then = "off"
    BY <1>0, <1>1 DEF Fits
  <2>3. \A r \in Resources, p \in Periods : Owes(c, y, r, p) => Owes(c, x, r, p)
    BY <2>1, <2>2 DEF Owes
  <2>. HIDE DEF y
  <2>4. Moves(c) /\ cl'[c] = y
    BY <1>0, <2>1, MoveTo
  <2>. QED  BY <1>0, <2>0, <2>1, <2>3, <2>4 DEF Ebbs
<1>2. CASE x.pc \in Adjusting
  <2>0. y = Leave(c)
    BY <1>2 DEF Reserving, Adjusting
  <2>1. /\ y \in Row /\ Fits(c, y) /\ y.got \subseteq x.got
        /\ \A r \in Resources, p \in Periods : Owes(c, y, r, p) => Owes(c, x, r, p)
        /\ x.then = "give" => y.then = "done"
        /\ x.then # "give" => y = Rest(x.then) /\ x.then \in {"done", "refused"}
    BY <1>2, <2>0, LeaveRow
  <2>2. x.then = "give" => y.pc = "adjust"
    BY <2>0, Closed DEF Leave
  <2>3. Rest("done").pc = "done" /\ Rest("refused").pc = "refused"
    BY RestIsFit DEF Resting
  <2>4. y.pc \in {"adjust", "done", "refused"} /\ (x.then \in {"give", "done"} => y.then = "done" \/ y.pc = "done")
    BY <2>1, <2>2, <2>3
  <2>. HIDE DEF y
  <2>5. Moves(c) /\ cl'[c] = y
    BY <1>0, <2>1, MoveTo
  <2>. QED  BY <1>0, <2>1, <2>4, <2>5 DEF Ebbs
<1>. QED  BY <1>0, <1>1, <1>2

-----------------------------------------------------------------------------
(* What each step does to the counters, against what its client owes.      *)

Honest(c) ==
  \A r \in Resources, p \in Periods :
    LET was == Owes(c, cl[c], r, p)  is == Owes(c, cl'[c], r, p) IN
    /\ is /\ ~was => ctr'[r][p].n >= ctr[r][p].n + Amount(r)
    /\ was /\ ~is => ctr'[r][p].n >= ctr[r][p].n - Amount(r)
    /\ (is <=> was) => ctr'[r][p].n >= ctr[r][p].n
Law(c) == Moves(c) /\ ctr' \in [Resources -> [Periods -> Counter]] /\ Honest(c)

(* For the gauges to the number.                                           *)
Exact(c) ==
  \A r \in Gauges, p \in Periods :
    LET was == Owes(c, cl[c], r, p)  is == Owes(c, cl'[c], r, p) IN
    /\ is /\ ~was => ctr'[r][p].n = ctr[r][p].n + 1
    /\ was /\ ~is => ctr'[r][p].n = ctr[r][p].n - 1
    /\ (is <=> was) => ctr'[r][p].n = ctr[r][p].n

LEMMA Numbers ==
  ASSUME Types, NEW r \in Resources, NEW p \in Periods
  PROVE  ctr[r][p].n \in Int /\ ctr[r][p] \in Counter /\ Amount(r) \in Nat /\ Amount(r) > 0
<1>1. ctr[r][p] \in Counter
  BY DEF Types
<1>. QED  BY <1>1, Basics DEF Counter

LEMMA GaugesCountOnes == Gauges \subseteq Resources /\ \A r \in Gauges : Amount(r) = 1
BY DEF Gauges, Resources, Amount

LEMMA IncrLaw ==
  ASSUME Sound, NEW c \in Clients, Incr(c)
  PROVE  /\ Law(c) /\ Exact(c)
         /\ \A r \in Gauges : Entitled(c, cl'[c], r) =>
              Entitled(c, cl[c], r) \/ (r = Res(c) /\ ctr[r][0].n + 1 <= Limits[r])
<1>. DEFINE r == Res(c)
            p == KeyPeriod(r)
            x == cl[c]
            y == cl'[c]
<1>0. Types /\ r \in Resources /\ p \in Periods /\ r = Wanted(c, x) /\ x \in Row
  BY WantedIs DEF Sound
<1>1. /\ Moves(c) /\ IncrBy(r, p, Amount(r)) /\ x.pc \in {"off", "incr"}
      /\ y = [x EXCEPT !.pc = "expire", !.per = [@ EXCEPT ![r] = p], !.seen = ctr[r][p].n + Amount(r)]
      /\ x.got = (IF c \in Tasks THEN {} ELSE Before(x.i)) /\ x.then = "off"
  BY IncrRow
<1>2. y.pc = "expire" /\ y.per = [x.per EXCEPT ![r] = p] /\ y.seen = ctr[r][p].n + Amount(r)
      /\ y.got = x.got /\ y.i = x.i /\ y.then = "off"
  <2>. HIDE DEF y, r, p
  <2>. QED  BY <1>0, <1>1 DEF Row
<1>3. r \notin x.got /\ Wanted(c, y) = r
  <2>1. c \notin Tasks => r = Order[x.i] /\ x.i \in 1 .. 3
    BY <1>0 DEF Wanted, Row
  <2>2. Wanted(c, y) = r
    BY <1>0, <1>2 DEF Wanted
  <2>. QED  BY <1>1, <2>1, <2>2, Basics DEF Before
<1>4. y.per[r] = p /\ \A s \in Resources : s # r => y.per[s] = x.per[s]
  <2>. HIDE DEF r, p
  <2>. QED  BY <1>0, <1>2 DEF Row
<1>. HIDE DEF r, p, y
<1>5. \A s \in Resources, q \in Periods : Owes(c, x, s, q) <=> x.per[s] = q /\ s \in x.got
  BY <1>1 DEF Owes, Listed, Adjusting
<1>6. \A s \in Resources, q \in Periods : Owes(c, y, s, q) <=> y.per[s] = q /\ (s \in x.got \/ s = r)
  BY <1>2, <1>3 DEF Owes, Listed, Adjusting
<1>7. /\ ctr' \in [Resources -> [Periods -> Counter]]
      /\ ctr'[r][p].n = ctr[r][p].n + Amount(r)
      /\ \A s \in Resources, q \in Periods : s # r \/ q # p => ctr'[s][q] = ctr[s][q]
  <2>1. Amount(r) \in Int
    BY <1>0, Basics
  <2>. QED  BY <1>0, <1>1, <2>1, CountersMove
<1>8. Owes(c, y, r, p) /\ ~Owes(c, x, r, p)
  BY <1>0, <1>3, <1>4, <1>5, <1>6
<1>9. \A s \in Resources, q \in Periods : s # r \/ q # p =>
        (Owes(c, y, s, q) <=> Owes(c, x, s, q)) /\ ctr'[s][q] = ctr[s][q]
  BY <1>3, <1>4, <1>5, <1>6, <1>7
<1>10. Honest(c)
  BY <1>0, <1>7, <1>8, <1>9, Numbers DEF Honest, y
<1>11. Exact(c)
  BY <1>0, <1>7, <1>8, <1>9, GaugesCountOnes DEF Exact, y
<1>12. ASSUME NEW s \in Gauges, Entitled(c, y, s), ~Entitled(c, x, s)
       PROVE  s = r /\ ctr[s][0].n + 1 <= Limits[s]
  <2>1. s = r /\ y.seen <= Limits[s]
    BY <1>2, <1>3, <1>12 DEF Entitled
  <2>2. p = 0 /\ Amount(s) = 1
    BY <1>0, <2>1, WantedIs, GaugesCountOnes DEF r, p
  <2>. QED  BY <1>2, <2>1, <2>2
<1>. QED  BY <1>1, <1>7, <1>10, <1>11, <1>12 DEF Law, y, r

LEMMA CheckLaw ==
  ASSUME Sound, NEW c \in Clients, Check(c)
  PROVE  /\ Law(c) /\ Exact(c)
         /\ \A r \in Gauges : Entitled(c, cl'[c], r) => Entitled(c, cl[c], r)
<1>. DEFINE r == Res(c)
            p == Per(c, r)
            x == cl[c]
            y == cl'[c]
<1>0. Types /\ r \in Resources /\ p \in Periods /\ r = Wanted(c, x) /\ x \in Row
  BY WantedIs DEF Sound
<1>1. /\ Moves(c) /\ x.pc = "expire" /\ x.then = "off" /\ y.per = x.per /\ y.then = "off"
      /\ x.got = (IF c \in Tasks THEN {} ELSE Before(x.i))
      /\ OnlyExpiry(r, p, IF ctr[r][p].ttl = "absent" THEN "absent" ELSE "set")
      /\ \/ y.pc = "undo" /\ y.got = x.got /\ y.i = x.i
         \/ y.pc \in {"work", "held", "incr"} /\ y.got = x.got \union {r} /\ x.seen <= Limits[r]
  BY CheckRow
<1>2. ctr' \in [Resources -> [Periods -> Counter]]
      /\ \A s \in Resources, q \in Periods : ctr'[s][q].n = ctr[s][q].n
  BY <1>1 DEF OnlyExpiry
<1>. HIDE DEF r, p, y
<1>3. \A s : Owes(c, x, s, x.per[s]) <=> s \in x.got \/ s = r
  BY <1>0, <1>1 DEF Owes, Listed, Adjusting
<1>4. \A s : Owes(c, y, s, x.per[s]) <=> s \in x.got \/ s = r
  <2>1. \A s : ~Listed(y, s)
    BY <1>1 DEF Listed, Adjusting
  <2>2. CASE y.pc = "undo" /\ y.got = x.got /\ y.i = x.i
    <3>1. Wanted(c, y) = r
      BY <1>0, <2>2 DEF Wanted
    <3>. QED  BY <1>1, <2>1, <2>2, <3>1 DEF Owes
  <2>3. CASE y.pc \in {"work", "held", "incr"} /\ y.got = x.got \union {r}
    BY <1>1, <2>1, <2>3 DEF Owes
  <2>. QED  BY <1>1, <2>2, <2>3
<1>5. \A s \in Resources, q \in Periods : Owes(c, y, s, q) <=> Owes(c, x, s, q)
  BY <1>1, <1>3, <1>4 DEF Owes
<1>6. Honest(c) /\ Exact(c)
  BY <1>0, <1>2, <1>5, Numbers, GaugesCountOnes DEF Honest, Exact, y
<1>7. ASSUME NEW s \in Gauges, Entitled(c, y, s) PROVE Entitled(c, x, s)
  BY <1>0, <1>1, <1>7 DEF Entitled
<1>. QED  BY <1>1, <1>2, <1>6, <1>7 DEF Law, y

(* The counters stay as they are, but for expiries, while the client lets  *)
(* go of something.                                                        *)
LEMMA EbbLaw ==
  ASSUME Sound, NEW c \in Clients, Ebbs(c), ctr' \in [Resources -> [Periods -> Counter]],
         \A r \in Resources, p \in Periods : ctr'[r][p].n = ctr[r][p].n
  PROVE  Law(c) /\ (KeepsPlace(c) => Exact(c))
<1>0. Types
  BY DEF Sound
<1>1. Honest(c)
  BY <1>0, Numbers DEF Honest, Ebbs
<1>2. KeepsPlace(c) => Exact(c)
  BY GaugesCountOnes DEF KeepsPlace, Exact, Ebbs
<1>. QED  BY <1>1, <1>2 DEF Law, Ebbs

LEMMA RefuseLaw ==
  ASSUME Sound, NEW c \in Clients, Refuse(c)
  PROVE  Law(c) /\ Exact(c) /\ Ebbs(c)
<1>. DEFINE r == Res(c)
            p == Per(c, r)
            x == cl[c]
            y == cl'[c]
<1>0. Types /\ r \in Resources /\ p \in Periods /\ Amount(r) \in Int
  BY WantedIs, Basics DEF Sound
<1>1. /\ Ebbs(c) /\ IncrBy(r, p, 0 - Amount(r)) /\ x.pc = "undo"
      /\ Owes(c, x, r, p) /\ \A q \in Periods : ~Owes(c, y, r, q)
      /\ \A s \in Gauges, q \in Periods : Owes(c, x, s, q) => s = r /\ q = p
  BY RefuseRow
<1>. HIDE DEF r, p
<1>2. /\ ctr' \in [Resources -> [Periods -> Counter]]
      /\ ctr'[r][p].n = ctr[r][p].n + (0 - Amount(r))
      /\ \A s \in Resources, q \in Periods : s # r \/ q # p => ctr'[s][q] = ctr[s][q]
  <2>1. 0 - Amount(r) \in Int
    BY <1>0
  <2>. QED  BY <1>0, <1>1, <2>1, CountersMove
<1>3. ctr'[r][p].n = ctr[r][p].n - Amount(r)
  BY <1>0, <1>2, Numbers
<1>4. Honest(c)
  BY <1>0, <1>1, <1>2, <1>3, Numbers DEF Honest, Ebbs
<1>5. Exact(c)
  BY <1>0, <1>1, <1>2, <1>3, Numbers, GaugesCountOnes DEF Exact, Ebbs
<1>. QED  BY <1>1, <1>2, <1>4, <1>5 DEF Law, Ebbs

LEMMA AdjustLaw ==
  ASSUME Sound, NEW c \in Clients, Adjust(c)
  PROVE  Law(c) /\ Exact(c) /\ Ebbs(c)
<1>. DEFINE x == cl[c]
            y == cl'[c]
            res == Op(c).res
            p == Per(c, res)
<1>1. /\ Moves(c) /\ IncrBy(res, p, Op(c).by) /\ x.pc = "adjust"
      /\ y.got = x.got \ {res} /\ y.pc = IF ctr[res][p].n + Op(c).by < 0 THEN "clamp" ELSE "keep"
      /\ Owes(c, x, res, p) /\ \A q \in Periods : ~Owes(c, y, res, q)
      /\ \A r \in Resources, q \in Periods : r # res => (Owes(c, y, r, q) <=> Owes(c, x, r, q))
  BY AdjustRow
<1>2. /\ Op(c) \in Corrections /\ p \in Periods /\ Op(c).by >= 0 - Amount(res)
      /\ res \in Gauges => Op(c).by = -1 /\ p = 0
  BY <1>1, TodoIs DEF Adjusting
<1>3. Types /\ res \in Resources /\ Op(c).by \in Int
  BY <1>2 DEF Corrections, Sound
<1>. HIDE DEF res, p
<1>4. /\ ctr' \in [Resources -> [Periods -> Counter]]
      /\ ctr'[res][p].n = ctr[res][p].n + Op(c).by
      /\ \A s \in Resources, q \in Periods : s # res \/ q # p => ctr'[s][q] = ctr[s][q]
  BY <1>1, <1>2, <1>3, CountersMove
<1>5. \A q \in Periods : Owes(c, x, res, q) => q = p
  BY <1>1 DEF Owes
<1>6. Honest(c)
  <2>1. ctr'[res][p].n >= ctr[res][p].n - Amount(res)
    BY <1>2, <1>3, <1>4, Numbers
  <2>. QED  BY <1>1, <1>2, <1>3, <1>4, <1>5, <2>1, Numbers DEF Honest
<1>7. Exact(c)
  <2>1. res \in Gauges => ctr'[res][p].n = ctr[res][p].n - 1
    BY <1>2, <1>3, <1>4, Numbers
  <2>. QED  BY <1>1, <1>2, <1>3, <1>4, <1>5, <2>1, Numbers, GaugesCountOnes DEF Exact
<1>8. Ebbs(c)
  BY <1>1 DEF Ebbs
<1>. QED  BY <1>1, <1>4, <1>6, <1>7, <1>8 DEF Law

LEMMA ClampLaw ==
  ASSUME Sound, NEW c \in Clients, Clamp(c)
  PROVE  Law(c) /\ Ebbs(c) /\ (Op(c).res \notin Gauges => Exact(c))
<1>. DEFINE x == cl[c]
            y == cl'[c]
            res == Op(c).res
            p == Per(c, res)
<1>1. /\ Moves(c) /\ IncrBy(res, p, ClampBy(c)) /\ x.pc = "clamp" /\ y.pc = "keep"
      /\ y.got = x.got /\ ClampBy(c) \in Nat \ {0}
      /\ \A r \in Resources, q \in Periods : Owes(c, y, r, q) <=> Owes(c, x, r, q)
  BY ClampRow
<1>2. Op(c) \in Corrections /\ p \in Periods
  BY <1>1, TodoIs DEF Adjusting
<1>3. Types /\ res \in Resources /\ ClampBy(c) \in Int
  BY <1>1, <1>2 DEF Corrections, Sound
<1>. HIDE DEF res, p
<1>4. /\ ctr' \in [Resources -> [Periods -> Counter]]
      /\ ctr'[res][p].n = ctr[res][p].n + ClampBy(c)
      /\ \A s \in Resources, q \in Periods : s # res \/ q # p => ctr'[s][q] = ctr[s][q]
  BY <1>1, <1>2, <1>3, CountersMove
<1>5. Honest(c)
  BY <1>1, <1>2, <1>3, <1>4, Numbers DEF Honest
<1>6. res \notin Gauges => Exact(c)
  BY <1>1, <1>2, <1>3, <1>4, Numbers, GaugesCountOnes DEF Exact
<1>. QED  BY <1>1, <1>4, <1>5, <1>6 DEF Law, Ebbs, res

LEMMA KeepLaw ==
  ASSUME Sound, NEW c \in Clients, Keep(c)
  PROVE  Law(c) /\ Exact(c) /\ Ebbs(c)
<1>1. /\ Moves(c) /\ OnlyExpiry(Op(c).res, Per(c, Op(c).res), Kept(c, ctr[Op(c).res][Per(c, Op(c).res)].ttl))
      /\ cl'[c].got \subseteq cl[c].got /\ cl'[c].pc \notin {"expire", "undo"}
      /\ \A r \in Resources, q \in Periods : Owes(c, cl'[c], r, q) => Owes(c, cl[c], r, q)
      /\ \A r \in Gauges, q \in Periods : Owes(c, cl[c], r, q) => Owes(c, cl'[c], r, q)
  BY KeepRow
<1>2. Ebbs(c) /\ KeepsPlace(c)
  BY <1>1 DEF Ebbs, KeepsPlace
<1>. QED  BY <1>1, <1>2, EbbLaw DEF OnlyExpiry

(* The steps that touch no counter.                                        *)
Plain(c) == Create(c) \/ Generate(c) \/ Record(c) \/ Work(c) \/ Requeue(c) \/ Raise(c) \/ Die(c)

LEMMA PlainLaw ==
  ASSUME Sound, NEW c \in Clients, Plain(c)
  PROVE  Law(c) /\ Ebbs(c) /\ ctr' = ctr /\ (faults' = faults => Exact(c))
<1>1. ctr' = ctr
  BY DEF Plain, Create, Generate, Record, Work, Requeue, Raise, Die
<1>2. Ebbs(c)
  BY CreateRow, GenerateRow, RecordRow, WorkRow, RequeueRow, RaiseRow, DieRow DEF Plain
<1>3. faults' = faults => KeepsPlace(c)
  <2>1. Fault => faults' # faults
    BY DEF Fault, Sound, Types
  <2>. QED  BY <2>1, CreateRow, GenerateRow, RecordRow, WorkRow, RequeueRow, RaiseRow, DieRow DEF Plain
<1>4. ctr' \in [Resources -> [Periods -> Counter]]
  BY <1>1 DEF Sound, Types
<1>. QED  BY <1>1, <1>2, <1>3, <1>4, EbbLaw

-----------------------------------------------------------------------------
(* Nothing is on a counter that nobody has added, and on the gauges, as    *)
(* long as nothing fails, all of it.                                       *)

LEMMA OwingMoves ==
  ASSUME Types, NEW c \in Clients, Moves(c), NEW r \in Resources, NEW p \in Periods
  PROVE  LET was == Owes(c, cl[c], r, p)  is == Owes(c, cl'[c], r, p) IN
         /\ Cardinality(Owing(r, p)) \in Nat /\ Cardinality(Owing(r, p)') \in Nat
         /\ is /\ ~was => Cardinality(Owing(r, p)') = Cardinality(Owing(r, p)) + 1
         /\ was /\ ~is => Cardinality(Owing(r, p)') = Cardinality(Owing(r, p)) - 1
         /\ (is <=> was) => Owing(r, p)' = Owing(r, p)
<1>1. IsFiniteSet(Clients)
  BY Basics
<1>2. IsFiniteSet(Owing(r, p)) /\ IsFiniteSet(Owing(r, p)')
  BY <1>1, FS_Subset DEF Owing
<1>3. Cardinality(Owing(r, p)) \in Nat /\ Cardinality(Owing(r, p)') \in Nat
  BY <1>2, FS_CardinalityType
<1>4. \A d \in Clients : d # c => cl'[d] = cl[d]
  BY DEF Moves, Types
<1>5. ASSUME Owes(c, cl'[c], r, p), ~Owes(c, cl[c], r, p)
      PROVE  Cardinality(Owing(r, p)') = Cardinality(Owing(r, p)) + 1
  <2>1. Owing(r, p)' = Owing(r, p) \union {c} /\ c \notin Owing(r, p)
    BY <1>4, <1>5 DEF Owing
  <2>. QED  BY <1>2, <2>1, OneMore
<1>6. ASSUME Owes(c, cl[c], r, p), ~Owes(c, cl'[c], r, p)
      PROVE  Cardinality(Owing(r, p)') = Cardinality(Owing(r, p)) - 1
  <2>1. Owing(r, p) = Owing(r, p)' \union {c} /\ c \notin Owing(r, p)'
    BY <1>4, <1>6 DEF Owing
  <2>2. Cardinality(Owing(r, p)) = Cardinality(Owing(r, p)') + 1
    BY <1>2, <2>1, OneMore
  <2>. QED  BY <1>3, <2>2
<1>7. ASSUME Owes(c, cl'[c], r, p) <=> Owes(c, cl[c], r, p)
      PROVE  Owing(r, p)' = Owing(r, p)
  BY <1>4, <1>7 DEF Owing
<1>. QED  BY <1>3, <1>5, <1>6, <1>7

LEMMA CoversStep ==
  ASSUME Sound, CounterCovers, NEW c \in Clients, Law(c), lost' = lost, recon' = recon
  PROVE  CounterCovers'
<1>. SUFFICES ASSUME lost = "no", NEW r \in Resources, NEW p \in Periods, r \in Gauges \/ recon.st = "off"
              PROVE  ctr'[r][p].n >= Amount(r) * Cardinality(Owing(r, p)')
  BY DEF CounterCovers
<1>. DEFINE was == Owes(c, cl[c], r, p)
            is == Owes(c, cl'[c], r, p)
            k == Cardinality(Owing(r, p))
            j == Cardinality(Owing(r, p)')
            n == ctr[r][p].n
            m == ctr'[r][p].n
            a == Amount(r)
<1>0. Types /\ Moves(c)
  BY DEF Sound, Law
<1>1. n >= a * k
  BY DEF CounterCovers
<1>2. n \in Int /\ m \in Int /\ a \in Nat
  <2>1. ctr'[r][p] \in Counter
    BY DEF Law
  <2>. QED  BY <1>0, <2>1, Numbers DEF Counter
<1>3. /\ k \in Nat /\ j \in Nat
      /\ is /\ ~was => j = k + 1
      /\ was /\ ~is => j = k - 1
      /\ (is <=> was) => j = k
  BY <1>0, OwingMoves
<1>4. /\ is /\ ~was => m >= n + a
      /\ was /\ ~is => m >= n - a
      /\ (is <=> was) => m >= n
  BY DEF Law, Honest
<1>. HIDE DEF was, is, k, j, n, m, a
<1>5. a * (k + 1) = a * k + a /\ a * (k - 1) = a * k - a /\ a * k \in Int
  BY <1>2, <1>3
<1>6. m >= a * j
  BY <1>1, <1>2, <1>3, <1>4, <1>5
<1>. QED  BY <1>6 DEF m, a, j

LEMMA ExactStep ==
  ASSUME Sound, NEW c \in Clients, Moves(c), Exact(c), ctr' \in [Resources -> [Periods -> Counter]],
         \A r \in Gauges, p \in Periods : ctr[r][p].n = Cardinality(Owing(r, p))
  PROVE  \A r \in Gauges, p \in Periods : ctr'[r][p].n = Cardinality(Owing(r, p)')
<1>. TAKE r \in Gauges, p \in Periods
<1>. DEFINE was == Owes(c, cl[c], r, p)
            is == Owes(c, cl'[c], r, p)
            k == Cardinality(Owing(r, p))
            j == Cardinality(Owing(r, p)')
            n == ctr[r][p].n
            m == ctr'[r][p].n
<1>1. r \in Resources /\ Types
  BY GaugesCountOnes DEF Sound
<1>2. /\ k \in Nat /\ j \in Nat
      /\ is /\ ~was => j = k + 1
      /\ was /\ ~is => j = k - 1
      /\ (is <=> was) => j = k
  BY <1>1, OwingMoves
<1>3. /\ is /\ ~was => m = n + 1
      /\ was /\ ~is => m = n - 1
      /\ (is <=> was) => m = n
  BY DEF Exact
<1>4. n = k
  OBVIOUS
<1>. HIDE DEF was, is, k, j, n, m
<1>5. m = j
  BY <1>2, <1>3, <1>4
<1>. QED  BY <1>5 DEF m, j

(* A gauge is never below what its clients owe, so that giving a place     *)
(* back never takes it below zero.                                         *)
LEMMA NoClampOfAGauge ==
  ASSUME Sound, NEW c \in Clients, Adjust(c), Op(c).res \in Gauges,
         \A r \in Gauges, p \in Periods : ctr[r][p].n = Cardinality(Owing(r, p))
  PROVE  cl'[c].pc = "keep"
<1>. DEFINE res == Op(c).res
            p == Per(c, res)
<1>1. /\ Owes(c, cl[c], res, p) /\ cl[c].pc = "adjust"
      /\ cl'[c].pc = IF ctr[res][p].n + Op(c).by < 0 THEN "clamp" ELSE "keep"
  BY AdjustRow
<1>2. p \in Periods /\ Op(c).by = -1
  BY <1>1, TodoIs DEF Adjusting
<1>3. c \in Owing(res, p) /\ IsFiniteSet(Owing(res, p))
  BY <1>1, Basics, FS_Subset DEF Owing
<1>4. Cardinality(Owing(res, p)) \in Nat /\ Cardinality(Owing(res, p)) # 0
  BY <1>3, FS_CardinalityType, FS_EmptySet
<1>5. ctr[res][p].n = Cardinality(Owing(res, p))
  BY <1>2
<1>. HIDE DEF p
<1>. QED  BY <1>1, <1>2, <1>4, <1>5

Client(c) == Step(c) \/ Raise(c) \/ Die(c)

LEMMA ClientLaw ==
  ASSUME Sound, NEW c \in Clients, Client(c)
  PROVE  /\ Law(c) /\ now' = now /\ lost' = lost /\ recon' = recon /\ snap' = snap
         /\ Incr(c) \/ Check(c) \/ Ebbs(c)
<1>1. Incr(c) \/ Check(c) \/ Refuse(c) \/ Adjust(c) \/ Clamp(c) \/ Keep(c) \/ Plain(c)
  BY DEF Client, Step, Plain
<1>2. Law(c) /\ (Incr(c) \/ Check(c) \/ Ebbs(c))
  BY <1>1, IncrLaw, CheckLaw, RefuseLaw, AdjustLaw, ClampLaw, KeepLaw, PlainLaw
<1>3. now' = now /\ lost' = lost /\ recon' = recon /\ snap' = snap
  BY <1>1 DEF Plain, Incr, Check, Refuse, Adjust, Clamp, Keep, Create, Generate, Record, Work, Requeue,
              Raise, Die, DbSame
<1>. QED  BY <1>2, <1>3

LEMMA OnlyAdjustClamps ==
  ASSUME Sound, NEW c \in Clients, Client(c), cl'[c].pc = "clamp"
  PROVE  Adjust(c)
<1>1. Incr(c) \/ Check(c) \/ Refuse(c) \/ Adjust(c) \/ Clamp(c) \/ Keep(c) \/ Create(c) \/ Generate(c)
      \/ Record(c) \/ Work(c) \/ Requeue(c) \/ Raise(c) \/ Die(c)
  BY DEF Client, Step
<1>2. ~Incr(c)
  <2>1. ASSUME Incr(c) PROVE cl'[c].pc = "expire"
    <3>1. cl[c] \in Row
      BY WantedIs DEF Sound
    <3>. QED  BY <2>1, <3>1, IncrRow DEF Row
  <2>. QED  BY <2>1
<1>3. ~Check(c) /\ ~Refuse(c) /\ ~Clamp(c) /\ ~Keep(c)
  BY CheckRow, RefuseRow, ClampRow, KeepRow
<1>4. ~Create(c) /\ ~Generate(c) /\ ~Record(c) /\ ~Work(c) /\ ~Requeue(c) /\ ~Raise(c) /\ ~Die(c)
  BY CreateRow, GenerateRow, RecordRow, WorkRow, RequeueRow, RaiseRow, DieRow
<1>. QED  BY <1>1, <1>2, <1>3, <1>4

LEMMA GaugesStep ==
  ASSUME Sound, GaugesExact, NEW c \in Clients, Client(c)
  PROVE  GaugesExact'
<1>. SUFFICES ASSUME faults' = 0
              PROVE  /\ \A r \in Gauges, p \in Periods : ctr'[r][p].n = Cardinality(Owing(r, p)')
                     /\ \A d \in Clients : cl'[d].pc = "clamp" => Head(cl'[d].todo).res \notin Gauges
  BY DEF GaugesExact, At, Op
<1>0. Types /\ faults \in Nat /\ Law(c) /\ Moves(c) /\ ctr' \in [Resources -> [Periods -> Counter]]
  BY ClientLaw, QuotaAssumption DEF Sound, Types, Law
<1>1. faults = 0 /\ ~Fault
  <2>1. faults' = faults \/ Fault
    BY DEF Client, Step, Incr, Check, Refuse, Adjust, Clamp, Keep, Create, Generate, Record, Work, Requeue,
           Raise, Die
  <2>. QED  BY <1>0, <2>1 DEF Fault
<1>2. /\ \A r \in Gauges, p \in Periods : ctr[r][p].n = Cardinality(Owing(r, p))
      /\ \A d \in Clients : cl[d].pc = "clamp" => Op(d).res \notin Gauges
  BY <1>1 DEF GaugesExact, At
<1>3. Incr(c) \/ Check(c) \/ Refuse(c) \/ Adjust(c) \/ Clamp(c) \/ Keep(c) \/ Plain(c)
  BY DEF Client, Step, Plain
<1>4. Exact(c)
  <2>1. Clamp(c) => Op(c).res \notin Gauges
    BY <1>2 DEF Clamp, At
  <2>2. Plain(c) => faults' = faults
    BY <1>1
  <2>. QED  BY <1>3, <2>1, <2>2, IncrLaw, CheckLaw, RefuseLaw, AdjustLaw, ClampLaw, KeepLaw, PlainLaw
<1>5. \A d \in Clients : d # c => cl'[d] = cl[d]
  BY <1>0 DEF Moves, Types
<1>6. ASSUME cl'[c].pc = "clamp" PROVE Head(cl'[c].todo).res \notin Gauges
  <2>1. CASE Adjust(c)
    <3>1. cl'[c].todo = cl[c].todo
      BY <2>1, AdjustRow
    <3>2. Op(c).res \in Gauges => cl'[c].pc = "keep"
      BY <1>2, <2>1, NoClampOfAGauge
    <3>. QED  BY <1>6, <3>1, <3>2 DEF Op
  <2>2. Adjust(c)
    BY <1>6, OnlyAdjustClamps
  <2>. QED  BY <2>1, <2>2
<1>7. \A r \in Gauges, p \in Periods : ctr'[r][p].n = Cardinality(Owing(r, p)')
  BY <1>0, <1>2, <1>4, ExactStep
<1>. QED  BY <1>2, <1>5, <1>6, <1>7 DEF Op

-----------------------------------------------------------------------------
(* No more are let in than the limit allows.                               *)

LEMMA EntitledOwes ==
  ASSUME Sound, NEW c \in Clients, NEW r \in Gauges, Entitled(c, cl[c], r)
  PROVE  Owes(c, cl[c], r, 0)
<1>. DEFINE x == cl[c]
<1>0. Types /\ Fits(c, x) /\ (c \in Tasks <=> c \notin Turns)
  BY WantedIs DEF Sound
<1>1. x.per[r] = 0
  BY <1>0 DEF Fits
<1>2. CASE x.pc = "expire" /\ Wanted(c, x) = r
  BY <1>1, <1>2 DEF Owes
<1>3. CASE r \in x.got /\ x.then # "done"
  BY <1>1, <1>3 DEF Owes
<1>4. CASE r \in x.got /\ x.then = "done"
  <2>1. r = Place(c)
    BY <1>0, <1>4 DEF Fits, Gauges, Place, Whole
  <2>2. x.pc \notin Resting
    BY <1>0, <1>4, Basics, GaugesCountOnes, RestingOwesNothing
  <2>3. x.pc \in Adjusting
    <3>1. x.pc \in Pcs
      BY WantedIs, <1>0 DEF Row
    <3>. QED  BY <1>0, <1>4, <2>2, <3>1 DEF Fits, Pcs
  <2>4. Closing(c, x)
    BY <1>0, <1>4, <2>3 DEF Fits, Giving, Returning
  <2>5. x.pc = "adjust" /\ x.todo = <<[res |-> Place(c), by |-> -1]>>
    BY <1>4, <2>1, <2>4 DEF Closing
  <2>6. 1 \in 1 .. Len(x.todo) /\ x.todo[1].res = r
    BY <2>1, <2>5
  <2>. QED  BY <1>1, <2>3, <2>5, <2>6 DEF Owes, Listed
<1>. QED  BY <1>2, <1>3, <1>4 DEF Entitled

LEMMA PlacesStep ==
  ASSUME Sound, CounterCovers, PlacesSuffice, NEW c \in Clients, Client(c)
  PROVE  PlacesSuffice'
<1>. SUFFICES ASSUME lost = "no", NEW r \in Gauges PROVE Cardinality(Entering(r)') <= Limits[r]
  BY ClientLaw DEF PlacesSuffice
<1>0. Types /\ Moves(c) /\ r \in Resources /\ Limits[r] \in Nat /\ 0 \in Periods
  BY ClientLaw, Basics, GaugesCountOnes DEF Sound, Law
<1>1. IsFiniteSet(Entering(r)) /\ IsFiniteSet(Entering(r)') /\ IsFiniteSet(Owing(r, 0))
  BY Basics, FS_Subset DEF Entering, Owing
<1>2. \A d \in Clients : d # c => cl'[d] = cl[d]
  BY <1>0 DEF Moves, Types
<1>3. Cardinality(Entering(r)) <= Limits[r]
  BY DEF PlacesSuffice
<1>4. CASE Entitled(c, cl'[c], r) => Entitled(c, cl[c], r)
  <2>1. Entering(r)' \subseteq Entering(r)
    BY <1>2, <1>4 DEF Entering
  <2>2. Cardinality(Entering(r)') <= Cardinality(Entering(r))
    BY <1>1, <2>1, FS_Subset
  <2>3. Cardinality(Entering(r)') \in Nat /\ Cardinality(Entering(r)) \in Nat
    BY <1>1, FS_CardinalityType
  <2>. QED  BY <1>0, <1>3, <2>2, <2>3
<1>5. CASE Entitled(c, cl'[c], r) /\ ~Entitled(c, cl[c], r)
  <2>1. Incr(c)
    <3>1. ~Check(c)
      BY <1>5, CheckLaw
    <3>2. ~Ebbs(c)
      BY <1>5 DEF Ebbs, Entitled
    <3>. QED  BY <3>1, <3>2, ClientLaw
  <2>2. ctr[r][0].n + 1 <= Limits[r]
    BY <1>5, <2>1, IncrLaw
  <2>3. Cardinality(Owing(r, 0)) <= ctr[r][0].n
    <3>1. Cardinality(Owing(r, 0)) \in Nat /\ Amount(r) = 1 /\ ctr[r][0].n \in Int
      BY <1>0, <1>1, FS_CardinalityType, GaugesCountOnes, Numbers
    <3>2. ctr[r][0].n >= Amount(r) * Cardinality(Owing(r, 0))
      BY <1>0 DEF CounterCovers
    <3>. QED  BY <3>1, <3>2
  <2>4. Entering(r) \subseteq Owing(r, 0)
    BY EntitledOwes DEF Entering, Owing
  <2>5. Cardinality(Entering(r)) <= Cardinality(Owing(r, 0))
    BY <1>1, <2>4, FS_Subset
  <2>6. Entering(r)' = Entering(r) \union {c} /\ c \notin Entering(r)
    BY <1>2, <1>5 DEF Entering
  <2>7. Cardinality(Entering(r)') = Cardinality(Entering(r)) + 1
    BY <1>1, <2>6, OneMore
  <2>8. Cardinality(Entering(r)) \in Nat /\ Cardinality(Owing(r, 0)) \in Nat /\ ctr[r][0].n \in Int
    BY <1>0, <1>1, FS_CardinalityType, Numbers
  <2>. QED  BY <1>0, <2>2, <2>3, <2>5, <2>7, <2>8
<1>. QED  BY <1>4, <1>5

-----------------------------------------------------------------------------
(* A message is counted for a turn that has created one.                   *)

LEMMA CreatedGrows ==
  ASSUME Sound, NEW c \in Clients, Client(c), HasCreated(c)
  PROVE  HasCreated(c)'
<1>. DEFINE x == cl[c]
            y == cl'[c]
<1>0. /\ Types /\ Fits(c, x) /\ c \in Turns /\ (c \in Tasks <=> c \notin Turns)
      /\ x.pc \in {"run", "record", "done", "dead"} \/ x.then \in {"give", "done"}
  BY WantedIs DEF Sound, HasCreated
<1>. SUFFICES y.pc \in {"run", "record", "done", "dead"} \/ y.then \in {"give", "done"}
  BY <1>0 DEF HasCreated
<1>1. ~Incr(c) /\ ~Check(c) /\ ~Create(c) /\ ~Work(c) /\ ~Requeue(c)
  BY <1>0, IncrRow, CheckRow, CreateRow, WorkRow, RequeueRow
<1>2. ~(x.pc \in Reserving)
  BY <1>0 DEF Fits, Reserving
<1>3. ~Refuse(c)
  BY <1>2, RefuseRow DEF Reserving
<1>4. CASE Adjust(c) \/ Clamp(c)
  BY <1>0, <1>4, AdjustRow, ClampRow
<1>5. CASE Keep(c)
  <2>1. x.pc = "keep" /\ x.pc \in Adjusting /\ (y = Leave(c) \/ y.then = x.then)
    BY <1>5, KeepRow DEF Adjusting
  <2>2. CASE y.then = x.then
    BY <1>0, <2>1, <2>2
  <2>3. CASE y = Leave(c)
    <3>1. /\ x.then = "give" => y.then = "done"
          /\ x.then # "give" => y = Rest(x.then) /\ x.then \in {"done", "refused"}
      BY <2>1, <2>3, LeaveRow
    <3>2. Rest("done").pc = "done"
      BY RestIsFit DEF Resting
    <3>. QED  BY <1>0, <2>1, <3>1, <3>2
  <2>. QED  BY <2>1, <2>2, <2>3
<1>6. CASE Generate(c) \/ Record(c) \/ Die(c)
  BY <1>6, GenerateRow, RecordRow, DieRow
<1>7. CASE Raise(c)
  <2>1. x.pc \in Adjusting
    BY <1>2, <1>7, RaiseRow
  <2>. QED  BY <1>0, <1>7, <2>1, RaiseRow DEF Adjusting
<1>. QED  BY <1>1, <1>3, <1>4, <1>5, <1>6, <1>7 DEF Client, Step

LEMMA RowsStep ==
  ASSUME Sound, RowsBounded, NEW c \in Clients, Client(c)
  PROVE  RowsBounded' /\ rows' \in [Periods -> Nat]
<1>0. Types /\ Moves(c) /\ rows \in [Periods -> Nat] /\ now \in Periods
  BY ClientLaw DEF Sound, Types, Law
<1>1. \A d \in Clients : d # c => cl'[d] = cl[d]
  BY <1>0 DEF Moves, Types
<1>2. Created \subseteq Created'
  BY <1>1, CreatedGrows DEF Created, HasCreated
<1>3. IsFiniteSet(Created) /\ IsFiniteSet(Created')
  BY Basics, FS_Subset DEF Created
<1>4. Cardinality(Created) \in Nat /\ Cardinality(Created') \in Nat /\ Cardinality(Created) <= Cardinality(Created')
  BY <1>2, <1>3, FS_CardinalityType, FS_Subset
<1>5. CASE rows' = rows
  BY <1>0, <1>4, <1>5 DEF RowsBounded
<1>6. CASE Create(c) /\ rows' # rows
  <2>1. cl[c].pc = "held" /\ cl[c].then = "off" /\ c \in Turns /\ cl'[c].pc = "run"
        /\ rows' = [rows EXCEPT ![now] = @ + 1]
    BY <1>6, CreateRow
  <2>2. c \notin Created /\ c \in Created'
    BY <2>1 DEF Created, HasCreated
  <2>3. Created \union {c} \subseteq Created'
    BY <1>2, <2>2
  <2>4. Cardinality(Created) + 1 <= Cardinality(Created')
    <3>1. Cardinality(Created \union {c}) = Cardinality(Created) + 1
      BY <1>3, <2>2, OneMore
    <3>2. Cardinality(Created \union {c}) <= Cardinality(Created')
      BY <1>3, <2>3, FS_Subset
    <3>. QED  BY <3>1, <3>2
  <2>5. \A p \in Periods : rows'[p] \in Nat /\ rows'[p] <= rows[p] + 1
    BY <1>0, <2>1
  <2>6. rows' \in [Periods -> Nat]
    <3>1. rows[now] + 1 \in Nat
      BY <1>0
    <3>. QED  BY <1>0, <2>1, <3>1
  <2>7. ASSUME NEW p \in Periods PROVE rows'[p] <= Cardinality(Created')
    <3>1. rows[p] <= Cardinality(Created) /\ rows[p] \in Nat
      BY <1>0 DEF RowsBounded
    <3>2. rows'[p] \in Nat /\ rows'[p] <= rows[p] + 1
      BY <2>5
    <3>. QED  BY <1>4, <2>4, <3>1, <3>2
  <2>. QED  BY <2>6, <2>7 DEF RowsBounded
<1>7. rows' = rows \/ Create(c)
  BY DEF Client, Step, Incr, Check, Refuse, Adjust, Clamp, Keep, Generate, Record, Work, Requeue, Raise, Die, DbSame
<1>. QED  BY <1>5, <1>6, <1>7

-----------------------------------------------------------------------------
(* Who puts the expiry on a key, and who pays back what a counter lacks.   *)

KeyOf(c, x) == ctr[Wanted(c, x)][x.per[Wanted(c, x)]]
Expiring(c) ==
  /\ \A r \in Resources, p \in Periods : ctr[r][p].ttl # "absent" => ctr'[r][p].ttl # "absent"
  /\ cl'[c].pc \in {"expire", "undo"} => KeyOf(c, cl[c])'.ttl # "absent"
  /\ \A r \in Resources \ {"slots"}, p \in Periods :
       ctr'[r][p].ttl = "none" =>
         Tends(c, cl'[c], r, p) \/ (ctr[r][p].ttl = "none" /\ ~Tends(c, cl[c], r, p))

Repaying(c) ==
  \A r \in Resources \ {"slots"}, p \in Periods :
    ctr'[r][p].n < 0 =>
      \/ c \in Turns /\ Repays(c, cl[c], r, p)'
      \/ ctr[r][p].n < 0 /\ ctr'[r][p].n >= ctr[r][p].n /\ ~Repays(c, cl[c], r, p)

LEMMA IncrTends ==
  ASSUME Sound, NEW c \in Clients, Incr(c)
  PROVE  Expiring(c) /\ Repaying(c)
<1>. DEFINE r == Res(c)
            p == KeyPeriod(r)
            x == cl[c]
            y == cl'[c]
<1>0. Types /\ r \in Resources /\ p \in Periods /\ r = Wanted(c, x) /\ x \in Row
      /\ (c \in Tasks <=> c \notin Turns) /\ (c \in Tasks => r = "slots")
  BY WantedIs DEF Sound
<1>1. /\ IncrBy(r, p, Amount(r)) /\ x.pc \in {"off", "incr"}
      /\ y = [x EXCEPT !.pc = "expire", !.per = [@ EXCEPT ![r] = p], !.seen = ctr[r][p].n + Amount(r)]
  BY IncrRow
<1>2. y.pc = "expire" /\ y.per[r] = p /\ y.i = x.i
  <2>. HIDE DEF y, r, p
  <2>. QED  BY <1>0, <1>1 DEF Row
<1>3. Wanted(c, y) = r
  BY <1>0, <1>2 DEF Wanted
<1>. HIDE DEF r, p, y
<1>4. /\ ctr' \in [Resources -> [Periods -> Counter]]
      /\ ctr'[r][p].n = ctr[r][p].n + Amount(r)
      /\ ctr'[r][p].ttl = IF ctr[r][p].ttl = "absent" THEN "none" ELSE ctr[r][p].ttl
      /\ \A s \in Resources, q \in Periods : s # r \/ q # p => ctr'[s][q] = ctr[s][q]
  <2>1. Amount(r) \in Int
    BY <1>0, Basics
  <2>. QED  BY <1>0, <1>1, <2>1, CountersMove
<1>5. \A s \in Resources, q \in Periods : ctr'[s][q].n >= ctr[s][q].n
  BY <1>0, <1>4, Numbers
<1>6. Repaying(c)
  <2>1. ASSUME NEW s \in Resources \ {"slots"}, NEW q \in Periods, ctr'[s][q].n < 0
        PROVE  ctr[s][q].n < 0
    <3>1. ctr'[s][q] \in Counter
      BY <1>4
    <3>2. ctr'[s][q].n \in Int /\ ctr[s][q].n \in Int /\ ctr'[s][q].n >= ctr[s][q].n
      BY <1>0, <1>5, <3>1, Numbers DEF Counter
    <3>. QED  BY <2>1, <3>2
  <2>2. \A s, q : ~Repays(c, x, s, q)
    BY <1>1 DEF Repays
  <2>. QED  BY <1>5, <2>1, <2>2 DEF Repaying
<1>7. KeyOf(c, cl[c])'.ttl # "absent"
  <2>1. KeyOf(c, cl[c])' = ctr'[Wanted(c, cl'[c])][cl'[c].per[Wanted(c, cl'[c])]]
    BY DEF KeyOf, Wanted
  <2>. QED  BY <1>2, <1>3, <1>4, <2>1 DEF y
<1>8. r # "slots" => Tends(c, y, r, p)
  BY <1>0, <1>2, <1>3 DEF Tends
<1>9. \A s, q : ~Tends(c, x, s, q)
  BY <1>1 DEF Tends
<1>. QED  BY <1>4, <1>6, <1>7, <1>8, <1>9 DEF Expiring, y

(* Steps after which no number is smaller.                                 *)
LEMMA NoLess ==
  ASSUME Sound, NEW c \in Clients, ctr' \in [Resources -> [Periods -> Counter]], cl[c].pc # "clamp",
         \A s \in Resources, q \in Periods : ctr'[s][q].n >= ctr[s][q].n
  PROVE  Repaying(c)
<1>1. ASSUME NEW s \in Resources \ {"slots"}, NEW q \in Periods, ctr'[s][q].n < 0
      PROVE  ctr[s][q].n < 0
  <2>1. ctr'[s][q] \in Counter
    OBVIOUS
  <2>2. ctr'[s][q].n \in Int /\ ctr[s][q].n \in Int /\ ctr'[s][q].n >= ctr[s][q].n
    BY <2>1, Numbers DEF Counter, Sound
  <2>. QED  BY <1>1, <2>2
<1>2. \A s, q : ~Repays(c, cl[c], s, q)
  BY DEF Repays
<1>. QED  BY <1>1, <1>2 DEF Repaying

LEMMA CheckTends ==
  ASSUME Sound, NEW c \in Clients, Check(c)
  PROVE  /\ Repaying(c)
         /\ KeyOf(c, cl[c]).ttl # "absent" => Expiring(c)
<1>. DEFINE r == Res(c)
            p == Per(c, r)
            x == cl[c]
            y == cl'[c]
<1>0. Types /\ r \in Resources /\ p \in Periods /\ r = Wanted(c, x)
  BY WantedIs DEF Sound
<1>1. /\ x.pc = "expire" /\ y.per = x.per /\ OnlyExpiry(r, p, IF ctr[r][p].ttl = "absent" THEN "absent" ELSE "set")
      /\ (y.pc = "undo" /\ y.i = x.i) \/ y.pc \in {"work", "held", "incr"}
  BY CheckRow
<1>2. p = x.per[r]
  BY DEF Per
<1>. HIDE DEF r, p, y
<1>3. /\ ctr' \in [Resources -> [Periods -> Counter]]
      /\ ctr'[r][p].ttl = (IF ctr[r][p].ttl = "absent" THEN "absent" ELSE "set")
      /\ \A s \in Resources, q \in Periods :
            ctr'[s][q].n = ctr[s][q].n /\ (s # r \/ q # p => ctr'[s][q] = ctr[s][q])
  BY <1>1 DEF OnlyExpiry
<1>4. Repaying(c)
  <2>1. \A s \in Resources, q \in Periods : ctr'[s][q].n >= ctr[s][q].n
    BY <1>0, <1>3, Numbers
  <2>. QED  BY <1>1, <1>3, <2>1, NoLess
<1>5. \A s, q : Tends(c, x, s, q) => s = r /\ q = p
  BY <1>0, <1>1, <1>2 DEF Tends
<1>6. ASSUME KeyOf(c, x).ttl # "absent", y.pc \in {"expire", "undo"}
      PROVE  KeyOf(c, cl[c])'.ttl # "absent"
  <2>1. y.pc = "undo" /\ y.i = x.i
    BY <1>1, <1>6
  <2>2. Wanted(c, y) = r
    BY <1>0, <2>1 DEF Wanted
  <2>3. KeyOf(c, x) = ctr[r][p]
    BY <1>0, <1>2 DEF KeyOf
  <2>4. KeyOf(c, cl[c])' = ctr'[Wanted(c, cl'[c])][cl'[c].per[Wanted(c, cl'[c])]]
    BY DEF KeyOf, Wanted
  <2>. QED  BY <1>1, <1>2, <1>3, <1>6, <2>2, <2>3, <2>4 DEF y
<1>7. KeyOf(c, x).ttl # "absent" => Expiring(c)
  BY <1>3, <1>5, <1>6 DEF Expiring, y
<1>. QED  BY <1>4, <1>7

LEMMA RefuseTends ==
  ASSUME Sound, NEW c \in Clients, Refuse(c)
  PROVE  /\ KeyOf(c, cl[c]).ttl # "absent" => Expiring(c)
         /\ c \in Turns => Refusing(c)'
         /\ c \notin Turns => Repaying(c)
<1>. DEFINE r == Res(c)
            p == Per(c, r)
            x == cl[c]
            y == cl'[c]
<1>0. Types /\ r \in Resources /\ p \in Periods /\ r = Wanted(c, x) /\ Amount(r) \in Int
      /\ (c \in Tasks <=> c \notin Turns) /\ (c \in Tasks => r = "slots")
  BY WantedIs, Basics DEF Sound
<1>1. /\ Ebbs(c) /\ IncrBy(r, p, 0 - Amount(r)) /\ x.pc = "undo"
      /\ y.pc \in {"refused", "adjust"} /\ (y.pc = "refused" \/ y.then = "refused")
  BY RefuseRow
<1>2. KeyOf(c, x) = ctr[r][p]
  BY <1>0 DEF KeyOf, Per
<1>. HIDE DEF r, p
<1>3. /\ ctr' \in [Resources -> [Periods -> Counter]]
      /\ ctr'[r][p].ttl = IF ctr[r][p].ttl = "absent" THEN "none" ELSE ctr[r][p].ttl
      /\ \A s \in Resources, q \in Periods : s # r \/ q # p => ctr'[s][q] = ctr[s][q]
  <2>1. 0 - Amount(r) \in Int
    BY <1>0
  <2>. QED  BY <1>0, <1>1, <2>1, CountersMove
<1>4. KeyOf(c, x).ttl # "absent" =>
        \A s \in Resources, q \in Periods : ctr'[s][q].ttl = ctr[s][q].ttl
  BY <1>2, <1>3
<1>5. \A s, q : ~Tends(c, x, s, q) /\ ~Repays(c, x, s, q)
  BY <1>1 DEF Tends, Repays
<1>6. KeyOf(c, x).ttl # "absent" => Expiring(c)
  BY <1>1, <1>4, <1>5 DEF Expiring
<1>7. c \in Turns => Refusing(c)'
  BY <1>1 DEF Refusing
<1>8. c \notin Turns => Repaying(c)
  <2>1. ASSUME c \notin Turns, NEW s \in Resources \ {"slots"}, NEW q \in Periods
        PROVE  ctr'[s][q] = ctr[s][q]
    BY <1>0, <1>3, <2>1
  <2>. QED  BY <1>0, <1>5, <2>1, Numbers DEF Repaying
<1>. QED  BY <1>6, <1>7, <1>8

LEMMA AdjustTends ==
  ASSUME Sound, NEW c \in Clients, Adjust(c)
  PROVE  Expiring(c) /\ Repaying(c)
<1>. DEFINE x == cl[c]
            y == cl'[c]
            res == Op(c).res
            p == Per(c, res)
            n == ctr[res][p].n + Op(c).by
<1>1. /\ IncrBy(res, p, Op(c).by) /\ x.pc = "adjust" /\ y.per = x.per /\ y.todo = x.todo
      /\ y.pc = (IF n < 0 THEN "clamp" ELSE "keep") /\ (y.pc = "clamp" => y.seen = n)
  BY AdjustRow
<1>2. /\ Op(c) \in Corrections /\ p \in Periods /\ Op(c) = x.todo[1]
      /\ res = "slots" <=> c \in Tasks
  BY <1>1, TodoIs DEF Adjusting
<1>3. Types /\ res \in Resources /\ Op(c).by \in Int /\ (c \in Tasks <=> c \notin Turns)
  BY <1>2, Basics DEF Corrections, Sound
<1>4. p = x.per[res] /\ res = x.todo[1].res
  BY <1>2 DEF Per
<1>. HIDE DEF res, p, y
<1>5. /\ ctr' \in [Resources -> [Periods -> Counter]]
      /\ ctr'[res][p].n = n
      /\ ctr'[res][p].ttl = (IF ctr[res][p].ttl = "absent" THEN "none" ELSE ctr[res][p].ttl)
      /\ \A s \in Resources, q \in Periods : s # res \/ q # p => ctr'[s][q] = ctr[s][q]
  BY <1>1, <1>2, <1>3, CountersMove
<1>. HIDE DEF n
<1>6. \A s, q : ~Tends(c, x, s, q) /\ ~Repays(c, x, s, q)
  BY <1>1 DEF Tends, Repays
<1>7. y.pc \in {"clamp", "keep"}
  BY <1>1
<1>8. res # "slots" => Tends(c, y, res, p) /\ c \in Turns
  BY <1>1, <1>2, <1>3, <1>4, <1>7 DEF Tends
<1>9. ASSUME n < 0, NEW r \in Resources, r = res, NEW q \in Periods, q = p
      PROVE  Repays(c, cl[c], r, q)'
  <2>1. y.pc = "clamp" /\ y.seen = n /\ n \in Int
    <3>1. ctr'[res][p] \in Counter
      BY <1>2, <1>3, <1>5
    <3>. QED  BY <1>1, <1>5, <1>9, <3>1 DEF Counter
  <2>2. y.seen <= ctr'[res][p].n
    BY <1>5, <2>1
  <2>3. y.pc = "clamp" /\ y.todo[1].res = r /\ y.per[r] = q /\ y.seen <= ctr'[r][q].n
    BY <1>1, <1>4, <1>9, <2>1, <2>2
  <2>. QED  BY <2>3 DEF Repays, y
<1>10. Expiring(c)
  BY <1>5, <1>6, <1>7, <1>8 DEF Expiring, y
<1>11. Repaying(c)
  <2>1. \A s \in Resources, q \in Periods : s # res \/ q # p => ctr'[s][q] = ctr[s][q] /\ ctr[s][q].n >= ctr[s][q].n
    BY <1>3, <1>5, Numbers
  <2>2. ASSUME NEW s \in Resources \ {"slots"}, NEW q \in Periods, ctr'[s][q].n < 0
        PROVE  \/ c \in Turns /\ Repays(c, cl[c], s, q)'
               \/ ctr[s][q].n < 0 /\ ctr'[s][q].n >= ctr[s][q].n /\ ~Repays(c, x, s, q)
    <3>1. CASE s = res /\ q = p
      BY <1>5, <1>8, <1>9, <2>2, <3>1
    <3>2. CASE s # res \/ q # p
      BY <1>6, <2>1, <2>2, <3>2
    <3>. QED  BY <3>1, <3>2
  <2>. QED  BY <2>2 DEF Repaying
<1>. QED  BY <1>10, <1>11

LEMMA ClampTends ==
  ASSUME Sound, NEW c \in Clients, Clamp(c)
  PROVE  Expiring(c) /\ Repaying(c)
<1>. DEFINE x == cl[c]
            y == cl'[c]
            res == Op(c).res
            p == Per(c, res)
<1>1. /\ Moves(c) /\ IncrBy(res, p, ClampBy(c)) /\ x.pc = "clamp" /\ y.pc = "keep"
      /\ y.per = x.per /\ y.todo = x.todo
      /\ ClampBy(c) \in Nat \ {0} /\ (c \in Turns => ClampBy(c) = 0 - x.seen)
  BY ClampRow
<1>2. /\ Op(c) \in Corrections /\ p \in Periods /\ Op(c) = x.todo[1] /\ x \in Row
      /\ res = "slots" <=> c \in Tasks
  BY <1>1, TodoIs DEF Adjusting
<1>3. Types /\ res \in Resources /\ ClampBy(c) \in Int /\ (c \in Tasks <=> c \notin Turns) /\ x.seen \in Int
  BY <1>1, <1>2, Basics DEF Corrections, Sound, Row
<1>4. p = x.per[res] /\ res = x.todo[1].res
  BY <1>2 DEF Per
<1>. HIDE DEF res, p, y
<1>5. /\ ctr' \in [Resources -> [Periods -> Counter]]
      /\ ctr'[res][p].n = ctr[res][p].n + ClampBy(c)
      /\ ctr'[res][p].ttl = (IF ctr[res][p].ttl = "absent" THEN "none" ELSE ctr[res][p].ttl)
      /\ \A s \in Resources, q \in Periods : s # res \/ q # p => ctr'[s][q] = ctr[s][q]
  BY <1>1, <1>2, <1>3, CountersMove
<1>6. \A s, q : Tends(c, x, s, q) \/ Repays(c, x, s, q) => s = res /\ q = p
  BY <1>1, <1>4 DEF Tends, Repays
<1>8. res # "slots" => Tends(c, y, res, p) /\ c \in Turns
  BY <1>1, <1>2, <1>3, <1>4 DEF Tends
<1>10. Expiring(c)
  BY <1>1, <1>5, <1>6, <1>8 DEF Expiring, y
<1>11. ctr[res][p].n \in Int /\ ctr'[res][p].n >= ctr[res][p].n
  BY <1>1, <1>2, <1>3, <1>5, Numbers
<1>12. ASSUME res # "slots", Repays(c, x, res, p) PROVE ~(ctr'[res][p].n < 0)
  <2>1. x.seen <= ctr[res][p].n
    BY <1>12 DEF Repays
  <2>2. ctr'[res][p].n = ctr[res][p].n + (0 - x.seen)
    BY <1>1, <1>5, <1>8, <1>12
  <2>. QED  BY <1>3, <1>11, <2>1, <2>2
<1>13. Repaying(c)
  <2>1. \A s \in Resources, q \in Periods : s # res \/ q # p => ctr'[s][q] = ctr[s][q] /\ ctr[s][q].n >= ctr[s][q].n
    BY <1>3, <1>5, Numbers
  <2>2. ctr'[res][p].n < 0 => ctr[res][p].n < 0
    <3>1. ctr'[res][p].n \in Int
      BY <1>3, <1>5, <1>11
    <3>. QED  BY <1>11, <3>1
  <2>. QED  BY <1>6, <1>11, <1>12, <2>1, <2>2 DEF Repaying
<1>. QED  BY <1>10, <1>13

LEMMA KeepTends ==
  ASSUME Sound, NEW c \in Clients, Keep(c)
  PROVE  Expiring(c) /\ Repaying(c)
<1>. DEFINE x == cl[c]
            y == cl'[c]
            res == Op(c).res
            p == Per(c, res)
<1>1. /\ OnlyExpiry(res, p, Kept(c, ctr[res][p].ttl)) /\ x.pc = "keep"
      /\ y.pc \notin {"expire", "undo", "clamp"}
  BY KeepRow
<1>2. /\ Op(c) \in Corrections /\ p \in Periods /\ Op(c) = x.todo[1]
      /\ res = "slots" <=> c \in Tasks
  BY <1>1, TodoIs DEF Adjusting
<1>3. Types /\ res \in Resources /\ (c \in Tasks <=> c \notin Turns)
  BY <1>2, Basics DEF Corrections, Sound
<1>4. p = x.per[res] /\ res = x.todo[1].res
  BY <1>2 DEF Per
<1>. HIDE DEF res, p, y
<1>5. /\ ctr' \in [Resources -> [Periods -> Counter]]
      /\ ctr'[res][p].ttl = Kept(c, ctr[res][p].ttl)
      /\ \A s \in Resources, q \in Periods :
            ctr'[s][q].n = ctr[s][q].n /\ (s # res \/ q # p => ctr'[s][q] = ctr[s][q])
  BY <1>1 DEF OnlyExpiry
<1>6. \A s, q : Tends(c, x, s, q) => s = res /\ q = p
  BY <1>1, <1>4 DEF Tends
<1>7. /\ ctr[res][p].ttl # "absent" => ctr'[res][p].ttl # "absent"
      /\ res # "slots" => ctr'[res][p].ttl # "none"
  BY <1>2, <1>3, <1>5 DEF Kept
<1>8. Expiring(c)
  BY <1>1, <1>5, <1>6, <1>7 DEF Expiring, y
<1>9. \A s \in Resources, q \in Periods : ctr'[s][q].n >= ctr[s][q].n
  BY <1>3, <1>5, Numbers
<1>. QED  BY <1>1, <1>5, <1>8, <1>9, NoLess

LEMMA PlainTends ==
  ASSUME Sound, NEW c \in Clients, Plain(c), faults' = faults
  PROVE  Expiring(c) /\ Repaying(c)
<1>1. ctr' = ctr /\ Ebbs(c)
  BY PlainLaw
<1>2. ~Fault
  BY DEF Fault, Sound, Types
<1>3. cl[c].pc \in {"held", "run", "record", "work", "refused"}
  BY <1>2, CreateRow, GenerateRow, RecordRow, WorkRow, RequeueRow, RaiseRow, DieRow DEF Plain
<1>4. \A s, q : ~Tends(c, cl[c], s, q)
  BY <1>3 DEF Tends
<1>5. Expiring(c)
  BY <1>1, <1>4 DEF Expiring, Ebbs
<1>6. \A s \in Resources, q \in Periods : ctr'[s][q].n >= ctr[s][q].n
  BY <1>1, Numbers DEF Sound
<1>. QED  BY <1>1, <1>3, <1>5, <1>6, NoLess DEF Sound, Types

(* A fault that is not a loss of data makes the claims void from then on.  *)
LEMMA FaultIsFaulty ==
  ASSUME Types, lost' = lost
  PROVE  /\ Fault => Faulty'
         /\ Faulty /\ faults' \in {faults, faults + 1} => Faulty'
<1>1. faults \in Nat /\ (lost # "no" => faults > 0)
  BY QuotaAssumption DEF Types
<1>. QED  BY <1>1 DEF Fault, Faulty

LEMMA ClientFaults ==
  ASSUME Sound, NEW c \in Clients, Client(c)
  PROVE  /\ faults' = faults \/ Fault
         /\ ~Faulty' => faults' = faults /\ ~Faulty /\ ~Raise(c) /\ ~Die(c)
<1>0. Types /\ lost' = lost
  BY ClientLaw DEF Sound
<1>1. faults' = faults \/ Fault
  BY DEF Client, Step, Incr, Check, Refuse, Adjust, Clamp, Keep, Create, Generate, Record, Work, Requeue,
         Raise, Die
<1>2. ~Faulty' => faults' = faults /\ ~Faulty /\ ~Fault
  BY <1>0, <1>1, FaultIsFaulty DEF Fault
<1>. QED  BY <1>1, <1>2 DEF Raise, Die

LEMMA ClientTends ==
  ASSUME Sound, KeysTended, NEW c \in Clients, Client(c), ~Faulty', lost # "torn"
  PROVE  Expiring(c)
<1>1. ~Faulty /\ faults' = faults
  BY ClientFaults
<1>2. \A d \in Clients : cl[d].pc \in {"expire", "undo"} => KeyOf(d, cl[d]).ttl # "absent"
  <2>1. \A d \in Clients : KeyOf(d, cl[d]) = ctr[Res(d)][Per(d, Res(d))]
    BY WantedIs DEF KeyOf, Per, Sound
  <2>. QED  BY <1>1, <2>1 DEF KeysTended
<1>3. Check(c) => cl[c].pc = "expire"
  BY DEF Check, At
<1>4. Refuse(c) => cl[c].pc = "undo"
  BY DEF Refuse, At
<1>5. Incr(c) \/ Check(c) \/ Refuse(c) \/ Adjust(c) \/ Clamp(c) \/ Keep(c) \/ Plain(c)
  BY DEF Client, Step, Plain
<1>. QED
  BY <1>1, <1>2, <1>3, <1>4, <1>5, IncrTends, CheckTends, RefuseTends, AdjustTends, ClampTends, KeepTends,
     PlainTends

LEMMA KeysStep ==
  ASSUME Sound, KeysTended, NEW c \in Clients, Client(c)
  PROVE  KeysTended'
<1>. SUFFICES ASSUME ~Faulty', lost' # "torn"
              PROVE  /\ \A d \in Clients : cl'[d].pc \in {"expire", "undo"} =>
                          ctr'[Res(d)'][Per(d, Res(d))'].ttl # "absent"
                     /\ \A r \in Resources \ {"slots"}, p \in Periods :
                          ctr'[r][p].ttl = "none" => \E d \in Clients : Tends(d, cl'[d], r, p)
  BY DEF KeysTended, Tends, Wanted
<1>1. lost # "torn" /\ Law(c)
  BY ClientLaw
<1>2. ~Faulty /\ Types
  BY ClientFaults DEF Sound
<1>3. Expiring(c)
  BY <1>1, ClientTends
<1>4. \A d \in Clients : d # c => cl'[d] = cl[d]
  BY <1>1, <1>2 DEF Moves, Types, Law
<1>5. /\ \A d \in Clients : cl[d].pc \in {"expire", "undo"} => ctr[Res(d)][Per(d, Res(d))].ttl # "absent"
      /\ \A r \in Resources \ {"slots"}, p \in Periods :
           ctr[r][p].ttl = "none" => \E d \in Clients : Tends(d, cl[d], r, p)
  BY <1>1, <1>2 DEF KeysTended
<1>6. ASSUME NEW d \in Clients, cl'[d].pc \in {"expire", "undo"}
      PROVE  ctr'[Res(d)'][Per(d, Res(d))'].ttl # "absent"
  <2>1. CASE d = c
    <3>1. Moves(c)
      BY <1>1 DEF Law
    <3>2. Res(c)' = IF c \in Tasks THEN "slots" ELSE Order[cl'[c].i]
      BY DEF Res
    <3>3. KeyOf(c, cl[c])' = ctr'[Res(c)'][Per(c, Res(c))']
      BY <3>2 DEF KeyOf, Per, Wanted
    <3>. QED  BY <1>3, <1>6, <2>1, <3>3 DEF Expiring
  <2>2. CASE d # c
    <3>1. cl'[d] = cl[d]
      BY <1>4, <2>2
    <3>2. Res(d)' = Res(d) /\ Per(d, Res(d))' = Per(d, Res(d))
      BY <3>1 DEF Res, Per
    <3>3. Res(d) \in Resources /\ Per(d, Res(d)) \in Periods
      BY <1>2, WantedIs
    <3>. QED  BY <1>3, <1>5, <1>6, <3>1, <3>2, <3>3 DEF Expiring
  <2>. QED  BY <2>1, <2>2
<1>7. ASSUME NEW r \in Resources \ {"slots"}, NEW p \in Periods, ctr'[r][p].ttl = "none"
      PROVE  \E d \in Clients : Tends(d, cl'[d], r, p)
  <2>1. CASE Tends(c, cl'[c], r, p)
    BY <2>1
  <2>2. CASE ~Tends(c, cl'[c], r, p)
    <3>1. ctr[r][p].ttl = "none" /\ ~Tends(c, cl[c], r, p)
      BY <1>3, <1>7, <2>2 DEF Expiring
    <3>2. PICK d \in Clients : Tends(d, cl[d], r, p)
      BY <1>5, <3>1
    <3>3. d # c
      BY <3>1, <3>2
    <3>. QED  BY <1>4, <3>2, <3>3
  <2>. QED  BY <2>1, <2>2
<1>. QED  BY <1>6, <1>7

(* A turn that is being refused stays refused.                             *)
LEMMA RefusedStays ==
  ASSUME Sound, NEW c \in Clients, Client(c), c \in Turns, Refusing(c), ~Faulty'
  PROVE  Refusing(c)'
<1>. DEFINE x == cl[c]
            y == cl'[c]
<1>0. /\ Types /\ Fits(c, x) /\ (x.pc = "refused" \/ x.then = "refused" \/ x.pc = "undo")
      /\ ~Raise(c) /\ ~Die(c)
  BY ClientFaults DEF Sound, Refusing, At
<1>. SUFFICES y.pc = "refused" \/ y.then = "refused"
  BY DEF Refusing
<1>1. ~Incr(c) /\ ~Check(c) /\ ~Create(c) /\ ~Generate(c) /\ ~Record(c) /\ ~Work(c) /\ ~Requeue(c)
  BY <1>0, IncrRow, CheckRow, CreateRow, GenerateRow, RecordRow, WorkRow, RequeueRow
<1>2. CASE Refuse(c)
  BY <1>2, RefuseRow
<1>3. CASE Adjust(c) \/ Clamp(c)
  BY <1>0, <1>3, AdjustRow, ClampRow
<1>4. CASE Keep(c)
  <2>1. x.pc = "keep" /\ x.pc \in Adjusting /\ (y = Leave(c) \/ y.then = x.then)
    BY <1>4, KeepRow DEF Adjusting
  <2>2. CASE y = Leave(c)
    <3>1. y = Rest("refused")
      BY <1>0, <2>1, <2>2, LeaveRow
    <3>. QED  BY <3>1, RestIsFit DEF Resting
  <2>. QED  BY <1>0, <2>1, <2>2
<1>. QED  BY <1>0, <1>1, <1>2, <1>3, <1>4 DEF Client, Step

LEMMA DebtsStep ==
  ASSUME Sound, DeficitsRepaid, NEW c \in Clients, Client(c)
  PROVE  DeficitsRepaid'
<1>. SUFFICES ASSUME ~Faulty', recon'.st = "off", \A d \in Turns : ~Refusing(d)',
                     NEW r \in Resources \ {"slots"}, NEW p \in Periods, ctr'[r][p].n < 0
              PROVE  \E d \in Turns : Repays(d, cl[d], r, p)'
  BY DEF DeficitsRepaid
<1>0. Types /\ ~Faulty /\ recon.st = "off" /\ Law(c) /\ faults' = faults
  BY ClientLaw, ClientFaults DEF Sound
<1>1. \A d \in Clients : d # c => cl'[d] = cl[d]
  BY <1>0 DEF Law, Moves, Types
<1>2. \A d \in Turns : ~Refusing(d)
  <2>1. ASSUME NEW d \in Turns, Refusing(d) PROVE FALSE
    <3>1. ~Refusing(d)' /\ d \in Clients
      BY DEF Clients
    <3>2. d # c => Refusing(d)'
      BY <1>1, <2>1, <3>1 DEF Refusing, At
    <3>. QED  BY <2>1, <3>1, <3>2, RefusedStays
  <2>. QED  BY <2>1
<1>3. \A s \in Resources \ {"slots"}, q \in Periods :
        ctr[s][q].n < 0 => \E d \in Turns : Repays(d, cl[d], s, q)
  BY <1>0, <1>2 DEF DeficitsRepaid
<1>4. Repaying(c)
  <2>1. Incr(c) \/ Check(c) \/ Refuse(c) \/ Adjust(c) \/ Clamp(c) \/ Keep(c) \/ Plain(c)
    BY DEF Client, Step, Plain
  <2>2. Refuse(c) => c \notin Turns
    BY RefuseTends
  <2>. QED
    BY <1>0, <2>1, <2>2, IncrTends, CheckTends, RefuseTends, AdjustTends, ClampTends, KeepTends, PlainTends
<1>5. CASE c \in Turns /\ Repays(c, cl[c], r, p)'
  BY <1>5
<1>6. CASE ctr[r][p].n < 0 /\ ctr'[r][p].n >= ctr[r][p].n /\ ~Repays(c, cl[c], r, p)
  <2>1. PICK d \in Turns : Repays(d, cl[d], r, p)
    BY <1>3, <1>6
  <2>2. d # c /\ d \in Clients
    BY <1>6, <2>1 DEF Clients
  <2>3. cl'[d] = cl[d] /\ cl[d].seen \in Int
    BY <1>0, <1>1, <2>2, WantedIs DEF Row
  <2>4. ctr[r][p].n \in Int /\ ctr'[r][p].n \in Int
    <3>1. ctr'[r][p] \in Counter
      BY <1>0 DEF Law
    <3>. QED  BY <1>0, <3>1, Numbers DEF Counter
  <2>5. cl[d].seen <= ctr'[r][p].n
    BY <1>6, <2>1, <2>3, <2>4 DEF Repays
  <2>6. Repays(d, cl[d], r, p)'
    BY <2>1, <2>3, <2>5 DEF Repays
  <2>. QED  BY <2>6
<1>. QED  BY <1>4, <1>5, <1>6 DEF Repaying

-----------------------------------------------------------------------------
(* The steps of the clients, of the nightly run, and of time and Redis.    *)

LEMMA ClientStep ==
  ASSUME QuotaInv, NEW c \in Clients, Client(c)
  PROVE  QuotaInv'
<1>0. /\ Sound /\ Types /\ CounterCovers /\ GaugesExact /\ PlacesSuffice /\ KeysTended /\ DeficitsRepaid
      /\ RowsBounded
  BY DEF QuotaInv, Sound
<1>1. Law(c) /\ now' = now /\ lost' = lost /\ recon' = recon /\ snap' = snap
  BY <1>0, ClientLaw
<1>2. rows' \in [Periods -> Nat] /\ RowsBounded'
  BY <1>0, RowsStep
<1>3. logged' \in [Periods -> Nat]
  <2>1. logged' = logged \/ (Record(c) /\ logged' = [logged EXCEPT ![now] = @ + cl[c].usage])
    BY DEF Client, Step, Incr, Check, Refuse, Adjust, Clamp, Keep, Create, Generate, Record, Work, Requeue,
           Raise, Die, DbSame
  <2>2. CASE Record(c) /\ logged' = [logged EXCEPT ![now] = @ + cl[c].usage]
    <3>1. cl[c].usage \in Nat
      BY <1>0, <2>2, RecordRow
    <3>2. logged[now] + cl[c].usage \in Nat
      BY <1>0, <3>1 DEF Types
    <3>. QED  BY <1>0, <2>2, <3>2 DEF Types
  <2>. QED  BY <1>0, <2>1, <2>2 DEF Types
<1>4. faults' \in 0 .. MaxFaults /\ faults' >= faults
  <2>1. faults' = faults \/ Fault
    BY <1>0, ClientFaults
  <2>2. faults \in 0 .. MaxFaults /\ MaxFaults \in Nat
    BY <1>0, QuotaAssumption DEF Types
  <2>. QED  BY <2>1, <2>2 DEF Fault
<1>5. cl' \in [Clients -> Row] /\ \A d \in Clients : Fits(d, cl'[d])
  BY <1>0, <1>1 DEF Law, Moves, Types, Sound
<1>6. lost' # "no" => faults' > 0
  <2>1. faults \in Nat /\ faults' \in Nat
    BY <1>0, <1>4, QuotaAssumption DEF Types
  <2>. QED  BY <1>0, <1>1, <1>4, <2>1 DEF Types
<1>7. Types'
  BY <1>0, <1>1, <1>2, <1>3, <1>4, <1>5, <1>6 DEF Types, Law
<1>8. Sound'
  BY <1>5, <1>7 DEF Sound, Fits, Giving, Closing, Returning, Listed
<1>9. CounterCovers'
  BY <1>0, <1>1, CoversStep
<1>. QED
  BY <1>0, <1>2, <1>8, <1>9, GaugesStep, PlacesStep, KeysStep, DebtsStep DEF QuotaInv

(* Nobody takes or gives: the counters of some keys are replaced.          *)
LEMMA NoClientStep ==
  ASSUME QuotaInv, cl' = cl, Types', recon'.st = "off" => recon.st = "off", lost' = lost \/ lost' # "no",
         faults' = 0 => faults = 0, Faulty => Faulty', rows' = rows, lost' # "torn" => lost # "torn",
         lost' = "no" => \A r \in Resources, p \in Periods : 
            r \in Gauges \/ recon'.st = "off" =>
              ctr'[r][p] = ctr[r][p] \/ (ctr'[r][p].n = 0 /\ Owing(r, p) = {}),
         faults' = 0 => lost' = "no",
         \A r \in Resources, p \in Periods :
            /\ ctr'[r][p] = ctr[r][p] \/ ctr'[r][p].ttl = "set"
               \/ (ctr'[r][p].ttl = "absent"
                   /\ (lost' # "torn" => \A c \in Clients : cl[c].pc \notin {"expire", "undo"}))
            /\ ctr'[r][p] = ctr[r][p] \/ ctr'[r][p].n = 0 \/ recon'.st # "off"
  PROVE  QuotaInv'
<1>0. /\ Sound /\ Types /\ CounterCovers /\ GaugesExact /\ PlacesSuffice /\ KeysTended /\ DeficitsRepaid
      /\ RowsBounded
  BY DEF QuotaInv, Sound
<1>1. Sound'
  BY <1>0 DEF Sound, Fits, Giving, Closing, Returning, Listed
<1>2. \A r, p : Owing(r, p)' = Owing(r, p)
  BY DEF Owing, Owes, Listed, Wanted
<1>3. \A r : Entering(r)' = Entering(r)
  BY DEF Entering, Entitled, Wanted
<1>4. CounterCovers'
  <2>. SUFFICES ASSUME lost' = "no", NEW r \in Resources, NEW p \in Periods, r \in Gauges \/ recon'.st = "off"
                PROVE  ctr'[r][p].n >= Amount(r) * Cardinality(Owing(r, p))
    BY <1>2 DEF CounterCovers
  <2>1. CASE ctr'[r][p] = ctr[r][p]
    BY <1>0, <2>1 DEF CounterCovers
  <2>2. CASE ctr'[r][p].n = 0 /\ Owing(r, p) = {}
    <3>1. Cardinality(Owing(r, p)) = 0 /\ Amount(r) \in Nat
      BY <2>2, FS_EmptySet, Basics
    <3>2. \A a \in Nat : 0 >= a * 0
      OBVIOUS
    <3>. QED  BY <2>2, <3>1, <3>2
  <2>. QED  BY <2>1, <2>2
<1>5. GaugesExact'
  <2>. SUFFICES ASSUME faults' = 0
                PROVE  /\ \A r \in Gauges, p \in Periods : ctr'[r][p].n = Cardinality(Owing(r, p))
                       /\ \A c \in Clients : At(c, "clamp") => Op(c).res \notin Gauges
    BY <1>2 DEF GaugesExact, At, Op
  <2>1. /\ \A r \in Gauges, p \in Periods : ctr[r][p].n = Cardinality(Owing(r, p))
        /\ \A c \in Clients : At(c, "clamp") => Op(c).res \notin Gauges
    BY <1>0 DEF GaugesExact
  <2>2. \A r \in Gauges, p \in Periods : ctr'[r][p] = ctr[r][p] \/ (ctr'[r][p].n = 0 /\ Owing(r, p) = {})
    BY GaugesCountOnes
  <2>. QED  BY <2>1, <2>2, FS_EmptySet
<1>6. PlacesSuffice'
  BY <1>0, <1>3 DEF PlacesSuffice
<1>7. KeysTended'
  <2>. SUFFICES ASSUME ~Faulty', lost' # "torn"
                PROVE  /\ \A c \in Clients : cl[c].pc \in {"expire", "undo"} =>
                            ctr'[Res(c)][Per(c, Res(c))].ttl # "absent"
                       /\ \A r \in Resources \ {"slots"}, p \in Periods :
                            ctr'[r][p].ttl = "none" => \E c \in Clients : Tends(c, cl[c], r, p)
    BY DEF KeysTended, Tends, Wanted, Res, Per
  <2>1. ~Faulty /\ lost # "torn"
    OBVIOUS
  <2>2. /\ \A c \in Clients : cl[c].pc \in {"expire", "undo"} => ctr[Res(c)][Per(c, Res(c))].ttl # "absent"
        /\ \A r \in Resources \ {"slots"}, p \in Periods :
             ctr[r][p].ttl = "none" => \E c \in Clients : Tends(c, cl[c], r, p)
    BY <1>0, <2>1 DEF KeysTended
  <2>3. \A c \in Clients : Res(c) \in Resources /\ Per(c, Res(c)) \in Periods
    BY <1>0, WantedIs
  <2>. QED  BY <2>2, <2>3
<1>8. DeficitsRepaid'
  <2>. SUFFICES ASSUME ~Faulty', recon'.st = "off", \A d \in Turns : ~Refusing(d),
                       NEW r \in Resources \ {"slots"}, NEW p \in Periods, ctr'[r][p].n < 0
                PROVE  \E d \in Turns : Repays(d, cl[d], r, p)'
    BY DEF DeficitsRepaid, Refusing, At
  <2>1. ctr'[r][p] = ctr[r][p]
    OBVIOUS
  <2>2. PICK d \in Turns : Repays(d, cl[d], r, p)
    BY <1>0, <2>1 DEF DeficitsRepaid
  <2>. QED  BY <2>1, <2>2 DEF Repays
<1>9. RowsBounded'
  BY <1>0 DEF RowsBounded, Created, HasCreated
<1>. QED  BY <1>1, <1>4, <1>5, <1>6, <1>7, <1>8, <1>9 DEF QuotaInv

LEMMA Replaced ==
  ASSUME Types, NEW r \in Resources, NEW p \in Periods, NEW new \in Counter, ctr' = [ctr EXCEPT ![r][p] = new]
  PROVE  /\ ctr' \in [Resources -> [Periods -> Counter]] /\ ctr'[r][p] = new
         /\ \A s \in Resources, q \in Periods : s # r \/ q # p => ctr'[s][q] = ctr[s][q]
BY DEF Types

LEMMA MissingIs == Missing \in Counter /\ Missing.n = 0 /\ Missing.ttl = "absent"
BY DEF Missing, Counter

LEMMA ReconcileStep ==
  ASSUME QuotaInv, Reconcile
  PROVE  QuotaInv'
<1>0. Types
  BY DEF QuotaInv, Sound
<1>1. CASE ReadFacts
  <2>1. /\ recon' = [st |-> "tokens", per |-> now, tokens |-> logged[now], messages |-> rows[now]]
        /\ UNCHANGED <<ctr, now, cl, rows, logged, snap, lost, faults>>
    BY <1>1 DEF ReadFacts
  <2>2. Types' /\ recon'.st = "tokens"
    BY <1>0, <2>1 DEF Types
  <2>3. Faulty' = Faulty
    BY <2>1 DEF Faulty
  <2>4. faults = 0 => lost = "no"
    BY <1>0 DEF Types
  <2>. QED  BY <2>1, <2>2, <2>3, <2>4, NoClientStep
<1>2. ASSUME NEW r \in Periodic, WriteFact(r) PROVE QuotaInv'
  <2>1. /\ recon' = [recon EXCEPT !.st = IF r = "tokens" THEN "messages" ELSE "idle"]
        /\ snap' = [snap EXCEPT ![r][recon.per] = recon[r]]
        /\ ctr' = [ctr EXCEPT ![r][now] = Corrected(r)]
        /\ UNCHANGED <<now, cl, rows, logged, lost, faults>>
    BY <1>2 DEF WriteFact
  <2>2. recon[r] \in Nat /\ recon.per \in Periods /\ now \in Periods /\ r \in Resources /\ r \notin Gauges
    BY <1>0 DEF Types, Periodic, Resources, Gauges
  <2>3. Corrected(r) \in Counter /\ Corrected(r).ttl = "set"
    BY <2>2 DEF Corrected, Counter
  <2>4. /\ ctr' \in [Resources -> [Periods -> Counter]] /\ ctr'[r][now] = Corrected(r)
        /\ \A s \in Resources, q \in Periods : s # r \/ q # now => ctr'[s][q] = ctr[s][q]
    <3>. DEFINE new == Corrected(r)
    <3>1. Types /\ r \in Resources /\ now \in Periods /\ new \in Counter /\ ctr' = [ctr EXCEPT ![r][now] = new]
      BY <1>0, <2>1, <2>2, <2>3
    <3>. HIDE DEF new
    <3>2. /\ ctr' \in [Resources -> [Periods -> Counter]] /\ ctr'[r][now] = new
          /\ \A s \in Resources, q \in Periods : s # r \/ q # now => ctr'[s][q] = ctr[s][q]
      BY <3>1 DEF Types
    <3>. QED  BY <3>2 DEF new
  <2>5. recon' \in [st : {"off", "never", "idle", "tokens", "messages"}, per : Periods, tokens : Nat, messages : Nat]
        /\ recon'.st # "off"
    BY <1>0, <2>1 DEF Types
  <2>6. snap' \in [Periodic -> [Periods -> Nat]]
    BY <1>0, <2>1, <2>2 DEF Types
  <2>7. Types'
    BY <1>0, <2>1, <2>4, <2>5, <2>6 DEF Types
  <2>8. Faulty' = Faulty /\ (faults = 0 => lost = "no")
    BY <1>0, <2>1 DEF Faulty, Types
  <2>. QED  BY <2>1, <2>2, <2>3, <2>4, <2>5, <2>7, <2>8, NoClientStep
<1>. QED  BY <1>1, <1>2 DEF Reconcile, Periodic

LEMMA RolloverStep ==
  ASSUME QuotaInv, Rollover
  PROVE  QuotaInv'
<1>0. Types /\ MaxPeriod \in Nat
  BY QuotaAssumption DEF QuotaInv, Sound
<1>1. now' = now + 1 /\ now < MaxPeriod /\ UNCHANGED <<ctr, cl, lost, faults, rows, logged, recon, snap>>
  BY DEF Rollover, DbSame
<1>2. now' \in Periods
  BY <1>0, <1>1 DEF Types, Periods
<1>3. Types'
  BY <1>0, <1>1, <1>2 DEF Types
<1>4. Faulty' = Faulty /\ (faults = 0 => lost = "no")
  BY <1>0, <1>1 DEF Types, Faulty
<1>. QED  BY <1>1, <1>3, <1>4, NoClientStep

LEMMA ExpireGaugeStep ==
  ASSUME QuotaInv, NEW r \in Gauges, ExpireGauge(r)
  PROVE  QuotaInv'
<1>0. Types /\ Sound /\ r \in Resources /\ 0 \in Periods
  BY GaugesCountOnes, Basics DEF QuotaInv, Sound
<1>1. ctr' = [ctr EXCEPT ![r][0] = Missing] /\ Quiet /\ UNCHANGED <<now, cl, lost, faults, rows, logged, recon, snap>>
  BY DEF ExpireGauge, DbSame
<1>2. /\ ctr' \in [Resources -> [Periods -> Counter]] /\ ctr'[r][0] = Missing
      /\ \A s \in Resources, q \in Periods : s # r \/ q # 0 => ctr'[s][q] = ctr[s][q]
  <2>. DEFINE p == 0
  <2>1. p \in Periods /\ ctr' = [ctr EXCEPT ![r][p] = Missing]
    BY <1>0, <1>1
  <2>. HIDE DEF p
  <2>2. /\ ctr' \in [Resources -> [Periods -> Counter]] /\ ctr'[r][p] = Missing
        /\ \A s \in Resources, q \in Periods : s # r \/ q # p => ctr'[s][q] = ctr[s][q]
    <3>1. Types /\ r \in Resources /\ Missing \in Counter
      BY <1>0, MissingIs
    <3>. HIDE DEF Missing
    <3>. QED  BY <2>1, <3>1 DEF Types
  <2>. QED  BY <2>2 DEF p
<1>3. Owing(r, 0) = {}
  BY <1>0, <1>1, RestingOwesNothing DEF Owing, Quiet
<1>4. \A c \in Clients : cl[c].pc \notin {"expire", "undo"}
  BY <1>1 DEF Quiet, Resting
<1>5. Types'
  BY <1>0, <1>1, <1>2 DEF Types
<1>6. Faulty' = Faulty /\ (faults = 0 => lost = "no")
  BY <1>0, <1>1 DEF Types, Faulty
<1>. QED  BY <1>1, <1>2, <1>3, <1>4, <1>5, <1>6, MissingIs, NoClientStep

LEMMA LoseStep ==
  ASSUME QuotaInv, NEW r \in Resources, Lose(r)
  PROVE  QuotaInv'
<1>. DEFINE p == KeyPeriod(r)
<1>0. Types /\ p \in Periods /\ faults \in Nat /\ MaxFaults \in Nat
  BY Basics, QuotaAssumption DEF QuotaInv, Sound, Types, KeyPeriod
<1>1. /\ ctr' = [ctr EXCEPT ![r][p] = Missing] /\ lost = "no" /\ faults' = faults + 1 /\ faults < MaxFaults
      /\ lost' = (IF \E c \in Clients : cl[c].pc \in Reserving THEN "torn" ELSE "yes")
      /\ UNCHANGED <<now, cl, rows, logged, recon, snap>>
  BY DEF Lose, DbSame, Fault
<1>. HIDE DEF p
<1>2. /\ ctr' \in [Resources -> [Periods -> Counter]] /\ ctr'[r][p] = Missing
      /\ \A s \in Resources, q \in Periods : s # r \/ q # p => ctr'[s][q] = ctr[s][q]
  BY <1>0, <1>1, Replaced, MissingIs
<1>3. lost' \in {"yes", "torn"} /\ faults' \in 0 .. MaxFaults /\ faults' > 0
  BY <1>0, <1>1
<1>4. lost' # "torn" => \A c \in Clients : cl[c].pc \notin {"expire", "undo"}
  BY <1>1 DEF Reserving
<1>5. Types'
  BY <1>0, <1>1, <1>2, <1>3 DEF Types
<1>6. Faulty' <=> Faulty
  BY <1>0, <1>1, <1>3 DEF Faulty
<1>. QED  BY <1>1, <1>2, <1>3, <1>4, <1>5, <1>6, MissingIs, NoClientStep

-----------------------------------------------------------------------------
(* The inductive invariant.                                                *)

LEMMA QuotaStart == Init => QuotaInv
<1>. SUFFICES ASSUME Init PROVE QuotaInv
  OBVIOUS
<1>. PICK s \in Scenes :
       /\ cl = [c \in Clients |-> Rest(IF c \in s.who THEN "off" ELSE "absent")]
       /\ recon = [st |-> IF s.nightly THEN "never" ELSE "off", per |-> 0, tokens |-> 0, messages |-> 0]
       /\ now = s.start
  BY DEF Init
<1>1. /\ ctr = [r \in Resources |-> [p \in Periods |-> Missing]]
      /\ rows = [p \in Periods |-> 0] /\ logged = [p \in Periods |-> 0]
      /\ snap = [r \in Periodic |-> [p \in Periods |-> 0]]
      /\ lost = "no" /\ faults = 0
  BY DEF Init
<1>2. now \in Periods /\ 0 \in Periods
  BY QuotaAssumption, Basics DEF Periods
<1>3. \A c \in Clients : /\ cl[c] \in {Rest("off"), Rest("absent")} /\ cl[c] \in Row /\ Fits(c, Rest("off"))
                         /\ Fits(c, Rest("absent")) /\ cl[c].pc \in {"off", "absent"} /\ cl[c].then = "off"
                         /\ cl[c].got = {} /\ cl[c].per = [r \in Resources |-> 0]
  <2>1. ASSUME NEW c \in Clients, NEW pc \in {"off", "absent"}
        PROVE  /\ Rest(pc) \in Row /\ Rest(pc).pc = pc /\ Rest(pc).then = "off" /\ Rest(pc).got = {}
               /\ Rest(pc).per = [r \in Resources |-> 0] /\ Fits(c, Rest(pc))
    <3>1. /\ Rest(pc) \in Row /\ Rest(pc).pc = pc /\ Rest(pc).then = "off" /\ Rest(pc).got = {}
          /\ Rest(pc).per = [r \in Resources |-> 0]
      BY RestIsFit DEF Resting
    <3>2. Rest(pc) = Rest(Rest(pc).pc)
      BY <3>1
    <3>. DEFINE y == Rest(pc)
    <3>. HIDE DEF y
    <3>3. /\ y \in Row /\ y.pc = pc /\ y.then = "off" /\ y.got = {} /\ y = Rest(y.pc)
          /\ \A r \in Gauges : y.per[r] = 0
      BY <3>1, <3>2 DEF y, Gauges, Resources
    <3>4. Fits(c, y)
      BY <3>3 DEF Fits, Resting, Reserving, Adjusting
    <3>. QED  BY <3>1, <3>4 DEF y
  <2>. QED  BY <2>1
<1>4. cl \in [Clients -> Row]
  BY <1>3
<1>5. Types
  <2>1. ctr \in [Resources -> [Periods -> Counter]]
    BY <1>1, MissingIs
  <2>2. recon \in [st : {"off", "never", "idle", "tokens", "messages"}, per : Periods, tokens : Nat, messages : Nat]
    BY <1>2
  <2>3. faults \in 0 .. MaxFaults
    BY <1>1, QuotaAssumption
  <2>. QED  BY <1>1, <1>2, <1>4, <2>1, <2>2, <2>3 DEF Types
<1>6. Sound
  BY <1>3, <1>5 DEF Sound
<1>7. \A r, p : Owing(r, p) = {}
  BY <1>3 DEF Owing, Owes, Listed, Adjusting
<1>8. \A r : Entering(r) = {}
  BY <1>3 DEF Entering, Entitled
<1>9. \A r \in Resources, p \in Periods : ctr[r][p].n = 0 /\ ctr[r][p].ttl = "absent"
  BY <1>1, MissingIs
<1>10. CounterCovers
  <2>1. \A r \in Resources : Amount(r) * 0 = 0
    BY Basics
  <2>. QED  BY <1>7, <1>9, <2>1, FS_EmptySet DEF CounterCovers
<1>11. GaugesExact
  BY <1>3, <1>7, <1>9, FS_EmptySet, GaugesCountOnes DEF GaugesExact, At
<1>12. PlacesSuffice
  <2>1. \A r \in Gauges : Limits[r] \in Nat
    BY Basics, GaugesCountOnes
  <2>. QED  BY <1>8, <2>1, FS_EmptySet DEF PlacesSuffice
<1>13. KeysTended
  BY <1>3, <1>9 DEF KeysTended
<1>14. DeficitsRepaid
  BY <1>9 DEF DeficitsRepaid
<1>15. RowsBounded
  <2>1. Cardinality(Created) \in Nat
    BY Basics, FS_Subset, FS_CardinalityType DEF Created
  <2>. QED  BY <1>1, <2>1 DEF RowsBounded
<1>. QED  BY <1>6, <1>10, <1>11, <1>12, <1>13, <1>14, <1>15 DEF QuotaInv

LEMMA QuotaStep == QuotaInv /\ [Next]_vars => QuotaInv'
<1>. SUFFICES ASSUME QuotaInv, [Next]_vars PROVE QuotaInv'
  OBVIOUS
<1>1. CASE \E c \in Clients : Step(c) \/ Raise(c) \/ Die(c)
  BY <1>1, ClientStep DEF Client
<1>2. CASE Reconcile
  BY <1>2, ReconcileStep
<1>3. CASE Rollover
  BY <1>3, RolloverStep
<1>4. CASE \E r \in {"streams", "slots"} : ExpireGauge(r)
  BY <1>4, ExpireGaugeStep DEF Gauges
<1>5. CASE \E r \in Resources : Lose(r)
  BY <1>5, LoseStep
<1>6. CASE UNCHANGED vars
  <2>1. Types /\ Types' /\ Faulty' = Faulty /\ (faults = 0 => lost = "no")
    BY <1>6 DEF QuotaInv, Sound, Types, Faulty, vars
  <2>. QED  BY <1>6, <2>1, NoClientStep DEF vars
<1>. QED  BY <1>1, <1>2, <1>3, <1>4, <1>5, <1>6 DEF Next

LEMMA QuotaInvariant == Spec => []QuotaInv
BY QuotaStart, QuotaStep, PTL DEF Spec

(* Every variable has its type, whatever fails: a client that is at a      *)
(* correction has one to make, and each turn creates at most one message   *)
(* in all periods together (budget.py, quota.py, fairness.py).             *)
THEOREM QuotaTypes == Spec => []TypeOK
<1>1. QuotaInv => TypeOK
  <2>. SUFFICES ASSUME QuotaInv PROVE TypeOK
    OBVIOUS
  <2>0. Types /\ (\A c \in Clients : Fits(c, cl[c])) /\ RowsBounded
    BY DEF QuotaInv, Sound
  <2>1. \A r \in Resources, p \in Periods : ctr[r][p].n \in Int /\ ctr[r][p].ttl \in {"absent", "none", "set"}
    BY <2>0, Numbers DEF Counter
  <2>2. now \in Periods /\ recon.st \in {"off", "never", "idle", "tokens", "messages"} /\ faults \in 0 .. MaxFaults
    BY <2>0 DEF Types
  <2>3. ASSUME NEW c \in Clients
        PROVE  /\ cl[c].pc \in Reserving \union Adjusting \union Resting
                                \union {"incr", "held", "run", "record", "work"}
               /\ cl[c].got \subseteq Resources /\ cl[c].i \in 1 .. 3
               /\ cl[c].pc \in Adjusting => cl[c].todo # <<>>
    <3>1. cl[c] \in Row /\ Fits(c, cl[c])
      BY <2>0, WantedIs
    <3>2. cl[c].pc \in Pcs /\ cl[c].got \subseteq Resources /\ cl[c].i \in 1 .. 3
      BY <3>1 DEF Row
    <3>. QED  BY <3>1, <3>2 DEF Pcs, Fits
  <2>4. ASSUME NEW p \in Periods PROVE rows[p] <= Cardinality(Turns)
    <3>1. Created \subseteq Turns
      BY DEF Created, HasCreated
    <3>2. IsFiniteSet(Turns)
      BY Basics, FS_Subset DEF Clients
    <3>3. IsFiniteSet(Created) /\ Cardinality(Created) <= Cardinality(Turns)
      BY <3>1, <3>2, FS_Subset
    <3>4. Cardinality(Created) \in Nat /\ Cardinality(Turns) \in Nat
      BY <3>2, <3>3, FS_CardinalityType
    <3>5. rows[p] <= Cardinality(Created) /\ rows[p] \in Nat
      BY <2>0 DEF RowsBounded, Types
    <3>. QED  BY <3>3, <3>4, <3>5
  <2>. QED  BY <2>1, <2>2, <2>3, <2>4 DEF TypeOK
<1>. QED  BY <1>1, QuotaInvariant, PTL

(* Whatever order the corrections come in, no quota key is left that never *)
(* expires, and no counter below zero (QuotaService._adjust).              *)
THEOREM CountersSound == Spec => []CountersStaySound
<1>1. QuotaInv => CountersStaySound
  <2>. SUFFICES ASSUME QuotaInv PROVE CountersStaySound
    OBVIOUS
  <2>0. Types /\ Sound /\ KeysTended /\ DeficitsRepaid /\ CounterCovers
    BY DEF QuotaInv, Sound
  <2>1. KeysExpire
    <3>. SUFFICES ASSUME Quiet, ~Faulty, lost # "torn", NEW r \in Resources \ {"slots"}, NEW p \in Periods,
                         ctr[r][p].ttl = "none"
                  PROVE  FALSE
      BY DEF KeysExpire
    <3>1. PICK c \in Clients : Tends(c, cl[c], r, p)
      BY <2>0 DEF KeysTended
    <3>. QED  BY <3>1 DEF Tends, Quiet, Resting
  <2>2. ASSUME Quiet, ~Faulty, lost # "torn", recon.st = "off", lost = "no", NEW r \in Resources, NEW p \in Periods
        PROVE  ctr[r][p].n >= 0
    <3>. DEFINE k == Cardinality(Owing(r, p))
                a == Amount(r)
                n == ctr[r][p].n
    <3>1. n >= a * k
      BY <2>0, <2>2 DEF CounterCovers
    <3>2. IsFiniteSet(Owing(r, p))
      BY Basics, FS_Subset DEF Owing
    <3>3. k \in Nat /\ a \in Nat /\ n \in Int
      BY <2>0, <3>2, FS_CardinalityType, Numbers
    <3>. HIDE DEF k, a, n
    <3>4. a * k >= 0 /\ a * k \in Int
      BY <3>3
    <3>5. n >= 0
      BY <3>1, <3>3, <3>4
    <3>. QED  BY <3>5 DEF n
  <2>3. ASSUME Quiet, ~Faulty, lost # "torn", recon.st = "off", \A c \in Turns : ~Refusing(c),
               NEW r \in Resources \ {"slots"}, NEW p \in Periods
        PROVE  ctr[r][p].n >= 0
    <3>1. ~(ctr[r][p].n < 0)
      <4>. SUFFICES ASSUME ctr[r][p].n < 0 PROVE FALSE
        OBVIOUS
      <4>1. PICK c \in Turns : Repays(c, cl[c], r, p)
        BY <2>0, <2>3 DEF DeficitsRepaid
      <4>. QED  BY <2>3, <4>1 DEF Repays, Quiet, Resting, Clients
    <3>2. ctr[r][p].n \in Int
      BY <2>0, Numbers
    <3>. QED  BY <3>1, <3>2
  <2>. QED  BY <2>1, <2>2, <2>3 DEF CountersStaySound, NeverNegative
<1>. QED  BY <1>1, QuotaInvariant, PTL

(* Without a fault the stream and slot counters are back at zero when all  *)
(* are through (budget.py:66-75, fairness.py:49-54).                       *)
THEOREM PlacesComeBack == Spec => []PlacesReturned
<1>1. QuotaInv => PlacesReturned
  <2>. SUFFICES ASSUME QuotaInv, Undisturbed, NEW r \in Gauges, NEW p \in Periods PROVE ctr[r][p].n = 0
    BY DEF PlacesReturned, Gauges
  <2>0. Types /\ Sound /\ GaugesExact /\ Quiet /\ faults = 0
    <3>1. Types /\ Sound /\ GaugesExact /\ Quiet /\ lost = "no" /\ ~Faulty
      BY DEF QuotaInv, Sound, Undisturbed
    <3>2. faults \in Nat /\ ~(faults > 0)
      BY <3>1, QuotaAssumption DEF Faulty, Types
    <3>. QED  BY <3>1, <3>2
  <2>1. Owing(r, p) = {}
    BY <2>0, GaugesCountOnes, RestingOwesNothing DEF Owing, Quiet
  <2>. QED  BY <2>0, <2>1, FS_EmptySet DEF GaugesExact
<1>. QED  BY <1>1, QuotaInvariant, PTL

-----------------------------------------------------------------------------
(***************************************************************************)
(* Sums along 0 .. N                                                       *)
(***************************************************************************)
(* What holds of 0 and passes from one number to the next holds of all.    *)
LessThan == {ss \in Nat \X Nat : ss[1] < ss[2]}
LEMMA HoldsOfAll ==
  ASSUME NEW N \in Nat, NEW Holds, 0 \in Holds,
         \A n \in 1 .. N : n - 1 \in Holds => n \in Holds
  PROVE  \A n \in 0 .. N : n \in Holds
<1>. DEFINE Exceptions == {n \in 0 .. N : n \notin Holds}
<1>1. SUFFICES ASSUME Exceptions # {} PROVE FALSE
  OBVIOUS
<1>2. IsWellFoundedOn(LessThan, Nat)
  BY NatLessThanWellFounded DEF OpToRel, LessThan
<1>3. Exceptions \in SUBSET Nat
  OBVIOUS
<1>4. PICK n \in Exceptions : \A m \in Exceptions : ~ (<<m, n>> \in LessThan)
  BY <1>1, <1>2, <1>3, WFMin
<1>5. n \in 1 .. N /\ n - 1 \in 0 .. N /\ <<n - 1, n>> \in LessThan
  BY <1>4 DEF LessThan
<1>6. n - 1 \in Holds
  BY <1>4, <1>5
<1>. QED  BY <1>4, <1>5, <1>6

Numeric(f, N) == \A n \in 0 .. N : f[n] \in Int
Summing(g, f, N) ==
  g \in [0 .. N -> Int] /\ g[0] = f[0] /\ \A n \in 1 .. N : g[n] = g[n - 1] + f[n]

LEMMA SummingExists ==
  ASSUME NEW N \in Nat, NEW f, Numeric(f, N)
  PROVE  \E g : Summing(g, f, N)
<1>. DEFINE Upto(m) == \E g \in [0 .. m -> Int] : g[0] = f[0] /\ \A n \in 1 .. m : g[n] = g[n - 1] + f[n]
            Holds == {m \in 0 .. N : Upto(m)}
<1>1. 0 \in Holds
  <2>. DEFINE g == [n \in 0 .. 0 |-> f[0]]
  <2>1. g \in [0 .. 0 -> Int] /\ g[0] = f[0] /\ \A n \in 1 .. 0 : g[n] = g[n - 1] + f[n]
    BY DEF Numeric
  <2>. HIDE DEF g
  <2>2. Upto(0)
    BY <2>1
  <2>. HIDE DEF Upto
  <2>3. 0 \in 0 .. N
    OBVIOUS
  <2>. QED  BY <2>2, <2>3
<1>2. ASSUME NEW m \in 1 .. N, m - 1 \in Holds
      PROVE  m \in Holds
  <2>1. PICK g \in [0 .. (m - 1) -> Int] : g[0] = f[0] /\ \A n \in 1 .. (m - 1) : g[n] = g[n - 1] + f[n]
    BY <1>2
  <2>2. m - 1 \in 0 .. (m - 1) /\ g[m - 1] \in Int /\ f[m] \in Int
    BY <2>1 DEF Numeric
  <2>. DEFINE next == g[m - 1] + f[m]
              h == [n \in 0 .. m |-> IF n = m THEN next ELSE g[n]]
  <2>3. next \in Int
    BY <2>2
  <2>4. \A n \in 0 .. m : n # m => n \in 0 .. (m - 1)
    OBVIOUS
  <2>5. h \in [0 .. m -> Int] /\ h[0] = f[0]
    <3>. HIDE DEF next
    <3>. QED  BY <2>1, <2>3, <2>4
  <2>6. ASSUME NEW n \in 1 .. m
        PROVE  h[n] = h[n - 1] + f[n]
    <3>1. CASE n = m
      <4>1. h[m] = next /\ h[m - 1] = g[m - 1]
        OBVIOUS
      <4>. QED  BY <3>1, <4>1
    <3>2. CASE n # m
      <4>1. n \in 1 .. (m - 1) /\ h[n] = g[n] /\ h[n - 1] = g[n - 1]
        BY <3>2
      <4>. HIDE DEF h
      <4>. QED  BY <2>1, <4>1
    <3>. QED  BY <3>1, <3>2
  <2>. HIDE DEF h
  <2>7. Upto(m)
    BY <2>5, <2>6
  <2>. HIDE DEF Upto
  <2>8. m \in 0 .. N
    OBVIOUS
  <2>. QED  BY <2>7, <2>8
<1>. HIDE DEF Holds
<1>3. \A m \in 0 .. N : m \in Holds
  BY <1>1, <1>2, HoldsOfAll
<1>4. N \in Holds
  BY <1>3
<1>. QED  BY <1>4 DEF Holds, Summing

LEMMA UpToIs ==
  ASSUME NEW N \in Nat, NEW f, Numeric(f, N)
  PROVE  \E g : Summing(g, f, N) /\ UpTo(f, N) = g[N]
<1>. DEFINE Body(g) == [n \in 0 .. N |-> IF n = 0 THEN f[0] ELSE g[n - 1] + f[n]]
            h == CHOOSE g : g = Body(g)
<1>1. UpTo(f, N) = h[N]
  BY DEF UpTo
<1>2. \E g : g = Body(g)
  <2>1. PICK g : Summing(g, f, N)
    BY SummingExists
  <2>2. \A n \in 0 .. N : g[n] = IF n = 0 THEN f[0] ELSE g[n - 1] + f[n]
    <3>1. \A n \in 0 .. N : n # 0 => n \in 1 .. N
      OBVIOUS
    <3>. QED  BY <2>1, <3>1 DEF Summing
  <2>3. g = [n \in 0 .. N |-> g[n]]
    BY <2>1 DEF Summing
  <2>4. g = Body(g)
    BY <2>2, <2>3
  <2>. QED  BY <2>4
<1>3. h = Body(h)
  <2>. HIDE DEF Body
  <2>. QED  BY <1>2
<1>. HIDE DEF h
<1>4. h[0] = f[0] /\ \A n \in 1 .. N : h[n] = h[n - 1] + f[n]
  <2>1. \A n \in 0 .. N : h[n] = IF n = 0 THEN f[0] ELSE h[n - 1] + f[n]
    BY <1>3
  <2>2. 0 \in 0 .. N /\ \A n \in 1 .. N : n \in 0 .. N /\ n # 0
    OBVIOUS
  <2>. QED  BY <2>1, <2>2
<1>5. \A n \in 0 .. N : h[n] \in Int
  <2>. DEFINE Holds == {n \in 0 .. N : h[n] \in Int}
  <2>1. 0 \in Holds
    BY <1>4 DEF Numeric
  <2>2. ASSUME NEW n \in 1 .. N, n - 1 \in Holds PROVE n \in Holds
    <3>1. n \in 0 .. N /\ f[n] \in Int
      BY DEF Numeric
    <3>. QED  BY <1>4, <2>2, <3>1
  <2>. HIDE DEF Holds
  <2>3. \A n \in 0 .. N : n \in Holds
    BY <2>1, <2>2, HoldsOfAll
  <2>. QED  BY <2>3 DEF Holds
<1>6. h \in [0 .. N -> Int]
  BY <1>3, <1>5
<1>7. Summing(h, f, N)
  BY <1>4, <1>6 DEF Summing
<1>. QED  BY <1>1, <1>7

(* The type of a sum; a sum of zeros; one term that changes.               *)
LEMMA SumIsInt ==
  ASSUME NEW N \in Nat, NEW f, Numeric(f, N)
  PROVE  UpTo(f, N) \in Int
<1>1. PICK g : Summing(g, f, N) /\ UpTo(f, N) = g[N]
  BY UpToIs
<1>. QED  BY <1>1 DEF Summing

LEMMA SumOfZeros ==
  ASSUME NEW N \in Nat, NEW f, \A n \in 0 .. N : f[n] = 0
  PROVE  UpTo(f, N) = 0
<1>1. PICK g : Summing(g, f, N) /\ UpTo(f, N) = g[N]
  BY UpToIs DEF Numeric
<1>. DEFINE Holds == {n \in 0 .. N : g[n] = 0}
<1>2. 0 \in Holds
  BY <1>1 DEF Summing
<1>3. ASSUME NEW n \in 1 .. N, n - 1 \in Holds PROVE n \in Holds
  <2>1. n \in 0 .. N /\ g[n] = g[n - 1] + f[n] /\ f[n] = 0
    BY <1>1 DEF Summing
  <2>. QED  BY <1>3, <2>1
<1>. HIDE DEF Holds
<1>4. \A n \in 0 .. N : n \in Holds
  BY <1>2, <1>3, HoldsOfAll
<1>. QED  BY <1>1, <1>4 DEF Holds

LEMMA SumMoves ==
  ASSUME NEW N \in Nat, NEW f, NEW e, Numeric(f, N), Numeric(e, N), NEW k \in 0 .. N,
         \A n \in 0 .. N : n # k => e[n] = f[n]
  PROVE  UpTo(e, N) = UpTo(f, N) + (e[k] - f[k])
<1>1. PICK g : Summing(g, f, N) /\ UpTo(f, N) = g[N]
  BY UpToIs
<1>2. PICK h : Summing(h, e, N) /\ UpTo(e, N) = h[N]
  BY UpToIs
<1>. DEFINE d == e[k] - f[k]
            Holds == {n \in 0 .. N : h[n] = g[n] + (IF n >= k THEN d ELSE 0)}
<1>3. d \in Int /\ \A n \in 0 .. N : f[n] \in Int /\ e[n] \in Int /\ g[n] \in Int /\ h[n] \in Int
  BY <1>1, <1>2 DEF Numeric, Summing
<1>4. 0 \in Holds
  <2>1. h[0] = e[0] /\ g[0] = f[0] /\ 0 \in 0 .. N
    BY <1>1, <1>2 DEF Summing
  <2>2. CASE k = 0
    BY <1>3, <2>1, <2>2
  <2>3. CASE k # 0
    BY <1>3, <2>1, <2>3
  <2>. QED  BY <2>2, <2>3
<1>5. ASSUME NEW n \in 1 .. N, n - 1 \in Holds PROVE n \in Holds
  <2>1. n \in 0 .. N /\ n - 1 \in 0 .. N /\ h[n] = h[n - 1] + e[n] /\ g[n] = g[n - 1] + f[n]
    BY <1>1, <1>2 DEF Summing
  <2>2. h[n - 1] = g[n - 1] + (IF n - 1 >= k THEN d ELSE 0)
    BY <1>5
  <2>3. e[n] = f[n] + (IF n = k THEN d ELSE 0)
    BY <1>3, <2>1
  <2>. HIDE DEF d
  <2>4. h[n] = g[n] + (IF n >= k THEN d ELSE 0)
    BY <1>3, <2>1, <2>2, <2>3
  <2>. QED  BY <2>1, <2>4
<1>. HIDE DEF Holds
<1>6. \A n \in 0 .. N : n \in Holds
  BY <1>4, <1>5, HoldsOfAll
<1>7. h[N] = g[N] + d
  BY <1>6 DEF Holds
<1>. QED  BY <1>1, <1>2, <1>7

LEMMA SumStays ==
  ASSUME NEW N \in Nat, NEW f, NEW e, Numeric(f, N), \A n \in 0 .. N : e[n] = f[n]
  PROVE  UpTo(e, N) = UpTo(f, N)
<1>1. Numeric(e, N) /\ 0 \in 0 .. N
  BY DEF Numeric
<1>2. UpTo(e, N) = UpTo(f, N) + (e[0] - f[0])
  BY <1>1, SumMoves
<1>3. e[0] - f[0] = 0 /\ UpTo(f, N) \in Int
  BY <1>1, SumIsInt DEF Numeric
<1>. QED  BY <1>2, <1>3

-----------------------------------------------------------------------------
(***************************************************************************)
(* The books: what is counted is what has happened and what is still owed  *)
(***************************************************************************)
(* What a client has on a counter and will take off again, or correct by.  *)
Debt(c, x, r) ==
  IF x.pc \in Adjusting
  THEN IF ~Listed(x, r) THEN 0 ELSE IF x.then = "give" THEN 0 - x.todo[1].by ELSE Amount(r)
  ELSE IF r \in x.got \/ (x.pc \in {"expire", "undo"} /\ Wanted(c, x) = r) THEN Amount(r) ELSE 0
Booked(r) == IF r = "tokens" THEN logged ELSE rows

(* The clients, one after the other.                                       *)
Many == Cardinality(Clients)
Numbering == CHOOSE e : e \in Bijection(1 .. Many, Clients)
Debts(r) == [k \in 0 .. Many |-> IF k = 0 THEN 0 ELSE Debt(Numbering[k], cl[Numbering[k]], r)]
Owed(r) == UpTo(Debts(r), Many)

BooksExact ==
  faults = 0 /\ recon.st = "off" =>
    /\ \A c \in Clients : cl[c].pc # "clamp"
    /\ \A r \in Periodic : Counted(r) = SumOver(Booked(r)) + Owed(r)

LEMMA NumberingIs ==
  /\ Many \in Nat /\ \A k \in 1 .. Many : Numbering[k] \in Clients
  /\ \A c \in Clients : \E k \in 1 .. Many : Numbering[k] = c
  /\ \A j, k \in 1 .. Many : Numbering[j] = Numbering[k] => j = k
<1>1. IsFiniteSet(Clients)
  BY Basics
<1>2. PICK n \in Nat : ExistsBijection(1 .. n, Clients)
  BY <1>1, FS_NatBijection
<1>3. n = Many
  BY <1>2, FS_CountingElements DEF Many
<1>4. \E e : e \in Bijection(1 .. Many, Clients)
  BY <1>2, <1>3 DEF ExistsBijection
<1>5. Numbering \in Bijection(1 .. Many, Clients)
  BY <1>4 DEF Numbering
<1>. QED  BY <1>2, <1>3, <1>5 DEF Bijection, Injection, Surjection, IsInjective

LEMMA PeriodicIs ==
  /\ Periodic \subseteq Resources /\ \A r \in Periodic : r \notin Gauges /\ Amount(r) \in Nat
  /\ MaxPeriod \in Nat /\ Periods = 0 .. MaxPeriod
BY Basics, QuotaAssumption DEF Periodic, Resources, Gauges, Periods

LEMMA DebtIsInt ==
  ASSUME NEW c \in Clients, NEW x \in Row, Fits(c, x), NEW r \in Periodic
  PROVE  Debt(c, x, r) \in Int
<1>1. Amount(r) \in Int
  BY PeriodicIs
<1>2. ASSUME x.pc \in Adjusting, x.then = "give" PROVE 0 - x.todo[1].by \in Int
  <2>1. Giving(c, x)
    BY <1>2 DEF Fits, Closing, Returning
  <2>2. x.todo \in Seq(Corrections) /\ Len(x.todo) = 1
    BY <2>1 DEF Giving, Row
  <2>3. x.todo[1] \in Corrections
    BY <2>2, ElementOfSeq
  <2>. QED  BY <2>3 DEF Corrections
<1>. QED  BY <1>1, <1>2 DEF Debt

LEMMA OwedMoves ==
  ASSUME Sound, NEW c \in Clients, Moves(c), NEW r \in Periodic
  PROVE  /\ Owed(r)' = Owed(r) + (Debt(c, cl'[c], r) - Debt(c, cl[c], r))
         /\ Owed(r) \in Int /\ Debt(c, cl'[c], r) \in Int /\ Debt(c, cl[c], r) \in Int
<1>. DEFINE f == Debts(r)
            e == [k \in 0 .. Many |-> IF k = 0 THEN 0 ELSE Debt(Numbering[k], cl'[Numbering[k]], r)]
<1>0. \A d \in Clients : cl[d] \in Row /\ Fits(d, cl[d]) /\ (d # c => cl'[d] = cl[d])
  BY DEF Sound, Types, Moves
<1>1. cl'[c] \in Row /\ Fits(c, cl'[c])
  BY DEF Moves
<1>2. \A d \in Clients : Debt(d, cl[d], r) \in Int /\ Debt(d, cl'[d], r) \in Int
  BY <1>0, <1>1, DebtIsInt
<1>3. PICK k \in 1 .. Many : Numbering[k] = c
  BY NumberingIs
<1>4. Many \in Nat /\ k \in 0 .. Many /\ k # 0
  BY NumberingIs
<1>5. \A n \in 0 .. Many : n # 0 => n \in 1 .. Many /\ Numbering[n] \in Clients
  BY NumberingIs
<1>6. \A n \in 0 .. Many : n # k /\ n # 0 => Numbering[n] # c
  BY <1>3, <1>5, NumberingIs
<1>7. /\ \A n \in 0 .. Many : f[n] = IF n = 0 THEN 0 ELSE Debt(Numbering[n], cl[Numbering[n]], r)
      /\ \A n \in 0 .. Many : e[n] = IF n = 0 THEN 0 ELSE Debt(Numbering[n], cl'[Numbering[n]], r)
  BY DEF Debts
<1>8. Owed(r)' = UpTo(e, Many) /\ Owed(r) = UpTo(f, Many)
  BY DEF Owed, Debts, Debt, Listed, Wanted
<1>. HIDE DEF f, e
<1>9. Numeric(f, Many) /\ Numeric(e, Many)
  BY <1>2, <1>5, <1>7 DEF Numeric
<1>10. \A n \in 0 .. Many : n # k => e[n] = f[n]
  BY <1>0, <1>5, <1>6, <1>7
<1>11. UpTo(e, Many) = UpTo(f, Many) + (e[k] - f[k])
  BY <1>4, <1>9, <1>10, SumMoves
<1>12. e[k] = Debt(c, cl'[c], r) /\ f[k] = Debt(c, cl[c], r)
  BY <1>3, <1>4, <1>7
<1>13. UpTo(f, Many) \in Int
  BY <1>4, <1>9, SumIsInt
<1>. QED  BY <1>2, <1>8, <1>11, <1>12, <1>13

(* What the counters of a resource add up to.                              *)
LEMMA CountedMoves ==
  ASSUME Types, ctr' \in [Resources -> [Periods -> Counter]], NEW r \in Resources, NEW p \in Periods,
         \A q \in Periods : q # p => ctr'[r][q].n = ctr[r][q].n
  PROVE  Counted(r) \in Int /\ Counted(r)' = Counted(r) + (ctr'[r][p].n - ctr[r][p].n)
<1>. DEFINE f == [q \in Periods |-> ctr[r][q].n]
            e == [q \in Periods |-> ctr'[r][q].n]
<1>1. MaxPeriod \in Nat /\ Periods = 0 .. MaxPeriod
  BY PeriodicIs
<1>2. \A q \in Periods : f[q] = ctr[r][q].n /\ e[q] = ctr'[r][q].n
  OBVIOUS
<1>3. Counted(r) = UpTo(f, MaxPeriod) /\ Counted(r)' = UpTo(e, MaxPeriod)
  BY DEF Counted, SumOver
<1>. HIDE DEF f, e
<1>4. \A q \in Periods : ctr[r][q].n \in Int /\ ctr'[r][q].n \in Int
  BY DEF Types, Counter
<1>5. Numeric(f, MaxPeriod) /\ Numeric(e, MaxPeriod)
  BY <1>1, <1>2, <1>4 DEF Numeric
<1>6. \A n \in 0 .. MaxPeriod : n # p => e[n] = f[n]
  BY <1>1, <1>2
<1>7. p \in 0 .. MaxPeriod /\ e[p] = ctr'[r][p].n /\ f[p] = ctr[r][p].n
  BY <1>1, <1>2
<1>8. UpTo(e, MaxPeriod) = UpTo(f, MaxPeriod) + (e[p] - f[p])
  BY <1>1, <1>5, <1>6, <1>7, SumMoves
<1>9. UpTo(f, MaxPeriod) \in Int
  BY <1>1, <1>5, SumIsInt
<1>. QED  BY <1>3, <1>7, <1>8, <1>9

LEMMA CountedStays ==
  ASSUME Types, ctr' \in [Resources -> [Periods -> Counter]], NEW r \in Resources,
         \A q \in Periods : ctr'[r][q].n = ctr[r][q].n
  PROVE  Counted(r) \in Int /\ Counted(r)' = Counted(r)
<1>1. 0 \in Periods
  BY Basics
<1>2. Counted(r) \in Int /\ Counted(r)' = Counted(r) + (ctr'[r][0].n - ctr[r][0].n)
  BY <1>1, CountedMoves
<1>3. ctr'[r][0].n - ctr[r][0].n = 0
  BY <1>1, Numbers
<1>. QED  BY <1>2, <1>3

(* What has been booked: messages that were created, tokens in the log.    *)
LEMMA BookedMoves ==
  ASSUME NEW f \in [Periods -> Nat], NEW p \in Periods, NEW by \in Nat
  PROVE  SumOver(f) \in Int /\ SumOver([f EXCEPT ![p] = @ + by]) = SumOver(f) + by
<1>. DEFINE e == [f EXCEPT ![p] = @ + by]
<1>1. MaxPeriod \in Nat /\ Periods = 0 .. MaxPeriod
  BY PeriodicIs
<1>2. \A q \in Periods : f[q] \in Int /\ e[q] \in Int /\ (q # p => e[q] = f[q])
  OBVIOUS
<1>3. e[p] = f[p] + by
  OBVIOUS
<1>. HIDE DEF e
<1>4. Numeric(f, MaxPeriod) /\ Numeric(e, MaxPeriod)
  BY <1>1, <1>2 DEF Numeric
<1>5. UpTo(e, MaxPeriod) = UpTo(f, MaxPeriod) + (e[p] - f[p])
  BY <1>1, <1>2, <1>4, SumMoves
<1>6. UpTo(f, MaxPeriod) \in Int
  BY <1>1, <1>4, SumIsInt
<1>7. e[p] - f[p] = by
  BY <1>2, <1>3
<1>8. SumOver(e) = SumOver(f) + by
  BY <1>5, <1>6, <1>7 DEF SumOver
<1>. QED  BY <1>6, <1>8 DEF SumOver, e

(* What each step does to the debt of its client.                          *)
LEMMA DebtOfRest ==
  ASSUME NEW c \in Clients, NEW pc \in Resting, NEW r \in Periodic
  PROVE  Debt(c, Rest(pc), r) = 0
<1>1. Rest(pc).pc = pc /\ Rest(pc).got = {}
  BY RestIsFit
<1>. QED  BY <1>1 DEF Debt, Resting, Adjusting

LEMMA DebtOfClose ==
  ASSUME Sound, NEW c \in Clients, NEW r \in Periodic
  PROVE  Debt(c, Close(c), r) = 0
<1>. DEFINE y == Close(c)
            op == [res |-> Place(c), by |-> -1]
<1>1. y.pc = "adjust" /\ y.todo = <<op>>
  BY Closed
<1>. HIDE DEF y
<1>2. ~Listed(y, r)
  <2>1. Len(y.todo) = 1 /\ y.todo[1].res = Place(c)
    BY <1>1
  <2>2. Place(c) # r
    BY DEF Place, Periodic
  <2>. QED  BY <2>1, <2>2 DEF Listed
<1>3. Debt(c, y, r) = 0
  BY <1>1, <1>2 DEF Debt, Adjusting
<1>. QED  BY <1>3 DEF y

LEMMA DebtOfList ==
  ASSUME NEW c \in Clients, NEW y, NEW todo, NEW r \in Periodic, y.pc = "adjust", y.todo = todo
  PROVE  /\ (\A n \in 1 .. Len(todo) : todo[n].res # r) => Debt(c, y, r) = 0
         /\ (\E n \in 1 .. Len(todo) : todo[n].res = r) =>
              Debt(c, y, r) = IF y.then = "give" THEN 0 - todo[1].by ELSE Amount(r)
BY DEF Debt, Listed, Adjusting

LEMMA DebtOfRollback ==
  ASSUME Sound, NEW c \in Clients, cl[c].pc \in Reserving, NEW r \in Periodic
  PROVE  Debt(c, Rollback(c), r) = IF r \in cl[c].got THEN Amount(r) ELSE 0
<1>. DEFINE x == cl[c]
            y == Rollback(c)
<1>0. Types /\ Fits(c, x) /\ x \in Row /\ r \in Resources
  BY WantedIs, PeriodicIs DEF Sound
<1>1. CASE x.got = {}
  <2>1. y = Rest("refused") /\ "refused" \in Resting
    BY <1>1 DEF Rollback, Resting
  <2>. QED  BY <1>1, <2>1, DebtOfRest
<1>2. CASE x.got # {}
  <2>1. x.i \in 2 .. 3 /\ x.got = Before(x.i)
    BY <1>0, <1>2 DEF Fits, Before, Row
  <2>. DEFINE todo == Releases(c)
              i == x.i
  <2>i. i \in 2 .. 4 /\ cl[c].got = IF i = 4 THEN Whole ELSE Before(i)
    BY <2>1
  <2>. HIDE DEF i
  <2>2. /\ Len(todo) = i - 1
        /\ \A s \in Resources : s \in x.got <=> \E n \in 1 .. i - 1 : todo[n].res = s
    BY <1>0, <2>i, ReleasesOf
  <2>4. y.pc = "adjust" /\ y.todo = todo /\ y.then = "refused"
    <3>. HIDE DEF todo
    <3>1. y = [x EXCEPT !.pc = "adjust", !.todo = todo, !.then = "refused", !.got = {}, !.i = 1, !.seen = 0]
      BY <1>2 DEF Rollback, todo
    <3>. QED  BY <1>0, <3>1 DEF Row
  <2>. HIDE DEF todo, y
  <2>5. /\ (\A n \in 1 .. Len(todo) : todo[n].res # r) => Debt(c, y, r) = 0
        /\ (\E n \in 1 .. Len(todo) : todo[n].res = r) => Debt(c, y, r) = Amount(r)
    BY <2>4, DebtOfList
  <2>6. r \in x.got <=> \E n \in 1 .. Len(todo) : todo[n].res = r
    BY <1>0, <2>2
  <2>7. Debt(c, y, r) = IF r \in x.got THEN Amount(r) ELSE 0
    BY <2>5, <2>6
  <2>. QED  BY <2>7 DEF y
<1>. QED  BY <1>1, <1>2

(* The sums before and after a step of c agree with its debt.              *)
Balanced(c) ==
  \A r \in Periodic :
    Counted(r)' = Counted(r) + (SumOver(Booked(r))' - SumOver(Booked(r)))
                             + (Debt(c, cl'[c], r) - Debt(c, cl[c], r))

LEMMA SumIsTyped ==
  ASSUME NEW f \in [Periods -> Nat]
  PROVE  SumOver(f) \in Int
<1>1. MaxPeriod \in Nat /\ Periods = 0 .. MaxPeriod
  BY PeriodicIs
<1>2. Numeric(f, MaxPeriod)
  BY <1>1 DEF Numeric
<1>. QED  BY <1>1, <1>2, SumIsInt DEF SumOver

LEMMA BooksAreInts ==
  ASSUME Types, NEW r \in Periodic
  PROVE  SumOver(Booked(r)) \in Int /\ Counted(r) \in Int
<1>1. Booked(r) \in [Periods -> Nat]
  BY DEF Types, Booked
<1>. DEFINE f == Booked(r)
            e == [q \in Periods |-> ctr[r][q].n]
<1>2. MaxPeriod \in Nat /\ Periods = 0 .. MaxPeriod /\ r \in Resources
  BY PeriodicIs
<1>3. Numeric(f, MaxPeriod)
  BY <1>1, <1>2 DEF Numeric
<1>4. Numeric(e, MaxPeriod)
  BY <1>2, Numbers DEF Numeric
<1>. HIDE DEF f, e
<1>5. UpTo(f, MaxPeriod) \in Int /\ UpTo(e, MaxPeriod) \in Int
  BY <1>2, <1>3, <1>4, SumIsInt
<1>. QED  BY <1>5 DEF SumOver, Counted, f, e

(* The counters of the periodic resources, when nothing or one is changed  *)
(* and the books are left alone.                                           *)
LEMMA NothingCounted ==
  ASSUME Sound, NEW c \in Clients, Moves(c), rows' = rows, logged' = logged,
         ctr' \in [Resources -> [Periods -> Counter]],
         \A r \in Periodic, q \in Periods : ctr'[r][q].n = ctr[r][q].n,
         \A r \in Periodic : Debt(c, cl'[c], r) = Debt(c, cl[c], r)
  PROVE  Balanced(c)
<1>. SUFFICES ASSUME NEW r \in Periodic
              PROVE  Counted(r)' = Counted(r) + (SumOver(Booked(r))' - SumOver(Booked(r)))
                                              + (Debt(c, cl'[c], r) - Debt(c, cl[c], r))
  BY DEF Balanced
<1>0. Types /\ r \in Resources
  BY PeriodicIs DEF Sound
<1>1. Counted(r)' = Counted(r) /\ Counted(r) \in Int
  BY <1>0, CountedStays
<1>2. SumOver(Booked(r))' = SumOver(Booked(r)) /\ SumOver(Booked(r)) \in Int
  BY <1>0, BooksAreInts DEF Booked
<1>3. Debt(c, cl'[c], r) \in Int /\ Debt(c, cl[c], r) \in Int
  BY OwedMoves
<1>. QED  BY <1>1, <1>2, <1>3

LEMMA OneCounted ==
  ASSUME Sound, NEW c \in Clients, Moves(c), rows' = rows, logged' = logged,
         NEW res \in Resources, NEW p \in Periods, NEW by \in Int, IncrBy(res, p, by),
         res \in Periodic => Debt(c, cl'[c], res) = Debt(c, cl[c], res) + by,
         \A r \in Periodic : r # res => Debt(c, cl'[c], r) = Debt(c, cl[c], r)
  PROVE  Balanced(c)
<1>0. Types
  BY DEF Sound
<1>1. /\ ctr' \in [Resources -> [Periods -> Counter]]
      /\ ctr'[res][p].n = ctr[res][p].n + by
      /\ \A s \in Resources, q \in Periods : s # res \/ q # p => ctr'[s][q] = ctr[s][q]
  BY <1>0, CountersMove
<1>2. ASSUME NEW r \in Periodic
      PROVE  Counted(r)' = Counted(r) + (SumOver(Booked(r))' - SumOver(Booked(r)))
                                      + (Debt(c, cl'[c], r) - Debt(c, cl[c], r))
  <2>1. r \in Resources /\ Counted(r) \in Int /\ SumOver(Booked(r)) \in Int
    BY <1>0, PeriodicIs, BooksAreInts
  <2>2. SumOver(Booked(r))' = SumOver(Booked(r))
    BY DEF Booked
  <2>3. Debt(c, cl'[c], r) \in Int /\ Debt(c, cl[c], r) \in Int
    BY OwedMoves
  <2>4. CASE r = res
    <3>1. \A q \in Periods : q # p => ctr'[r][q].n = ctr[r][q].n
      BY <1>1, <2>1
    <3>2. Counted(r)' = Counted(r) + (ctr'[r][p].n - ctr[r][p].n)
      BY <1>0, <1>1, <2>1, <3>1, CountedMoves
    <3>3. ctr'[r][p].n - ctr[r][p].n = by
      BY <1>0, <1>1, <2>4, Numbers
    <3>4. Debt(c, cl'[c], r) = Debt(c, cl[c], r) + by
      BY <2>4
    <3>. QED  BY <2>1, <2>2, <2>3, <3>2, <3>3, <3>4
  <2>5. CASE r # res
    <3>1. \A q \in Periods : ctr'[r][q].n = ctr[r][q].n
      BY <1>1, <2>1, <2>5
    <3>2. Counted(r)' = Counted(r)
      BY <1>0, <1>1, <2>1, <3>1, CountedStays
    <3>. QED  BY <2>1, <2>2, <2>3, <2>5, <3>2
  <2>. QED  BY <2>4, <2>5
<1>. QED  BY <1>2 DEF Balanced

LEMMA IncrBalanced ==
  ASSUME Sound, NEW c \in Clients, Incr(c)
  PROVE  Balanced(c)
<1>. DEFINE r == Res(c)
            p == KeyPeriod(r)
            x == cl[c]
            y == cl'[c]
<1>0. Types /\ r \in Resources /\ p \in Periods /\ r = Wanted(c, x) /\ x \in Row /\ Amount(r) \in Int
  BY WantedIs, Basics DEF Sound
<1>1. /\ Moves(c) /\ IncrBy(r, p, Amount(r)) /\ x.pc \in {"off", "incr"}
      /\ y = [x EXCEPT !.pc = "expire", !.per = [@ EXCEPT ![r] = p], !.seen = ctr[r][p].n + Amount(r)]
      /\ x.got = (IF c \in Tasks THEN {} ELSE Before(x.i))
  BY IncrRow
<1>2. y.pc = "expire" /\ y.got = x.got /\ y.i = x.i
  <2>. HIDE DEF y, r, p
  <2>. QED  BY <1>0, <1>1 DEF Row
<1>3. r \notin x.got /\ Wanted(c, y) = r
  <2>1. c \notin Tasks => r = Order[x.i] /\ x.i \in 1 .. 3
    BY <1>0 DEF Wanted, Row
  <2>2. Wanted(c, y) = r
    BY <1>0, <1>2 DEF Wanted
  <2>. QED  BY <1>1, <2>1, <2>2, Basics DEF Before
<1>4. rows' = rows /\ logged' = logged
  BY DEF Incr, DbSame
<1>. HIDE DEF r, p, x, y
<1>5. Debt(c, y, r) = Amount(r) /\ Debt(c, x, r) = 0
  BY <1>1, <1>2, <1>3 DEF Debt, Adjusting
<1>6. \A s \in Periodic : s # r => Debt(c, y, s) = Debt(c, x, s)
  BY <1>1, <1>2, <1>3 DEF Debt, Adjusting
<1>7. Debt(c, y, r) = Debt(c, x, r) + Amount(r)
  BY <1>0, <1>5
<1>. QED  BY <1>0, <1>1, <1>4, <1>6, <1>7, OneCounted DEF x, y

LEMMA CheckBalanced ==
  ASSUME Sound, NEW c \in Clients, Check(c)
  PROVE  Balanced(c)
<1>. DEFINE r == Res(c)
            x == cl[c]
            y == cl'[c]
<1>0. Types /\ r = Wanted(c, x) /\ x \in Row
  BY WantedIs DEF Sound
<1>1. /\ Moves(c) /\ x.pc = "expire"
      /\ OnlyExpiry(r, Per(c, r), IF ctr[r][Per(c, r)].ttl = "absent" THEN "absent" ELSE "set")
      /\ \/ y.pc = "undo" /\ y.got = x.got /\ y.i = x.i
         \/ y.pc \in {"work", "held", "incr"} /\ y.got = x.got \union {r}
  BY CheckRow
<1>2. ctr' \in [Resources -> [Periods -> Counter]]
      /\ \A s \in Periodic, q \in Periods : ctr'[s][q].n = ctr[s][q].n
  BY <1>1, PeriodicIs DEF OnlyExpiry
<1>3. rows' = rows /\ logged' = logged
  BY DEF Check, DbSame
<1>. HIDE DEF r, y
<1>4. \A s \in Periodic : Debt(c, y, s) = Debt(c, x, s)
  <2>1. CASE y.pc = "undo" /\ y.got = x.got /\ y.i = x.i
    <3>1. Wanted(c, y) = r
      BY <1>0, <2>1 DEF Wanted
    <3>. QED  BY <1>0, <1>1, <2>1, <3>1 DEF Debt, Adjusting
  <2>2. CASE y.pc \in {"work", "held", "incr"} /\ y.got = x.got \union {r}
    BY <1>0, <1>1, <2>2 DEF Debt, Adjusting
  <2>. QED  BY <1>1, <2>1, <2>2
<1>. QED  BY <1>1, <1>2, <1>3, <1>4, NothingCounted DEF y

LEMMA RefuseBalanced ==
  ASSUME Sound, NEW c \in Clients, Refuse(c)
  PROVE  Balanced(c)
<1>. DEFINE r == Res(c)
            p == Per(c, r)
            x == cl[c]
            y == cl'[c]
<1>0. Types /\ r \in Resources /\ p \in Periods /\ r = Wanted(c, x) /\ x \in Row /\ Amount(r) \in Int
      /\ Fits(c, x)
  BY WantedIs, Basics DEF Sound
<1>1. Moves(c) /\ IncrBy(r, p, 0 - Amount(r)) /\ x.pc = "undo"
  BY RefuseRow DEF Ebbs
<1>2. y = Rollback(c)
  BY <1>0 DEF Refuse, Types
<1>3. rows' = rows /\ logged' = logged
  BY DEF Refuse, DbSame
<1>4. r \notin x.got
  <2>1. x.got = (IF c \in Tasks THEN {} ELSE Before(x.i))
    BY <1>0, <1>1 DEF Fits, Reserving
  <2>2. c \notin Tasks => r = Order[x.i] /\ x.i \in 1 .. 3
    BY <1>0 DEF Wanted, Row
  <2>. QED  BY <2>1, <2>2, Basics DEF Before
<1>5. \A s \in Periodic : Debt(c, y, s) = IF s \in x.got THEN Amount(s) ELSE 0
  BY <1>1, <1>2, DebtOfRollback DEF Reserving
<1>6. \A s \in Periodic : Debt(c, x, s) = IF s \in x.got \/ s = r THEN Amount(s) ELSE 0
  <2>. HIDE DEF r
  <2>. QED  BY <1>0, <1>1 DEF Debt, Adjusting
<1>. HIDE DEF r, p, y
<1>7. r \in Periodic => Debt(c, y, r) = Debt(c, x, r) + (0 - Amount(r))
  BY <1>0, <1>4, <1>5, <1>6
<1>8. \A s \in Periodic : s # r => Debt(c, y, s) = Debt(c, x, s)
  BY <1>5, <1>6
<1>9. 0 - Amount(r) \in Int
  BY <1>0
<1>. QED  BY <1>0, <1>1, <1>3, <1>7, <1>8, <1>9, OneCounted DEF y

LEMMA AdjustBalanced ==
  ASSUME Sound, NEW c \in Clients, Adjust(c)
  PROVE  Balanced(c)
<1>. DEFINE x == cl[c]
            y == cl'[c]
            res == Op(c).res
            p == Per(c, res)
<1>0. Types /\ x \in Row /\ Fits(c, x)
  BY WantedIs DEF Sound
<1>1. /\ Moves(c) /\ IncrBy(res, p, Op(c).by) /\ x.pc = "adjust" /\ y.then = x.then /\ y.todo = x.todo
      /\ y.pc \in {"clamp", "keep"}
  BY AdjustRow
<1>2. /\ x.todo \in Seq(Corrections) /\ Len(x.todo) >= 1 /\ Op(c) = x.todo[1]
      /\ Op(c) \in Corrections /\ p \in Periods
      /\ \A n \in 2 .. Len(x.todo) : x.todo[n].res # res
  BY <1>1, TodoIs DEF Adjusting
<1>3. res \in Resources /\ Op(c).by \in Int /\ Len(x.todo) \in Nat
  BY <1>2 DEF Corrections
<1>4. rows' = rows /\ logged' = logged
  BY DEF Adjust, DbSame
<1>5. res \in Periodic => Debt(c, x, res) = 0 - Op(c).by
  <2>. SUFFICES ASSUME res \in Periodic PROVE Debt(c, x, res) = 0 - Op(c).by
    OBVIOUS
  <2>1. Debt(c, x, res) = IF x.then = "give" THEN 0 - x.todo[1].by ELSE Amount(res)
    <3>1. \E n \in 1 .. Len(x.todo) : x.todo[n].res = res
      BY <1>2, <1>3
    <3>. HIDE DEF res
    <3>. QED  BY <1>1, <3>1, DebtOfList
  <2>2. CASE x.then = "give"
    BY <1>2, <2>1, <2>2
  <2>3. CASE x.then # "give"
    <3>1. Returning(c, x)
      <4>1. ~Closing(c, x)
        <5>1. Closing(c, x) => x.todo[1].res = Place(c)
          BY DEF Closing
        <5>. QED  BY <1>2, <5>1 DEF Place, Periodic
      <4>. QED  BY <1>0, <1>1, <2>3, <4>1 DEF Fits, Adjusting, Giving
    <3>2. PICK d \in 0 .. 2 : /\ Len(x.todo) + d <= 3
                              /\ \A n \in 1 .. Len(x.todo) :
                                   x.todo[n] = [res |-> Order[n + d], by |-> 0 - Amount(Order[n + d])]
      BY <3>1 DEF Returning
    <3>3. 1 \in 1 .. Len(x.todo)
      BY <1>2, <1>3
    <3>4. x.todo[1].by = 0 - Amount(x.todo[1].res)
      <4>1. x.todo[1] = [res |-> Order[1 + d], by |-> 0 - Amount(Order[1 + d])]
        BY <3>2, <3>3
      <4>. QED  BY <4>1
    <3>5. Amount(res) \in Int
      BY <1>3, Basics
    <3>. QED  BY <1>2, <2>1, <2>3, <3>4, <3>5
  <2>. QED  BY <2>2, <2>3
<1>. HIDE DEF res, p, y
<1>6. \A s : Listed(y, s) <=> \E n \in 1 .. Len(x.todo) : x.todo[n].res = s /\ n > 1
  BY <1>1 DEF Listed, Adjusting
<1>7. \A s : Listed(x, s) <=> \E n \in 1 .. Len(x.todo) : x.todo[n].res = s
  BY <1>1 DEF Listed, Adjusting
<1>8. ~Listed(y, res)
  BY <1>2, <1>3, <1>6
<1>9. \A s : s # res => (Listed(y, s) <=> Listed(x, s))
  <2>1. x.todo[1].res = res
    BY <1>2 DEF res
  <2>2. \A n \in 1 .. Len(x.todo) : n = 1 \/ n > 1
    BY <1>3
  <2>. QED  BY <1>6, <1>7, <2>1, <2>2
<1>10. Debt(c, y, res) = 0
  BY <1>1, <1>8 DEF Debt, Adjusting
<1>11. \A s \in Periodic : s # res => Debt(c, y, s) = Debt(c, x, s)
  BY <1>1, <1>9 DEF Debt, Adjusting
<1>12. res \in Periodic => Debt(c, y, res) = Debt(c, x, res) + Op(c).by
  BY <1>3, <1>5, <1>10
<1>. QED  BY <1>1, <1>2, <1>3, <1>4, <1>11, <1>12, OneCounted DEF y

LEMMA KeepBalanced ==
  ASSUME Sound, NEW c \in Clients, Keep(c)
  PROVE  Balanced(c)
<1>. DEFINE x == cl[c]
            y == IF Len(x.todo) > 1 THEN [x EXCEPT !.todo = Tail(x.todo), !.pc = "adjust", !.seen = 0]
                 ELSE Leave(c)
            res == Op(c).res
            p == Per(c, res)
<1>0. Types /\ x \in Row /\ Fits(c, x)
  BY WantedIs DEF Sound
<1>1. Moves(c) /\ OnlyExpiry(res, p, Kept(c, ctr[res][p].ttl)) /\ x.pc = "keep"
  BY KeepRow
<1>2. ctr' \in [Resources -> [Periods -> Counter]]
      /\ \A s \in Periodic, q \in Periods : ctr'[s][q].n = ctr[s][q].n
  BY <1>1, PeriodicIs DEF OnlyExpiry
<1>3. cl'[c] = y /\ rows' = rows /\ logged' = logged
  BY <1>0 DEF Keep, DbSame, Types
<1>4. x.todo \in Seq(Corrections) /\ Len(x.todo) >= 1 /\ Len(x.todo) \in Nat
  BY <1>1, TodoIs, LenProperties DEF Adjusting
<1>5. ASSUME NEW s \in Periodic PROVE Debt(c, y, s) = Debt(c, x, s)
  <2>1. CASE Len(x.todo) > 1
    <3>. DEFINE todo == Tail(x.todo)
    <3>1. Len(todo) = Len(x.todo) - 1 /\ \A n \in 1 .. Len(todo) : todo[n] = x.todo[n + 1]
      BY <1>4, <2>1, HeadTailProperties
    <3>. HIDE DEF todo
    <3>2. y = [x EXCEPT !.todo = todo, !.pc = "adjust", !.seen = 0]
      BY <2>1 DEF todo
    <3>3. y.pc = "adjust" /\ y.todo = todo /\ y.then = x.then
      BY <1>0, <3>2 DEF Row
    <3>. HIDE DEF y
    <3>4. x.then # "give"
      <4>1. Len(x.todo) # 1
        <5>1. \A m \in Nat : m > 1 => m # 1
          OBVIOUS
        <5>. QED  BY <1>4, <2>1, <5>1
      <4>2. ~Giving(c, x)
        BY <4>1 DEF Giving
      <4>. QED  BY <1>0, <1>1, <4>2 DEF Fits, Adjusting, Closing, Returning
    <3>5. Listed(y, s) <=> \E n \in 1 .. Len(todo) : todo[n].res = s
      BY <3>3 DEF Listed, Adjusting
    <3>6. Listed(x, s) <=> \E n \in 1 .. Len(x.todo) : x.todo[n].res = s /\ n > 1
      BY <1>1 DEF Listed, Adjusting
    <3>7. \A n \in 1 .. Len(todo) : n + 1 \in 1 .. Len(x.todo) /\ n + 1 > 1 /\ todo[n].res = x.todo[n + 1].res
      BY <1>4, <3>1
    <3>8. \A n \in 1 .. Len(x.todo) : n > 1 => n - 1 \in 1 .. Len(todo) /\ todo[n - 1].res = x.todo[n].res
      <4>1. \A n \in 1 .. Len(x.todo) : n > 1 => n - 1 \in 1 .. Len(todo) /\ (n - 1) + 1 = n
        BY <1>4, <3>1
      <4>. QED  BY <3>1, <4>1
    <3>9. Listed(y, s) <=> Listed(x, s)
      BY <3>5, <3>6, <3>7, <3>8
    <3>. QED  BY <1>1, <3>3, <3>4, <3>9 DEF Debt, Adjusting
  <2>2. CASE ~(Len(x.todo) > 1)
    <3>1. Debt(c, x, s) = 0
      <4>1. ~Listed(x, s)
        BY <1>1, <1>4, <2>2 DEF Listed
      <4>. QED  BY <1>1, <4>1 DEF Debt, Adjusting
    <3>2. y = Close(c) \/ \E pc \in Resting : y = Rest(pc)
      <4>1. x.then # "give" => Leave(c) = Rest(x.then) /\ x.then \in {"done", "refused"}
        BY <1>1, LeaveRow DEF Adjusting
      <4>2. x.then = "give" => Leave(c) = Close(c)
        BY DEF Leave
      <4>. QED  BY <2>2, <4>1, <4>2 DEF Resting
    <3>3. Debt(c, y, s) = 0
      <4>. HIDE DEF y
      <4>. QED  BY <3>2, DebtOfClose, DebtOfRest
    <3>. QED  BY <3>1, <3>3
  <2>. QED  BY <2>1, <2>2
<1>. HIDE DEF y
<1>. QED  BY <1>1, <1>2, <1>3, <1>5, NothingCounted

(* The steps that touch no counter.                                        *)
LEMMA CreateBalanced ==
  ASSUME Sound, NEW c \in Clients, Create(c), ~Fault
  PROVE  Balanced(c)
<1>. DEFINE x == cl[c]
            y == cl'[c]
<1>0. Types /\ x \in Row /\ Fits(c, x) /\ x.pc = "held" /\ now \in Periods
  BY WantedIs DEF Sound, Create, At, Types
<1>1. x.got = Whole
  BY <1>0 DEF Fits
<1>2. /\ rows' = [rows EXCEPT ![now] = @ + 1] /\ logged' = logged /\ ctr' = ctr
      /\ cl' = [cl EXCEPT ![c] = [x EXCEPT !.pc = "run", !.got = x.got \ {"messages"}, !.per["messages"] = 0]]
  BY DEF Create
<1>3. y.pc = "run" /\ y.got = {"tokens", "streams"}
  <2>1. y = [x EXCEPT !.pc = "run", !.got = x.got \ {"messages"}, !.per["messages"] = 0]
    BY <1>0, <1>2 DEF Types
  <2>2. x.got \ {"messages"} = {"tokens", "streams"}
    BY <1>1 DEF Whole
  <2>. HIDE DEF y
  <2>. QED  BY <1>0, <2>1, <2>2 DEF Row
<1>. HIDE DEF y
<1>4. \A r \in Periodic : Debt(c, x, r) = Amount(r)
  BY <1>0, <1>1 DEF Debt, Adjusting, Periodic, Whole
<1>5. Debt(c, y, "tokens") = Amount("tokens") /\ Debt(c, y, "messages") = 0
  BY <1>3 DEF Debt, Adjusting
<1>6. ctr' \in [Resources -> [Periods -> Counter]] /\ \A r, q : ctr'[r][q].n = ctr[r][q].n
  BY <1>0, <1>2 DEF Types
<1>7. ASSUME NEW r \in Periodic
      PROVE  Counted(r)' = Counted(r) + (SumOver(Booked(r))' - SumOver(Booked(r)))
                                      + (Debt(c, y, r) - Debt(c, x, r))
  <2>1. Counted(r)' = Counted(r) /\ Counted(r) \in Int /\ SumOver(Booked(r)) \in Int
    BY <1>0, <1>6, PeriodicIs, CountedStays, BooksAreInts
  <2>2. CASE r = "tokens"
    <3>1. SumOver(Booked(r))' = SumOver(Booked(r))
      BY <1>2, <2>2 DEF Booked
    <3>2. Debt(c, y, r) = Debt(c, x, r) /\ Debt(c, x, r) \in Int
      BY <1>4, <1>5, <2>2, PeriodicIs
    <3>. QED  BY <2>1, <3>1, <3>2
  <2>3. CASE r = "messages"
    <3>1. rows \in [Periods -> Nat] /\ 1 \in Nat
      BY <1>0 DEF Types
    <3>2. SumOver([rows EXCEPT ![now] = @ + 1]) = SumOver(rows) + 1
      BY <1>0, <3>1, BookedMoves
    <3>3. Booked(r) = rows /\ Booked(r)' = rows'
      BY <2>3 DEF Booked
    <3>4. SumOver(Booked(r))' = SumOver(rows')
      BY <3>3
    <3>5. SumOver(Booked(r))' = SumOver(Booked(r)) + 1
      BY <1>2, <3>2, <3>3, <3>4
    <3>6. Debt(c, y, r) = 0 /\ Debt(c, x, r) = 1
      BY <1>4, <1>5, <2>3 DEF Amount
    <3>. QED  BY <2>1, <3>5, <3>6
  <2>. QED  BY <2>2, <2>3 DEF Periodic
<1>. QED  BY <1>7 DEF Balanced, y

(* What a settlement leaves to be corrected.                               *)
LEMMA DebtOfSettlement ==
  ASSUME Sound, NEW c \in Clients, cl[c].pc \in {"run", "record"}, NEW u \in Nat \union {-1}
  PROVE  LET y == Correct(c, Settlement(u), "give") IN
         /\ Debt(c, y, "messages") = 0
         /\ Debt(c, y, "tokens") = Estimate - (IF u = -1 THEN 0 ELSE u)
<1>. DEFINE y == Correct(c, Settlement(u), "give")
<1>1. Estimate \in Nat \ {0}
  BY QuotaAssumption
<1>2. CASE u = Estimate
  <2>1. Settlement(u) = <<>> /\ u # -1
    BY <1>1, <1>2 DEF Settlement
  <2>2. y = Close(c)
    BY <2>1 DEF Correct
  <2>3. Debt(c, Close(c), "messages") = 0 /\ Debt(c, Close(c), "tokens") = 0
    BY DebtOfClose DEF Periodic
  <2>. QED  BY <1>1, <1>2, <2>1, <2>2, <2>3
<1>3. CASE u # Estimate
  <2>. DEFINE by == IF u = -1 THEN 0 - Estimate ELSE u - Estimate
              op == [res |-> "tokens", by |-> by]
              todo == <<op>>
  <2>1. Settlement(u) = todo
    BY <1>3 DEF Settlement
  <2>2. by \in Int
    BY <1>1
  <2>. HIDE DEF by
  <2>3. op \in Corrections /\ op.res = "tokens" /\ op.by = by
    BY <2>2 DEF Corrections, Resources
  <2>. HIDE DEF op
  <2>4. todo \in Seq(Corrections) /\ Len(todo) = 1 /\ todo[1] = op /\ todo # <<>>
    BY <2>3
  <2>. HIDE DEF todo
  <2>5. y.pc = "adjust" /\ y.todo = todo /\ y.then = "give"
    BY <2>1, <2>4, CorrectRow DEF Endings
  <2>. HIDE DEF y
  <2>6. Debt(c, y, "messages") = 0
    <3>1. \A n \in 1 .. Len(todo) : todo[n].res # "messages"
      BY <2>3, <2>4
    <3>. QED  BY <2>5, <3>1, DebtOfList DEF Periodic
  <2>7. Debt(c, y, "tokens") = 0 - by
    <3>1. \E n \in 1 .. Len(todo) : todo[n].res = "tokens"
      BY <2>3, <2>4
    <3>2. Debt(c, y, "tokens") = 0 - todo[1].by
      BY <2>5, <3>1, DebtOfList DEF Periodic
    <3>. QED  BY <2>3, <2>4, <3>2
  <2>8. 0 - by = Estimate - (IF u = -1 THEN 0 ELSE u)
    BY <1>1 DEF by
  <2>9. /\ Debt(c, y, "messages") = 0
        /\ Debt(c, y, "tokens") = Estimate - (IF u = -1 THEN 0 ELSE u)
    BY <2>6, <2>7, <2>8
  <2>. QED  BY <2>9 DEF y
<1>. QED  BY <1>2, <1>3

LEMMA GenerateBalanced ==
  ASSUME Sound, NEW c \in Clients, Generate(c), ~Fault
  PROVE  Balanced(c)
<1>. DEFINE x == cl[c]
            y == cl'[c]
<1>0. Types /\ x \in Row /\ Fits(c, x) /\ x.pc = "run" /\ x.got = {"tokens", "streams"}
  BY WantedIs DEF Sound, Generate, At, Fits
<1>1. Moves(c)
  BY GenerateRow DEF Ebbs
<1>2. ctr' = ctr /\ rows' = rows /\ logged' = logged
  BY DEF Generate, DbSame
<1>3. PICK u \in Actuals \union {-1} :
        cl' = [cl EXCEPT ![c] = IF u = -1 THEN Correct(c, Settlement(u), "give")
                                ELSE [cl[c] EXCEPT !.usage = u, !.pc = "record"]]
  BY DEF Generate
<1>4. Debt(c, x, "tokens") = Estimate /\ Debt(c, x, "messages") = 0
  BY <1>0 DEF Debt, Adjusting, Amount
<1>5. Debt(c, y, "tokens") = Estimate /\ Debt(c, y, "messages") = 0
  <2>1. CASE u = -1
    <3>. DEFINE z == Correct(c, Settlement(u), "give")
    <3>1. y = z
      BY <1>0, <1>3, <2>1 DEF Types
    <3>2. Debt(c, z, "messages") = 0 /\ Debt(c, z, "tokens") = Estimate - 0
      BY <1>0, <2>1, DebtOfSettlement
    <3>. HIDE DEF z, y
    <3>. QED  BY <3>1, <3>2, QuotaAssumption
  <2>2. CASE u # -1
    <3>1. y = [x EXCEPT !.usage = u, !.pc = "record"]
      BY <1>0, <1>3, <2>2 DEF Types
    <3>. HIDE DEF y
    <3>2. y.pc = "record" /\ y.got = x.got
      BY <1>0, <3>1 DEF Row
    <3>. QED  BY <1>0, <3>2 DEF Debt, Adjusting, Amount
  <2>. QED  BY <2>1, <2>2
<1>6. \A r \in Periodic : Debt(c, y, r) = Debt(c, x, r)
  BY <1>4, <1>5 DEF Periodic
<1>7. ctr' \in [Resources -> [Periods -> Counter]] /\ \A r \in Periodic, q \in Periods : ctr'[r][q].n = ctr[r][q].n
  BY <1>0, <1>2 DEF Types
<1>. HIDE DEF y
<1>. QED  BY <1>1, <1>2, <1>6, <1>7, NothingCounted DEF y

LEMMA RecordBalanced ==
  ASSUME Sound, NEW c \in Clients, Record(c), ~Fault
  PROVE  Balanced(c)
<1>. DEFINE x == cl[c]
            y == cl'[c]
            z == Correct(c, Settlement(x.usage), "give")
<1>0. /\ Types /\ x \in Row /\ Fits(c, x) /\ x.pc = "record" /\ x.got = {"tokens", "streams"}
      /\ now \in Periods /\ x.usage \in Nat /\ Estimate \in Nat
  BY WantedIs, QuotaAssumption DEF Sound, Record, At, Fits, Types
<1>1. logged' = [logged EXCEPT ![now] = @ + x.usage] /\ ctr' = ctr /\ rows' = rows /\ y = z
  BY <1>0 DEF Record, Types
<1>2. Debt(c, z, "messages") = 0 /\ Debt(c, z, "tokens") = Estimate - x.usage
  <2>1. x.usage # -1 /\ x.usage \in Nat \union {-1}
    BY <1>0
  <2>. QED  BY <1>0, <2>1, DebtOfSettlement
<1>3. Debt(c, x, "tokens") = Estimate /\ Debt(c, x, "messages") = 0
  BY <1>0 DEF Debt, Adjusting, Amount
<1>. HIDE DEF z, y
<1>4. ctr' \in [Resources -> [Periods -> Counter]] /\ \A r, q : ctr'[r][q].n = ctr[r][q].n
  BY <1>0, <1>1 DEF Types
<1>5. ASSUME NEW r \in Periodic
      PROVE  Counted(r)' = Counted(r) + (SumOver(Booked(r))' - SumOver(Booked(r)))
                                      + (Debt(c, y, r) - Debt(c, x, r))
  <2>1. Counted(r)' = Counted(r) /\ Counted(r) \in Int /\ SumOver(Booked(r)) \in Int
    BY <1>0, <1>4, PeriodicIs, CountedStays, BooksAreInts
  <2>2. CASE r = "messages"
    <3>1. SumOver(Booked(r))' = SumOver(Booked(r))
      BY <1>1, <2>2 DEF Booked
    <3>2. Debt(c, y, r) = 0 /\ Debt(c, x, r) = 0
      BY <1>1, <1>2, <1>3, <2>2
    <3>. QED  BY <2>1, <3>1, <3>2
  <2>3. CASE r = "tokens"
    <3>1. logged \in [Periods -> Nat]
      BY <1>0 DEF Types
    <3>2. SumOver([logged EXCEPT ![now] = @ + x.usage]) = SumOver(logged) + x.usage
      BY <1>0, <3>1, BookedMoves
    <3>3. Booked(r) = logged /\ Booked(r)' = logged'
      BY <2>3 DEF Booked
    <3>4. SumOver(Booked(r))' = SumOver(logged')
      BY <3>3
    <3>5. SumOver(Booked(r))' = SumOver(Booked(r)) + x.usage
      BY <1>1, <3>2, <3>3, <3>4
    <3>6. Debt(c, y, r) = Estimate - x.usage /\ Debt(c, x, r) = Estimate
      BY <1>1, <1>2, <1>3, <2>3
    <3>. QED  BY <1>0, <2>1, <3>5, <3>6
  <2>. QED  BY <2>2, <2>3 DEF Periodic
<1>. QED  BY <1>5 DEF Balanced, y

LEMMA TaskBalanced ==
  ASSUME Sound, NEW c \in Clients, Work(c) \/ Requeue(c)
  PROVE  Balanced(c)
<1>. DEFINE x == cl[c]
            y == cl'[c]
<1>0. Types /\ x \in Row /\ Fits(c, x)
  BY WantedIs DEF Sound
<1>1. Moves(c) /\ c \in Tasks
  BY WorkRow, RequeueRow, WantedIs, <1>0 DEF Ebbs
<1>2. ctr' = ctr /\ rows' = rows /\ logged' = logged
  BY DEF Work, Requeue, DbSame
<1>3. ASSUME NEW r \in Periodic PROVE Debt(c, y, r) = 0 /\ Debt(c, x, r) = 0
  <2>1. CASE Work(c)
    <3>1. y = Close(c) /\ x.pc = "work" /\ x.got = {"slots"}
      BY <1>0, <2>1 DEF Work, At, Types, Fits
    <3>2. Debt(c, x, r) = 0
      BY <3>1 DEF Debt, Adjusting, Periodic
    <3>. QED  BY <3>1, <3>2, DebtOfClose
  <2>2. CASE Requeue(c)
    <3>1. x.pc = "refused" /\ y.pc = "off" /\ x = Rest("refused") /\ y = Idle
      BY <1>0, <2>2 DEF Requeue, At, Types, Fits, Resting, Idle
    <3>2. Debt(c, x, r) = 0
      BY <3>1, DebtOfRest DEF Resting
    <3>3. Debt(c, Idle, r) = 0
      BY DEF Debt, Idle, Adjusting
    <3>. QED  BY <3>1, <3>2, <3>3
  <2>. QED  BY <2>1, <2>2
<1>4. ctr' \in [Resources -> [Periods -> Counter]] /\ \A r \in Periodic, q \in Periods : ctr'[r][q].n = ctr[r][q].n
  BY <1>0, <1>2 DEF Types
<1>. QED  BY <1>1, <1>2, <1>3, <1>4, NothingCounted

(* A correction of at most what its turn has added never goes below zero.  *)
LEMMA NothingIsClamped ==
  ASSUME Sound, CounterCovers, GaugesExact, faults = 0, recon.st = "off", NEW c \in Clients, Adjust(c)
  PROVE  cl'[c].pc = "keep"
<1>. DEFINE res == Op(c).res
            p == Per(c, res)
            n == ctr[res][p].n
            a == Amount(res)
            k == Cardinality(Owing(res, p))
<1>1. /\ Owes(c, cl[c], res, p) /\ cl[c].pc = "adjust"
      /\ cl'[c].pc = IF n + Op(c).by < 0 THEN "clamp" ELSE "keep"
  BY AdjustRow
<1>2. p \in Periods /\ Op(c) \in Corrections /\ Op(c).by >= 0 - a
  BY <1>1, TodoIs DEF Adjusting
<1>3. res \in Resources /\ Op(c).by \in Int /\ lost = "no" /\ Types
  BY <1>2, QuotaAssumption DEF Corrections, Sound, Types
<1>4. n \in Int /\ a \in Nat
  BY <1>2, <1>3, Numbers
<1>5. k \in Nat /\ k > 0
  <2>1. c \in Owing(res, p) /\ IsFiniteSet(Owing(res, p))
    BY <1>1, Basics, FS_Subset DEF Owing
  <2>2. k \in Nat /\ k # 0
    BY <2>1, FS_CardinalityType, FS_EmptySet
  <2>. HIDE DEF k
  <2>. QED  BY <2>2
<1>6. n >= a * k
  BY <1>2, <1>3 DEF CounterCovers
<1>. HIDE DEF n, a, k
<1>7. a * k >= a /\ a * k \in Int
  BY <1>4, <1>5
<1>8. ~(n + Op(c).by < 0)
  BY <1>2, <1>3, <1>4, <1>6, <1>7
<1>. QED  BY <1>1, <1>8

LEMMA BooksStep ==
  ASSUME QuotaInv, BooksExact, NEW c \in Clients, Client(c)
  PROVE  BooksExact'
<1>. SUFFICES ASSUME faults' = 0, recon'.st = "off"
              PROVE  /\ \A d \in Clients : cl'[d].pc # "clamp"
                     /\ \A r \in Periodic : Counted(r)' = SumOver(Booked(r))' + Owed(r)'
  BY DEF BooksExact
<1>0. /\ Sound /\ Types /\ CounterCovers /\ GaugesExact
      /\ Moves(c) /\ recon' = recon /\ ctr' \in [Resources -> [Periods -> Counter]]
  BY ClientLaw DEF QuotaInv, Sound, Law
<1>t. Types'
  BY ClientStep DEF QuotaInv, Sound
<1>1. faults = 0 /\ ~Fault
  <2>1. faults' = faults \/ Fault
    BY <1>0, ClientFaults
  <2>2. faults \in Nat
    BY <1>0, QuotaAssumption DEF Types
  <2>. QED  BY <2>1, <2>2 DEF Fault
<1>2. /\ \A d \in Clients : cl[d].pc # "clamp"
      /\ \A r \in Periodic : Counted(r) = SumOver(Booked(r)) + Owed(r)
  BY <1>0, <1>1 DEF BooksExact
<1>3. Incr(c) \/ Check(c) \/ Refuse(c) \/ Adjust(c) \/ Keep(c) \/ Create(c) \/ Generate(c) \/ Record(c)
      \/ Work(c) \/ Requeue(c)
  BY <1>1, <1>2 DEF Client, Step, Raise, Die, Clamp, At
<1>4. Balanced(c)
  BY <1>0, <1>1, <1>3, IncrBalanced, CheckBalanced, RefuseBalanced, AdjustBalanced, KeepBalanced, CreateBalanced,
     GenerateBalanced, RecordBalanced, TaskBalanced
<1>5. ASSUME NEW d \in Clients PROVE cl'[d].pc # "clamp"
  <2>1. d # c => cl'[d] = cl[d]
    BY <1>0 DEF Moves, Types
  <2>2. cl'[c].pc = "clamp" => Adjust(c)
    BY <1>0, OnlyAdjustClamps
  <2>3. Adjust(c) => cl'[c].pc = "keep"
    BY <1>0, <1>1, NothingIsClamped
  <2>. QED  BY <1>2, <2>1, <2>2, <2>3
<1>6. ASSUME NEW r \in Periodic PROVE Counted(r)' = SumOver(Booked(r))' + Owed(r)'
  <2>1. Counted(r)' = Counted(r) + (SumOver(Booked(r))' - SumOver(Booked(r)))
                                 + (Debt(c, cl'[c], r) - Debt(c, cl[c], r))
    BY <1>4 DEF Balanced
  <2>2. /\ Owed(r)' = Owed(r) + (Debt(c, cl'[c], r) - Debt(c, cl[c], r))
        /\ Owed(r) \in Int /\ Debt(c, cl'[c], r) \in Int /\ Debt(c, cl[c], r) \in Int
    BY <1>0, OwedMoves
  <2>3. Counted(r) \in Int /\ SumOver(Booked(r)) \in Int
    BY <1>0, BooksAreInts
  <2>4. SumOver(Booked(r))' \in Int
    <3>1. Booked(r)' \in [Periods -> Nat]
      BY <1>t DEF Booked, Types
    <3>2. SumOver(Booked(r)') \in Int
      BY <3>1, SumIsTyped
    <3>. QED  BY <3>2
  <2>. QED  BY <1>2, <2>1, <2>2, <2>3, <2>4
<1>. QED  BY <1>5, <1>6

LEMMA BooksStart == Init => BooksExact
<1>. SUFFICES ASSUME Init PROVE BooksExact
  OBVIOUS
<1>1. /\ ctr = [r \in Resources |-> [p \in Periods |-> Missing]]
      /\ rows = [p \in Periods |-> 0] /\ logged = [p \in Periods |-> 0]
      /\ \A c \in Clients : cl[c] \in {Rest("off"), Rest("absent")}
  BY DEF Init
<1>2. Rest("off").pc = "off" /\ Rest("absent").pc = "absent"
  BY RestIsFit DEF Resting
<1>3. \A c \in Clients : cl[c].pc # "clamp"
  BY <1>1, <1>2
<1>4. MaxPeriod \in Nat /\ Periods = 0 .. MaxPeriod /\ Many \in Nat
  BY PeriodicIs, NumberingIs
<1>5. ASSUME NEW r \in Periodic PROVE Counted(r) = SumOver(Booked(r)) + Owed(r)
  <2>. DEFINE e == [q \in Periods |-> ctr[r][q].n]
              f == Booked(r)
              d == Debts(r)
  <2>1. \A n \in 0 .. MaxPeriod : e[n] = 0
    BY <1>1, <1>4, MissingIs, PeriodicIs
  <2>2. \A n \in 0 .. MaxPeriod : f[n] = 0
    BY <1>1, <1>4 DEF Booked
  <2>3. \A c \in Clients : Debt(c, cl[c], r) = 0
    BY <1>1, DebtOfRest DEF Resting
  <2>4. \A n \in 0 .. Many : d[n] = 0
    <3>1. \A n \in 0 .. Many : n # 0 => Numbering[n] \in Clients
      BY <1>4, NumberingIs
    <3>. QED  BY <2>3, <3>1 DEF Debts
  <2>. HIDE DEF e, f, d
  <2>5. UpTo(e, MaxPeriod) = 0 /\ UpTo(f, MaxPeriod) = 0 /\ UpTo(d, Many) = 0
    BY <1>4, <2>1, <2>2, <2>4, SumOfZeros
  <2>. QED  BY <2>5 DEF Counted, SumOver, Owed, e, f, d
<1>. QED  BY <1>3, <1>5 DEF BooksExact

LEMMA BooksStay ==
  ASSUME Types, Types', BooksExact, UNCHANGED <<cl, rows, logged, faults, recon>>,
         \A r \in Periodic, q \in Periods : ctr'[r][q] = ctr[r][q]
  PROVE  BooksExact'
<1>. SUFFICES ASSUME faults = 0, recon.st = "off", NEW r \in Periodic
              PROVE  Counted(r)' = SumOver(Booked(r))' + Owed(r)'
  BY DEF BooksExact
<1>1. Counted(r) = SumOver(Booked(r)) + Owed(r)
  BY DEF BooksExact
<1>2. SumOver(Booked(r))' = SumOver(Booked(r))
  BY DEF Booked
<1>3. Owed(r)' = Owed(r)
  BY DEF Owed, Debts, Debt, Listed, Wanted
<1>4. Counted(r)' = Counted(r)
  <2>1. r \in Resources /\ ctr' \in [Resources -> [Periods -> Counter]]
    BY PeriodicIs DEF Types
  <2>2. \A q \in Periods : ctr'[r][q].n = ctr[r][q].n
    OBVIOUS
  <2>. QED  BY <2>1, <2>2, CountedStays
<1>. QED  BY <1>1, <1>2, <1>3, <1>4

LEMMA BooksNext == QuotaInv /\ BooksExact /\ [Next]_vars => BooksExact'
<1>. SUFFICES ASSUME QuotaInv, BooksExact, [Next]_vars PROVE BooksExact'
  OBVIOUS
<1>0. Types /\ Types'
  BY QuotaStep DEF QuotaInv, Sound
<1>1. CASE \E c \in Clients : Step(c) \/ Raise(c) \/ Die(c)
  BY <1>1, BooksStep DEF Client
<1>2. CASE Reconcile
  <2>1. recon'.st # "off"
    BY <1>0, <1>2 DEF Reconcile, ReadFacts, WriteFact, Types
  <2>. QED  BY <2>1 DEF BooksExact
<1>3. CASE Rollover
  BY <1>0, <1>3, BooksStay DEF Rollover, DbSame
<1>4. CASE \E r \in {"streams", "slots"} : ExpireGauge(r)
  <2>1. PICK r \in Gauges : ExpireGauge(r)
    BY <1>4 DEF Gauges
  <2>2. \A s \in Periodic, q \in Periods : ctr'[s][q] = ctr[s][q]
    <3>1. \A s \in Periodic : s # r /\ s \in Resources
      BY PeriodicIs
    <3>. QED  BY <1>0, <2>1, <3>1 DEF ExpireGauge, Types
  <2>. QED  BY <1>0, <2>1, <2>2, BooksStay DEF ExpireGauge, DbSame
<1>5. CASE \E r \in Resources : Lose(r)
  <2>1. faults' = faults + 1 /\ faults \in Nat
    BY <1>0, <1>5, QuotaAssumption DEF Lose, Fault, Types
  <2>. QED  BY <2>1 DEF BooksExact
<1>6. CASE UNCHANGED vars
  BY <1>0, <1>6, BooksStay DEF vars
<1>. QED  BY <1>1, <1>2, <1>3, <1>4, <1>5, <1>6 DEF Next

(* When no command has failed and Redis has kept its data, nothing is left *)
(* on the counters but what really happened: every message that was        *)
(* created, every token that was logged (budget.py:66-75,                  *)
(* quota.py:258-276).                                                      *)
THEOREM ReservationsComeBack == Spec => []EveryReservationReturned
<1>1. QuotaInv /\ BooksExact => BooksBalance
  <2>. SUFFICES ASSUME QuotaInv, BooksExact, Undisturbed, recon.st = "off"
                PROVE  Counted("tokens") = SumOver(logged) /\ Counted("messages") = SumOver(rows)
    BY DEF BooksBalance
  <2>1. Types /\ Sound /\ Quiet /\ faults = 0
    <3>1. Types /\ Sound /\ Quiet /\ lost = "no" /\ ~Faulty
      BY DEF QuotaInv, Sound, Undisturbed
    <3>2. faults \in Nat /\ ~(faults > 0)
      BY <3>1, QuotaAssumption DEF Faulty, Types
    <3>. QED  BY <3>1, <3>2
  <2>2. ASSUME NEW r \in Periodic PROVE Counted(r) = SumOver(Booked(r))
    <3>. DEFINE d == Debts(r)
    <3>1. \A c \in Clients : Debt(c, cl[c], r) = 0
      <4>1. \A c \in Clients : cl[c] = Rest(cl[c].pc) /\ cl[c].pc \in Resting
        BY <2>1 DEF Quiet, Sound, Fits
      <4>. QED  BY <4>1, DebtOfRest
    <3>2. \A n \in 0 .. Many : d[n] = 0
      <4>1. \A n \in 0 .. Many : n # 0 => Numbering[n] \in Clients
        BY NumberingIs
      <4>. QED  BY <3>1, <4>1 DEF Debts
    <3>. HIDE DEF d
    <3>3. Owed(r) = 0
      BY <3>2, NumberingIs, SumOfZeros DEF Owed, d
    <3>4. SumOver(Booked(r)) \in Int
      BY <2>1, BooksAreInts
    <3>. QED  BY <2>1, <3>3, <3>4 DEF BooksExact
  <2>. QED  BY <2>2 DEF Booked, Periodic
<1>2. Spec => []BooksExact
  BY BooksStart, BooksNext, QuotaInvariant, PTL DEF Spec
<1>. QED  BY <1>1, <1>2, QuotaInvariant, PlacesComeBack, PTL DEF EveryReservationReturned

-----------------------------------------------------------------------------
(* A place is taken and given up as by one indivisible check.              *)

LEMMA HoldingMoves ==
  ASSUME QuotaInv, NEW c \in Clients, Client(c), NEW r \in Gauges
  PROVE  \/ Holding(r)' = Holding(r)
         \/ c \in Holding(r) /\ Holding(r)' = Holding(r) \ {c} /\ (c \in Turns <=> r = "streams")
         \/ /\ c \notin Holding(r) /\ Holding(r)' = Holding(r) \union {c}
            /\ c \in Turns <=> r = "streams"
            /\ lost = "no" => Cardinality(Holding(r)) < Limits[r]
<1>. DEFINE x == cl[c]
            y == cl'[c]
<1>0. /\ Sound /\ Types /\ PlacesSuffice /\ Fits(c, x) /\ r \in Resources /\ (c \in Tasks <=> c \notin Turns)
      /\ Moves(c) /\ x \in Row
  BY WantedIs, ClientLaw, GaugesCountOnes DEF QuotaInv, Sound, Law
<1>1. \A d \in Clients : d # c => cl'[d] = cl[d]
  BY <1>0 DEF Moves, Types
<1>2. CASE r \in y.got <=> r \in x.got
  BY <1>1, <1>2 DEF Holding
<1>3. CASE r \in x.got /\ r \notin y.got
  <2>1. c \in Turns <=> r = "streams"
    BY <1>0, <1>3 DEF Fits, Whole, Gauges
  <2>. QED  BY <1>1, <1>3, <2>1 DEF Holding
<1>4. CASE r \notin x.got /\ r \in y.got
  <2>1. Check(c)
    <3>1. ~Ebbs(c)
      BY <1>4 DEF Ebbs
    <3>2. ~Incr(c)
      <4>1. ASSUME Incr(c) PROVE y.got = x.got
        BY <1>0, <4>1, IncrRow DEF Row
      <4>. QED  BY <1>4, <4>1
    <3>. QED  BY <1>0, <3>1, <3>2, ClientLaw
  <2>2. x.pc = "expire" /\ r = Res(c) /\ x.seen <= Limits[r]
    BY <1>0, <1>4, <2>1, CheckRow
  <2>3. r = Wanted(c, x) /\ (c \in Turns <=> r = "streams")
    BY <1>0, <2>2, WantedIs DEF Gauges, Whole
  <2>4. Holding(r)' = Holding(r) \union {c} /\ c \notin Holding(r)
    BY <1>1, <1>4 DEF Holding
  <2>5. Holding(r) \union {c} \subseteq Entering(r)
    BY <2>2, <2>3 DEF Holding, Entering, Entitled
  <2>6. ASSUME lost = "no" PROVE Cardinality(Holding(r)) < Limits[r]
    <3>1. IsFiniteSet(Holding(r)) /\ IsFiniteSet(Entering(r))
      BY Basics, FS_Subset DEF Holding, Entering
    <3>2. Cardinality(Holding(r) \union {c}) = Cardinality(Holding(r)) + 1
      BY <2>4, <3>1, OneMore
    <3>3. Cardinality(Holding(r) \union {c}) <= Cardinality(Entering(r))
      BY <2>5, <3>1, FS_Subset
    <3>4. Cardinality(Entering(r)) <= Limits[r]
      BY <1>0, <2>6 DEF PlacesSuffice
    <3>5. Cardinality(Holding(r)) \in Nat /\ Cardinality(Entering(r)) \in Nat /\ Limits[r] \in Nat
      BY <1>0, <3>1, FS_CardinalityType, Basics
    <3>. QED  BY <3>2, <3>3, <3>4, <3>5
  <2>. QED  BY <2>3, <2>4, <2>6
<1>. QED  BY <1>2, <1>3, <1>4

(* Only Redis loses data, and then for good.                               *)
LEMMA Others ==
  ASSUME Types, [Next]_vars, ~(\E c \in Clients : Client(c))
  PROVE  cl' = cl /\ (lost' = lost \/ lost' # "no")
<1>1. CASE Reconcile
  BY <1>1 DEF Reconcile, ReadFacts, WriteFact
<1>2. CASE Rollover
  BY <1>2 DEF Rollover
<1>3. CASE \E r \in {"streams", "slots"} : ExpireGauge(r)
  BY <1>3 DEF ExpireGauge
<1>4. CASE \E r \in Resources : Lose(r)
  BY <1>4 DEF Lose
<1>5. CASE UNCHANGED vars
  BY <1>5 DEF vars
<1>. QED  BY <1>1, <1>2, <1>3, <1>4, <1>5 DEF Next, Client

LEMMA StreamsStep ==
  ASSUME QuotaInv, [Next]_vars
  PROVE  [Streams!Next]_(Streams!avars)
<1>0. Types /\ Sound
  BY DEF QuotaInv, Sound
<1>1. CASE \E c \in Clients : Client(c)
  <2>1. PICK c \in Clients : Client(c)
    BY <1>1
  <2>2. lost' = lost
    BY <1>0, <2>1, ClientLaw
  <2>3. "streams" \in Gauges
    BY DEF Gauges
  <2>4. CASE Holding("streams")' = Holding("streams")
    BY <2>2, <2>4 DEF Streams!avars
  <2>5. CASE c \in Holding("streams") /\ Holding("streams")' = Holding("streams") \ {c} /\ c \in Turns
    BY <2>2, <2>5 DEF Streams!Next, Streams!Give
  <2>6. CASE /\ c \notin Holding("streams") /\ Holding("streams")' = Holding("streams") \union {c} /\ c \in Turns
             /\ lost = "no" => Cardinality(Holding("streams")) < Limits["streams"]
    <3>1. Streams!Cardinality(Holding("streams")) = Cardinality(Holding("streams"))
      BY DEF Streams!Cardinality, Cardinality
    <3>. QED  BY <2>2, <2>6, <3>1 DEF Streams!Next, Streams!Take
  <2>. QED  BY <2>1, <2>3, <2>4, <2>5, <2>6, HoldingMoves
<1>2. CASE ~(\E c \in Clients : Client(c))
  <2>1. Holding("streams")' = Holding("streams") /\ (lost' = lost \/ lost' # "no")
    BY <1>0, <1>2, Others DEF Holding
  <2>2. CASE lost' = lost
    BY <2>1, <2>2 DEF Streams!avars
  <2>3. CASE lost' # "no"
    <3>1. (lost' = "no") = FALSE
      BY <2>3
    <3>. QED  BY <2>1, <3>1, Zenon DEF Streams!Next, Streams!Lose
  <2>. QED  BY <2>1, <2>2, <2>3
<1>. QED  BY <1>1, <1>2

LEMMA SlotsStep ==
  ASSUME QuotaInv, [Next]_vars
  PROVE  [Slots!Next]_(Slots!avars)
<1>0. Types /\ Sound
  BY DEF QuotaInv, Sound
<1>1. CASE \E c \in Clients : Client(c)
  <2>1. PICK c \in Clients : Client(c)
    BY <1>1
  <2>2. lost' = lost /\ (c \in Tasks <=> c \notin Turns)
    BY <1>0, <2>1, ClientLaw, WantedIs
  <2>3. "slots" \in Gauges
    BY DEF Gauges
  <2>4. CASE Holding("slots")' = Holding("slots")
    BY <2>2, <2>4 DEF Slots!avars
  <2>5. CASE c \in Holding("slots") /\ Holding("slots")' = Holding("slots") \ {c} /\ c \in Tasks
    BY <2>2, <2>5 DEF Slots!Next, Slots!Give
  <2>6. CASE /\ c \notin Holding("slots") /\ Holding("slots")' = Holding("slots") \union {c} /\ c \in Tasks
             /\ lost = "no" => Cardinality(Holding("slots")) < Limits["slots"]
    <3>1. Slots!Cardinality(Holding("slots")) = Cardinality(Holding("slots"))
      BY DEF Slots!Cardinality, Cardinality
    <3>. QED  BY <2>2, <2>6, <3>1 DEF Slots!Next, Slots!Take
  <2>. QED  BY <2>1, <2>2, <2>3, <2>4, <2>5, <2>6, HoldingMoves
<1>2. CASE ~(\E c \in Clients : Client(c))
  <2>1. Holding("slots")' = Holding("slots") /\ (lost' = lost \/ lost' # "no")
    BY <1>0, <1>2, Others DEF Holding
  <2>2. CASE lost' = lost
    BY <2>1, <2>2 DEF Slots!avars
  <2>3. CASE lost' # "no"
    <3>1. (lost' = "no") = FALSE
      BY <2>3
    <3>. QED  BY <2>1, <3>1, Zenon DEF Slots!Next, Slots!Lose
  <2>. QED  BY <2>1, <2>2, <2>3
<1>. QED  BY <1>1, <1>2

(* INCR, EXPIRE, the comparison and the taking back implement Allowance:   *)
(* for the streams of the turns and for the slots of the tasks, with any   *)
(* number of them, whatever fails.                                         *)
THEOREM LimitsKept == Spec => LimitsAreKept
<1>1. Init => Streams!Init /\ Slots!Init
  <2>. SUFFICES ASSUME Init PROVE Streams!Init /\ Slots!Init
    OBVIOUS
  <2>1. \A r \in Gauges : Holding(r) = {}
    <3>1. \A c \in Clients : cl[c] \in {Rest("off"), Rest("absent")}
      BY DEF Init
    <3>2. Rest("off").got = {} /\ Rest("absent").got = {}
      BY RestIsFit DEF Resting
    <3>. QED  BY <3>1, <3>2 DEF Holding
  <2>2. lost = "no"
    BY DEF Init
  <2>. QED  BY <2>1, <2>2 DEF Streams!Init, Slots!Init, Gauges
<1>2. QuotaInv /\ [Next]_vars => [Streams!Next]_(Streams!avars) /\ [Slots!Next]_(Slots!avars)
  BY StreamsStep, SlotsStep
<1>. QED
  BY <1>1, <1>2, QuotaInvariant, PTL
     DEF Spec, LimitsAreKept, StreamsKeepTheLimit, SlotsKeepTheLimit, Streams!Spec, Slots!Spec
=============================================================================
