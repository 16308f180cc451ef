--------------------------- MODULE ChatTurnProofs ---------------------------
(***************************************************************************)
(* Theorems about ChatTurn for every number of turns, deltas, retries and  *)
(* faults: what the reader of a stream sees, what the rows say then, and   *)
(* that each turn leaves the books as it found them.                       *)
(***************************************************************************)
EXTENDS ChatTurn, TLAPS, FiniteSetTheorems, SequenceTheorems

Pcs == Request \union Background \union {"none", "refused", "ended", "dead"}
Outs == {Completed, Stopped, Interrupted, Failed}

GenRow == [pc : Pcs, got : Nat, usage : BOOLEAN, out : Outs, caught : BOOLEAN,
           settled : Nat, logged : BOOLEAN, cancelled : BOOLEAN]
MsgRow == [status : Ended \union {"none", "streaming"}, len : Nat]
BufRow == [log : Seq(Kinds), ttl : {"none", "live", "gone"}, stop : BOOLEAN]
ReaderRow ==
  [st : {"off", "connect", "open", "expired", "failed", "gaveup", "done", "error"},
   last : Nat, pos : Nat, wire : Seq(Nat), got : Seq(Nat), misses : 0 .. 2,
   tries : 0 .. MaxRetries]

Types ==
  /\ conv \in {"live", "deleted"}
  /\ gen \in [Turns -> GenRow] /\ msg \in [Turns -> MsgRow] /\ buf \in [Turns -> BufRow]
  /\ scan \subseteq Turns /\ faults \in 0 .. MaxFaults

-----------------------------------------------------------------------------
(* One turn                                                                *)

Words(log) == {i \in DOMAIN log : log[i] = "delta"}
Says(log, kind) == \E i \in DOMAIN log : log[i] = kind
Closed(log) == Says(log, "done") \/ Says(log, "error")

Untold == Request \union {"none", "refused", "compose"}
Recorded == {"settle", "cite", "end"}

(* What was kept is on the stream, but for the one word that is about to   *)
(* be written or could not be; an answer that ends with done has none.     *)
Spoken(g, b) ==
  LET w == Cardinality(Words(b.log)) IN
  /\ g.got = w \/ g.got = w + 1
  /\ g.pc \in {"stream", "bill"} => g.got = w
  /\ g.pc = "word" => g.got = w + 1
  /\ g.pc \in Wrapping /\ g.out.event = "done" => g.got = w
  /\ Says(b.log, "done") => g.got = w

(* The row is written from persist on; the final event comes later, and    *)
(* who is cancelled after it writes the row once more, with the same words. *)
Whole(t, g, m, b) ==
  /\ g.got \in 0 .. Deltas[t] /\ m.len \in 0 .. Deltas[t]
  /\ b.ttl = "none" <=> b.log = <<>>
  /\ g.pc \in Background \union {"made"} => m.status # "none"
  /\ g.pc \in Untold => g.got = 0 /\ b.log = <<>>
  /\ Spoken(g, b)
  /\ g.pc \in Recorded => m.status \in Ended /\ m.len = g.got
  /\ Closed(b.log) => /\ g.pc \in Wrapping \union {"free", "ended", "dead"}
                      /\ m.status \in Ended /\ m.len = g.got

(* A cancelled turn may be settled once more by its handler.               *)
Once(g) == IF g.cancelled THEN 1 ELSE 0
Paid(g) ==
  /\ g.pc \in Request \union Producing \union {"none"} => g.settled = 0
  /\ g.pc \in {"persist", "settle"} => g.settled <= Once(g)
  /\ g.settled <= 1 + Once(g)

TurnsInv == \A t \in Turns : Whole(t, gen[t], msg[t], buf[t]) /\ Paid(gen[t])

-----------------------------------------------------------------------------
(* The reader and the counter                                              *)

(* The client has the events 1 to last; what is on the wire comes next.    *)
Sound(r, log) ==
  /\ r \in ReaderRow
  /\ r.last = Len(r.got) /\ \A i \in 1 .. Len(r.got) : r.got[i] = i
  /\ r.last <= r.pos /\ r.pos <= Len(log)
  /\ r.st \in {"off", "connect"} => r.wire = <<>>
  /\ r.st = "open" =>
       /\ r.misses <= 1 /\ r.pos = r.last + Len(r.wire)
       /\ \A i \in 1 .. Len(r.wire) : r.wire[i] = r.last + i

ReaderInv == Sound(reader, buf[Followed].log)

Held(g) == g.pc \in Holding \union {"dead"}
Holders == {t \in Turns : Held(gen[t])}

CounterInv ==
  /\ others \in Nat /\ streams \in 0 .. StreamLimit
  /\ streams = others + Cardinality(Holders)

ChatInv == Types /\ TurnsInv /\ ReaderInv /\ CounterInv

-----------------------------------------------------------------------------
(* Streams                                                                 *)

LEMMA Constants ==
  /\ IsFiniteSet(Turns) /\ Deltas \in [Turns -> Nat] /\ Followed \in Turns
  /\ StreamLimit \in Nat /\ MaxRetries \in Nat /\ MaxFaults \in Nat
BY ChatAssumption

LEMMA WordsFinite ==
  ASSUME NEW log \in Seq(Kinds)
  PROVE  IsFiniteSet(Words(log)) /\ Cardinality(Words(log)) \in Nat
<1>1. DOMAIN log = 1 .. Len(log) /\ Len(log) \in Nat
  OBVIOUS
<1>2. IsFiniteSet(DOMAIN log)
  BY <1>1, FS_Interval
<1>. QED  BY <1>2, FS_Subset, FS_CardinalityType DEF Words

(* StreamBuffer.append: one event more, which is a word or not.            *)
LEMMA AppendWords ==
  ASSUME NEW log \in Seq(Kinds), NEW kind \in Kinds
  PROVE  /\ Append(log, kind) \in Seq(Kinds) /\ Append(log, kind) # <<>>
         /\ Len(Append(log, kind)) = Len(log) + 1
         /\ Cardinality(Words(Append(log, kind)))
              = Cardinality(Words(log)) + (IF kind = "delta" THEN 1 ELSE 0)
         /\ \A k \in Kinds : Says(Append(log, kind), k) <=> Says(log, k) \/ kind = k
<1>. DEFINE new == Append(log, kind)
            n == Len(log) + 1
<1>1. /\ new \in Seq(Kinds) /\ Len(new) = n /\ n \in Nat /\ new[n] = kind
      /\ \A i \in 1 .. Len(log) : new[i] = log[i]
  OBVIOUS
<1>2. DOMAIN new = 1 .. n /\ DOMAIN log = 1 .. Len(log) /\ Len(log) \in Nat
  BY <1>1
<1>. HIDE DEF new
<1>3. Words(new) = IF kind = "delta" THEN Words(log) \union {n} ELSE Words(log)
  BY <1>1, <1>2 DEF Words
<1>4. n \notin Words(log)
  BY <1>2 DEF Words
<1>5. Cardinality(Words(log) \union {n}) = Cardinality(Words(log)) + 1
  BY <1>4, WordsFinite, FS_AddElement
<1>6. Cardinality(Words(new)) = Cardinality(Words(log)) + (IF kind = "delta" THEN 1 ELSE 0)
  BY <1>3, <1>5, WordsFinite
<1>7. \A k \in Kinds : Says(new, k) <=> Says(log, k) \/ kind = k
  BY <1>1, <1>2 DEF Says
<1>8. new # <<>>
  BY <1>2
<1>. QED  BY <1>1, <1>6, <1>7, <1>8 DEF new

-----------------------------------------------------------------------------
(* The counter of streams                                                  *)

(* A slot is taken by a turn, given back by it, or neither.                *)
Counted(t, x) ==
  \/ (Held(x) <=> Held(gen[t])) /\ streams' = streams
  \/ ~Held(gen[t]) /\ Held(x) /\ streams < StreamLimit /\ streams' = streams + 1
  \/ Held(gen[t]) /\ ~Held(x) /\ streams' = streams - 1

LEMMA CounterStep ==
  ASSUME CounterInv, gen \in [Turns -> GenRow], NEW t \in Turns, NEW x,
         gen' = [gen EXCEPT ![t] = x], others' = others, Counted(t, x)
  PROVE  CounterInv'
<1>. DEFINE old == Cardinality(Holders)
<1>1. IsFiniteSet(Holders) /\ old \in Nat
  BY Constants, FS_Subset, FS_CardinalityType DEF Holders
<1>2. Holders' = IF Held(x) THEN Holders \union {t} ELSE Holders \ {t}
  BY DEF Holders, Held
<1>3. t \in Holders <=> Held(gen[t])
  BY DEF Holders
<1>4. streams \in Nat /\ others \in Nat /\ streams = others + old /\ streams <= StreamLimit
      /\ StreamLimit \in Nat
  BY Constants DEF CounterInv
<1>5. CASE (Held(x) <=> Held(gen[t])) /\ streams' = streams
  <2>1. Holders' = Holders
    BY <1>2, <1>3, <1>5
  <2>. QED  BY <2>1, <1>5 DEF CounterInv
<1>6. CASE ~Held(gen[t]) /\ Held(x) /\ streams < StreamLimit /\ streams' = streams + 1
  <2>1. Cardinality(Holders') = old + 1
    BY <1>1, <1>2, <1>3, <1>6, FS_AddElement
  <2>. HIDE DEF old
  <2>. QED  BY <2>1, <1>1, <1>4, <1>6 DEF CounterInv
<1>7. CASE Held(gen[t]) /\ ~Held(x) /\ streams' = streams - 1
  <2>1. Cardinality(Holders') = old - 1 /\ Cardinality(Holders') \in Nat
    BY <1>1, <1>2, <1>3, <1>7, FS_RemoveElement, FS_CardinalityType
  <2>. HIDE DEF old
  <2>. QED  BY <2>1, <1>1, <1>4, <1>7 DEF CounterInv
<1>. QED  BY <1>5, <1>6, <1>7 DEF Counted

-----------------------------------------------------------------------------
(* A step of one turn                                                      *)

Moves(t, x, y, z) ==
  /\ gen' = [gen EXCEPT ![t] = x] /\ x \in GenRow /\ Paid(x)
  /\ msg' = [msg EXCEPT ![t] = y] /\ y \in MsgRow
  /\ buf' = [buf EXCEPT ![t] = z] /\ z \in BufRow /\ Len(buf[t].log) <= Len(z.log)
  /\ Whole(t, x, y, z)
  /\ Counted(t, x) /\ UNCHANGED <<conv, others, reader>>
  /\ scan' \subseteq Turns /\ faults' \in 0 .. MaxFaults

(* Only its own row, stream and slot change.                               *)
LEMMA TurnStep ==
  ASSUME ChatInv, NEW t \in Turns, NEW x, NEW y, NEW z, Moves(t, x, y, z)
  PROVE  ChatInv'
<1>1. Types /\ gen \in [Turns -> GenRow] /\ msg \in [Turns -> MsgRow]
      /\ buf \in [Turns -> BufRow]
  BY DEF ChatInv, Types
<1>2. Types'
  BY <1>1 DEF Types, Moves
<1>3. TurnsInv'
  <2>1. \A s \in Turns : s # t => gen'[s] = gen[s] /\ msg'[s] = msg[s] /\ buf'[s] = buf[s]
    BY <1>1 DEF Moves
  <2>2. gen'[t] = x /\ msg'[t] = y /\ buf'[t] = z
    BY <1>1 DEF Moves
  <2>3. \A s \in Turns : Whole(s, gen'[s], msg'[s], buf'[s]) /\ Paid(gen'[s])
    BY <2>1, <2>2 DEF Moves, ChatInv, TurnsInv
  <2>. QED  BY <2>3 DEF TurnsInv
<1>4. CounterInv'
  BY <1>1, CounterStep DEF ChatInv, Moves
<1>5. ReaderInv'
  <2>1. Followed \in Turns
    BY Constants
  <2>2. Len(buf[Followed].log) <= Len(buf'[Followed].log)
    BY <1>1, <2>1 DEF Moves, BufRow
  <2>3. Len(buf[Followed].log) \in Nat /\ Len(buf'[Followed].log) \in Nat /\ reader.pos \in Nat
    BY <1>1, <1>2, <2>1 DEF Types, BufRow, ChatInv, ReaderInv, Sound, ReaderRow
  <2>4. reader.pos <= Len(buf'[Followed].log)
    BY <2>2, <2>3 DEF ChatInv, ReaderInv, Sound
  <2>5. reader' = reader
    BY DEF Moves
  <2>. QED  BY <2>4, <2>5 DEF ChatInv, ReaderInv, Sound
<1>. QED  BY <1>2, <1>3, <1>4, <1>5 DEF ChatInv

(* What is known of a turn.                                                *)
LEMMA TurnFacts ==
  ASSUME ChatInv, NEW t \in Turns
  PROVE  /\ gen[t] \in GenRow /\ msg[t] \in MsgRow /\ buf[t] \in BufRow
         /\ Whole(t, gen[t], msg[t], buf[t]) /\ Paid(gen[t])
         /\ gen = [gen EXCEPT ![t] = gen[t]] /\ msg = [msg EXCEPT ![t] = msg[t]]
         /\ buf = [buf EXCEPT ![t] = buf[t]]
         /\ Len(buf[t].log) \in Nat /\ Deltas[t] \in Nat /\ scan \subseteq Turns
         /\ faults \in 0 .. MaxFaults /\ MaxFaults \in Nat
         /\ Cardinality(Words(buf[t].log)) \in Nat
<1>1. gen[t] \in GenRow /\ msg[t] \in MsgRow /\ buf[t] \in BufRow
  BY DEF ChatInv, Types
<1>2. buf[t].log \in Seq(Kinds)
  BY <1>1 DEF BufRow
<1>. QED  BY <1>1, <1>2, WordsFinite, Constants DEF ChatInv, Types, TurnsInv

LEMMA FaultsBounded ==
  ASSUME ChatInv, Fault \/ NoFault
  PROVE  faults' \in 0 .. MaxFaults
BY Constants DEF ChatInv, Types, Fault, NoFault

(* A step that writes neither the row nor the stream.                      *)
LEMMA SlotStep ==
  ASSUME ChatInv, NEW t \in Turns, NEW x \in GenRow, gen' = [gen EXCEPT ![t] = x],
         UNCHANGED <<conv, msg, buf, reader, scan, others>>, Fault \/ NoFault,
         Whole(t, x, msg[t], buf[t]), Paid(x), Counted(t, x)
  PROVE  ChatInv'
<1>1. Moves(t, x, msg[t], buf[t])
  BY TurnFacts, FaultsBounded DEF Moves
<1>. QED  BY <1>1, TurnStep

-----------------------------------------------------------------------------
(* The request                                                             *)

LEMMA AskKeeps ==
  ASSUME ChatInv, NEW t \in Turns, Ask(t)
  PROVE  ChatInv'
<1>. DEFINE x == [gen[t] EXCEPT !.pc = "asked"]
<1>1. /\ gen[t] \in GenRow /\ gen[t].pc = "none" /\ Whole(t, gen[t], msg[t], buf[t])
      /\ Paid(gen[t])
  BY TurnFacts DEF Ask, At
<1>2. x \in GenRow
  BY <1>1 DEF GenRow, Pcs, Request
<1>3. Whole(t, x, msg[t], buf[t]) /\ Paid(x) /\ Counted(t, x)
  BY <1>1 DEF Ask, GenRow, Whole, Spoken, Paid, Once, Counted, Held, Holding, Background, Producing,
              Wrapping, Request, Untold, Recorded
<1>. QED  BY <1>2, <1>3, SlotStep DEF Ask, Goto, NoFault

LEMMA ReserveKeeps ==
  ASSUME ChatInv, NEW t \in Turns, Reserve(t)
  PROVE  ChatInv'
<1>1. /\ gen[t] \in GenRow /\ gen[t].pc = "asked" /\ Whole(t, gen[t], msg[t], buf[t])
      /\ Paid(gen[t])
  BY TurnFacts DEF Reserve, At
<1>2. ASSUME NEW p \in {"reserved", "refused"}, Goto(t, p),
             IF p = "reserved" THEN streams < StreamLimit /\ streams' = streams + 1
                               ELSE streams' = streams
      PROVE  ChatInv'
  <2>. DEFINE x == [gen[t] EXCEPT !.pc = p]
  <2>1. x \in GenRow
    BY <1>1 DEF GenRow, Pcs, Request
  <2>2. Whole(t, x, msg[t], buf[t]) /\ Paid(x) /\ Counted(t, x)
    BY <1>1, <1>2 DEF GenRow, Whole, Spoken, Paid, Once, Counted, Held, Holding, Background, Producing,
                      Wrapping, Request, Untold, Recorded
  <2>. QED  BY <2>1, <2>2, <1>2, SlotStep DEF Reserve, Goto, NoFault
<1>. QED  BY <1>2 DEF Reserve

LEMMA CreateKeeps ==
  ASSUME ChatInv, NEW t \in Turns, Create(t)
  PROVE  ChatInv'
<1>1. /\ gen[t] \in GenRow /\ gen[t].pc = "reserved" /\ Whole(t, gen[t], msg[t], buf[t])
      /\ msg[t] \in MsgRow /\ Paid(gen[t])
  BY TurnFacts DEF Create, At
<1>2. CASE msg' = [msg EXCEPT ![t].status = "streaming"] /\ Goto(t, "made")
           /\ UNCHANGED streams /\ NoFault
  <2>. DEFINE x == [gen[t] EXCEPT !.pc = "made"]
              y == [msg[t] EXCEPT !.status = "streaming"]
  <2>1. x \in GenRow /\ y \in MsgRow
    BY <1>1 DEF GenRow, MsgRow, Pcs, Request
  <2>2. Whole(t, x, y, buf[t]) /\ Paid(x) /\ Counted(t, x)
    BY <1>1, <1>2 DEF GenRow, MsgRow, Whole, Spoken, Paid, Once, Counted, Held, Holding, Background,
                      Producing, Wrapping, Request, Untold, Recorded
  <2>3. gen' = [gen EXCEPT ![t] = x] /\ msg' = [msg EXCEPT ![t] = y]
    BY <1>2 DEF Goto
  <2>. HIDE DEF x, y
  <2>4. Moves(t, x, y, buf[t])
    BY <2>1, <2>2, <2>3, <1>2, TurnFacts, FaultsBounded DEF Moves, Create
  <2>. QED  BY <2>4, TurnStep
<1>3. CASE GiveBack(t) /\ UNCHANGED msg /\ (Fault \/ NoFault)
  <2>. DEFINE n == gen[t].settled + 1
              x == [gen[t] EXCEPT !.pc = "refused", !.settled = n]
  <2>1. x \in GenRow
    <3>1. n \in Nat /\ "refused" \in Pcs
      BY <1>1 DEF GenRow, Pcs
    <3>. HIDE DEF n
    <3>. QED  BY <3>1, <1>1 DEF GenRow
  <2>2. Whole(t, x, msg[t], buf[t]) /\ Paid(x) /\ Counted(t, x)
    BY <1>1, <1>3 DEF GiveBack, GenRow, Whole, Spoken, Paid, Once, Counted, Held, Holding, Background,
                      Producing, Wrapping, Request, Untold, Recorded
  <2>3. gen' = [gen EXCEPT ![t] = x]
    BY <1>3 DEF GiveBack, ChatInv, Types
  <2>. HIDE DEF x
  <2>. QED  BY <2>1, <2>2, <2>3, <1>3, SlotStep DEF Create
<1>. QED  BY <1>2, <1>3 DEF Create

LEMMA SpawnKeeps ==
  ASSUME ChatInv, NEW t \in Turns, Spawn(t)
  PROVE  ChatInv'
<1>. DEFINE x == [gen[t] EXCEPT !.pc = "compose"]
<1>1. /\ gen[t] \in GenRow /\ gen[t].pc = "made" /\ Whole(t, gen[t], msg[t], buf[t])
      /\ Paid(gen[t])
  BY TurnFacts DEF Spawn, At
<1>2. x \in GenRow
  BY <1>1 DEF GenRow, Pcs, Background, Producing
<1>3. Cardinality(Words(buf[t].log)) = 0
  <2>1. buf[t].log = <<>>
    BY <1>1 DEF Whole, Untold, Request
  <2>2. Words(<<>>) = {}
    BY DEF Words
  <2>. QED  BY <2>1, <2>2, FS_EmptySet
<1>4. Whole(t, x, msg[t], buf[t]) /\ Paid(x) /\ Counted(t, x)
  BY <1>1, <1>3 DEF Spawn, GenRow, Whole, Spoken, Paid, Once, Counted, Held, Holding, Background,
              Producing, Wrapping, Request, Untold, Recorded
<1>. QED  BY <1>2, <1>4, SlotStep DEF Spawn, Goto, NoFault

-----------------------------------------------------------------------------
(* The generation                                                          *)

(* One event more, or none.                                                *)
Adds(t, z, kind) ==
  /\ z \in BufRow /\ buf' = [buf EXCEPT ![t] = z] /\ Len(buf[t].log) <= Len(z.log)
  /\ z.ttl = "live" /\ z.log # <<>>
  /\ Cardinality(Words(z.log))
       = Cardinality(Words(buf[t].log)) + (IF kind = "delta" THEN 1 ELSE 0)
  /\ \A k \in Final : Says(z.log, k) <=> Says(buf[t].log, k) \/ kind = k

LEMMA AppendAdds ==
  ASSUME ChatInv, NEW t \in Turns, NEW kind \in Kinds, Append1(t, kind)
  PROVE  \E z : Adds(t, z, kind)
<1>. DEFINE log == Append(buf[t].log, kind)
            z == [buf[t] EXCEPT !.log = log, !.ttl = "live"]
<1>1. buf[t] \in BufRow
  BY TurnFacts
<1>2. buf[t].log \in Seq(Kinds)
  BY <1>1 DEF BufRow
<1>3. /\ log \in Seq(Kinds) /\ log # <<>> /\ Len(log) = Len(buf[t].log) + 1
      /\ Cardinality(Words(log))
           = Cardinality(Words(buf[t].log)) + (IF kind = "delta" THEN 1 ELSE 0)
      /\ \A k \in Kinds : Says(log, k) <=> Says(buf[t].log, k) \/ kind = k
  BY <1>2, AppendWords
<1>4. Len(buf[t].log) <= Len(log) /\ Final \subseteq Kinds
  BY <1>2, <1>3 DEF Final, Kinds
<1>5. buf' = [buf EXCEPT ![t] = z]
  BY DEF Append1, ChatInv, Types
<1>. HIDE DEF log
<1>6. z \in BufRow /\ z.log = log /\ z.ttl = "live"
  BY <1>1, <1>3 DEF BufRow
<1>. HIDE DEF z
<1>7. Adds(t, z, kind)
  BY <1>3, <1>4, <1>5, <1>6 DEF Adds
<1>. QED  BY <1>7

(* A step that adds one event to the stream of an open answer.             *)
LEMMA EventStep ==
  ASSUME ChatInv, NEW t \in Turns, NEW p \in Background, NEW kind \in Kinds,
         Goto(t, p), Append1(t, kind),
         UNCHANGED <<conv, msg, streams, reader, scan, others>>, NoFault,
         \/ gen[t].pc = "compose" /\ p = "stream" /\ kind = "meta"
         \/ gen[t].pc = "word" /\ p = "stream" /\ kind = "delta"
         \/ gen[t].pc = "bill" /\ p = "stream" /\ kind = "usage"
         \/ gen[t].pc = "cite" /\ p = "end" /\ kind = "citations"
         \/ gen[t].pc = "end" /\ p = "free" /\ kind \in Final /\ kind = gen[t].out.event
  PROVE  ChatInv'
<1>. DEFINE x == [gen[t] EXCEPT !.pc = p]
<1>1. /\ msg[t] \in MsgRow /\ gen[t] \in GenRow /\ Paid(gen[t])
      /\ Whole(t, gen[t], msg[t], buf[t]) /\ Cardinality(Words(buf[t].log)) \in Nat
  BY TurnFacts
<1>2. PICK z : Adds(t, z, kind)
  BY AppendAdds
<1>3. x \in GenRow /\ x.pc = p /\ x.got = gen[t].got /\ x.settled = gen[t].settled
      /\ x.cancelled = gen[t].cancelled /\ x.out = gen[t].out
  <2>1. p \in Pcs
    BY DEF Pcs
  <2>. QED  BY <1>1, <2>1 DEF GenRow
<1>4. gen' = [gen EXCEPT ![t] = x]
  BY DEF Goto
<1>. HIDE DEF x
<1>5. Paid(x) /\ Counted(t, x)
  BY <1>1, <1>3 DEF Paid, Once, GenRow, Counted, Held, Holding, Background, Producing,
                    Wrapping, Request, Final
<1>6. Spoken(x, z)
  <2>1. gen[t].got = Cardinality(Words(buf[t].log)) + (IF gen[t].pc = "word" THEN 1 ELSE 0)
        \/ gen[t].pc \in {"cite", "end"}
    <3>1. CASE gen[t].pc = "compose"
      <4>1. gen[t].got = 0 /\ buf[t].log = <<>>
        BY <1>1, <3>1 DEF Whole, Untold
      <4>2. Words(buf[t].log) = {}
        BY <4>1 DEF Words
      <4>3. Cardinality(Words(buf[t].log)) = 0
        BY <4>2, FS_EmptySet
      <4>4. gen[t].pc # "word"
        BY <3>1
      <4>. QED  BY <4>1, <4>3, <4>4
    <3>2. CASE gen[t].pc # "compose"
      BY <1>1, <3>2 DEF Whole, Spoken
    <3>. QED  BY <3>1, <3>2
  <2>2. Says(z.log, "done") <=> Says(buf[t].log, "done") \/ kind = "done"
    BY <1>2 DEF Adds, Final
  <2>3. Cardinality(Words(z.log))
          = Cardinality(Words(buf[t].log)) + (IF kind = "delta" THEN 1 ELSE 0)
    BY <1>2 DEF Adds
  <2>4. gen[t].pc \notin {"cite", "end"} => ~Says(buf[t].log, "done")
    BY <1>1 DEF Whole, Closed, Wrapping
  <2>. QED  BY <1>1, <1>3, <2>1, <2>2, <2>3, <2>4 DEF Whole, Spoken, Wrapping, Final
<1>7. Closed(z.log) => /\ p \in Wrapping \union {"free"}
                       /\ msg[t].status \in Ended /\ msg[t].len = x.got
  <2>1. Closed(z.log) <=> Closed(buf[t].log) \/ kind \in Final
    BY <1>2 DEF Adds, Closed, Final
  <2>2. gen[t].pc \notin {"cite", "end"} => ~Closed(buf[t].log)
    BY <1>1 DEF Whole, Wrapping
  <2>. QED  BY <1>1, <1>3, <2>1, <2>2 DEF Whole, Wrapping, Recorded, Final
<1>8. Whole(t, x, msg[t], z)
  BY <1>1, <1>2, <1>3, <1>6, <1>7
     DEF Whole, Adds, Background, Producing, Wrapping, Untold, Request, Recorded, Final
<1>9. /\ msg' = [msg EXCEPT ![t] = msg[t]] /\ scan' \subseteq Turns
      /\ faults' \in 0 .. MaxFaults
  BY TurnFacts, FaultsBounded
<1>10. Moves(t, x, msg[t], z)
  BY <1>1, <1>2, <1>3, <1>4, <1>5, <1>8, <1>9 DEF Moves, Adds
<1>. QED  BY <1>10, TurnStep

LEMMA TellKeeps ==
  ASSUME ChatInv, NEW t \in Turns, Compose(t) \/ Tell(t) \/ EmitCitations(t) \/ End(t)
  PROVE  ChatInv'
<1>1. {"stream", "end", "free"} \subseteq Background
      /\ {"meta", "delta", "usage", "citations"} \subseteq Kinds /\ Final \subseteq Kinds
  BY DEF Background, Producing, Wrapping, Kinds, Final
<1>2. CASE Compose(t)
  BY <1>1, <1>2, EventStep DEF Compose, At, NoFault
<1>3. CASE Tell(t)
  <2>1. CASE gen[t].pc = "word"
    BY <1>1, <1>3, <2>1, EventStep DEF Tell, At, NoFault
  <2>2. CASE gen[t].pc = "bill"
    BY <1>1, <1>3, <2>2, EventStep DEF Tell, At, NoFault
  <2>. QED  BY <1>3, <2>1, <2>2 DEF Tell
<1>4. CASE EmitCitations(t)
  BY <1>1, <1>4, EventStep DEF EmitCitations, At, NoFault
<1>5. CASE End(t)
  <2>1. gen[t].out.event \in Final
    <3>1. gen[t].out \in Outs
      BY TurnFacts DEF GenRow
    <3>. QED  BY <3>1 DEF Outs, Completed, Stopped, Interrupted, Failed, Outcome, Final
  <2>. QED  BY <1>1, <1>5, <2>1, EventStep DEF End, At, NoFault
<1>. QED  BY <1>2, <1>3, <1>4, <1>5

(* A delta of the provider: the word is kept, its event comes next.        *)
LEMMA DeltaKeeps ==
  ASSUME ChatInv, NEW t \in Turns, TextDelta(t) \/ UsageDelta(t)
  PROVE  ChatInv'
<1>1. /\ gen[t] \in GenRow /\ gen[t].pc = "stream" /\ Whole(t, gen[t], msg[t], buf[t])
      /\ Paid(gen[t]) /\ Deltas[t] \in Nat /\ Cardinality(Words(buf[t].log)) \in Nat
  BY TurnFacts DEF TextDelta, UsageDelta, At
<1>2. ~Closed(buf[t].log) /\ gen[t].got = Cardinality(Words(buf[t].log))
      /\ gen[t].got \in 0 .. Deltas[t] /\ gen[t].settled = 0
  BY <1>1 DEF Whole, Spoken, Wrapping, Paid, Producing
<1>3. ASSUME NEW x \in GenRow, gen' = [gen EXCEPT ![t] = x],
             x.settled = gen[t].settled, x.cancelled = gen[t].cancelled,
             \/ x.pc = "word" /\ x.got = gen[t].got + 1
             \/ x.pc = "bill" /\ x.got = gen[t].got,
             x.got \in 0 .. Deltas[t]
      PROVE  ChatInv'
  <2>1. Paid(x) /\ Counted(t, x)
    BY <1>1, <1>2, <1>3 DEF Paid, Once, GenRow, Counted, Held, Holding, Background, Producing,
                            Wrapping, Request, TextDelta, UsageDelta
  <2>2. Spoken(x, buf[t])
    BY <1>1, <1>2, <1>3 DEF Spoken, Wrapping, Closed
  <2>3. Whole(t, x, msg[t], buf[t])
    BY <1>1, <1>2, <1>3, <2>2 DEF Whole, Background, Producing, Wrapping, Untold, Request,
                                  Recorded
  <2>. QED  BY <1>3, <2>1, <2>3, SlotStep DEF TextDelta, UsageDelta, NoFault
<1>4. {"word", "bill"} \subseteq Pcs
  BY DEF Pcs, Background, Producing
<1>5. CASE TextDelta(t)
  <2>. DEFINE n == gen[t].got + 1
              x == [gen[t] EXCEPT !.got = n, !.pc = "word"]
  <2>1. n \in 0 .. Deltas[t] /\ n \in Nat
    BY <1>1, <1>5 DEF TextDelta, GenRow
  <2>2. gen' = [gen EXCEPT ![t] = x]
    BY <1>5 DEF TextDelta, ChatInv, Types
  <2>. HIDE DEF n
  <2>3. x \in GenRow /\ x.pc = "word" /\ x.settled = gen[t].settled
        /\ x.cancelled = gen[t].cancelled /\ x.got = n
    BY <1>1, <1>4, <2>1 DEF GenRow
  <2>. HIDE DEF x
  <2>. QED  BY <2>1, <2>2, <2>3, <1>3 DEF n
<1>6. CASE UsageDelta(t)
  <2>. DEFINE x == [gen[t] EXCEPT !.usage = TRUE, !.pc = "bill"]
  <2>1. gen' = [gen EXCEPT ![t] = x]
    BY <1>6 DEF UsageDelta, ChatInv, Types
  <2>2. x \in GenRow /\ x.pc = "bill" /\ x.settled = gen[t].settled
        /\ x.cancelled = gen[t].cancelled /\ x.got = gen[t].got
    BY <1>1, <1>4 DEF GenRow
  <2>. HIDE DEF x
  <2>. QED  BY <1>2, <2>1, <2>2, <1>3
<1>. QED  BY <1>5, <1>6

LEMMA WrittenFacts ==
  ASSUME ChatInv, NEW t \in Turns, gen[t].pc \in Background
  PROVE  /\ Written(t) \in MsgRow /\ Written(t).status \in Ended
         /\ Written(t).len = gen[t].got /\ gen[t].got \in 0 .. Deltas[t]
<1>1. gen[t] \in GenRow /\ msg[t] \in MsgRow /\ Whole(t, gen[t], msg[t], buf[t])
  BY TurnFacts
<1>2. gen[t].got \in Nat /\ gen[t].out \in Outs /\ gen[t].got \in 0 .. Deltas[t]
  BY <1>1 DEF GenRow, Whole
<1>3. gen[t].out.status \in Ended
  BY <1>2 DEF Outs, Completed, Stopped, Interrupted, Failed, Outcome, Ended
<1>. QED  BY <1>1, <1>2, <1>3 DEF Written, MsgRow

(* An await that did not return: whatever it has done, the execution that  *)
(* is left behind has the same words, and the row has them when the answer *)
(* is closed.                                                              *)
LEMMA MaybeTells ==
  ASSUME ChatInv, NEW t \in Turns, MaybeTold(t)
  PROVE  \/ buf' = [buf EXCEPT ![t] = buf[t]]
         \/ \E z, kind : /\ Adds(t, z, kind)
                        /\ \/ gen[t].pc = "compose" /\ kind = "meta"
                           \/ gen[t].pc = "word" /\ kind = "delta"
                           \/ gen[t].pc = "bill" /\ kind = "usage"
                           \/ gen[t].pc = "cite" /\ kind = "citations"
                           \/ /\ gen[t].pc = "end" /\ kind = gen[t].out.event
                              /\ kind \in Final
<1>1. gen[t].out.event \in Final
  <2>1. gen[t].out \in Outs
    BY TurnFacts DEF GenRow
  <2>. QED  BY <2>1 DEF Outs, Completed, Stopped, Interrupted, Failed, Outcome, Final
<1>2. CASE UNCHANGED buf
  BY <1>2, TurnFacts
<1>3. ASSUME NEW kind \in Awaited(t), Append1(t, kind)
      PROVE  /\ kind \in Kinds
             /\ \/ gen[t].pc = "compose" /\ kind = "meta"
                \/ gen[t].pc = "word" /\ kind = "delta"
                \/ gen[t].pc = "bill" /\ kind = "usage"
                \/ gen[t].pc = "cite" /\ kind = "citations"
                \/ gen[t].pc = "end" /\ kind = gen[t].out.event /\ kind \in Final
  BY <1>1, <1>3 DEF Awaited, At, Kinds, Final
<1>. QED  BY <1>2, <1>3, AppendAdds DEF MaybeTold

LEMMA MaybeWrites ==
  ASSUME ChatInv, NEW t \in Turns, MaybeWritten(t)
  PROVE  \E y \in MsgRow : /\ msg' = [msg EXCEPT ![t] = y]
                           /\ \/ y = msg[t]
                              \/ /\ gen[t].pc = "persist" /\ y.status \in Ended
                                 /\ y.len = gen[t].got
<1>1. msg[t] \in MsgRow /\ msg = [msg EXCEPT ![t] = msg[t]]
  BY TurnFacts
<1>2. CASE msg' = msg
  BY <1>1, <1>2
<1>3. CASE gen[t].pc = "persist" /\ msg' = [msg EXCEPT ![t] = Written(t)]
  <2>1. gen[t].pc \in Background
    BY <1>3 DEF Background, Wrapping
  <2>. QED  BY <1>3, <2>1, WrittenFacts
<1>. QED  BY <1>2, <1>3 DEF MaybeWritten, At

LEMMA LeaveStep ==
  ASSUME ChatInv, NEW t \in Turns, NEW x \in GenRow, gen' = [gen EXCEPT ![t] = x],
         x.got = gen[t].got, Paid(x), x.pc \in {"persist", "free", "dead"},
         gen[t].pc \in Holding, x.pc # "dead" => gen[t].pc \in Background,
         x.pc = "persist" => x.out.event # "done" \/ gen[t].pc = "stream",
         MaybeTold(t), MaybeWritten(t), Fault \/ NoFault,
         UNCHANGED <<conv, streams, reader, scan, others>>
  PROVE  ChatInv'
<1>1. /\ gen[t] \in GenRow /\ msg[t] \in MsgRow /\ buf[t] \in BufRow
      /\ Whole(t, gen[t], msg[t], buf[t]) /\ Cardinality(Words(buf[t].log)) \in Nat
  BY TurnFacts
<1>2. PICK y \in MsgRow : /\ msg' = [msg EXCEPT ![t] = y]
                          /\ \/ y = msg[t]
                             \/ /\ gen[t].pc = "persist" /\ y.status \in Ended
                                /\ y.len = gen[t].got
  BY MaybeWrites
<1>3. Counted(t, x)
  BY DEF Counted, Held, Holding, Background, Wrapping
<1>4. /\ y.len \in 0 .. Deltas[t] /\ x.got \in 0 .. Deltas[t]
      /\ x.pc \in Background => y.status # "none"
      /\ x.pc \notin Untold /\ x.pc \notin Recorded
  <2>1. gen[t].got \in 0 .. Deltas[t] /\ msg[t].len \in 0 .. Deltas[t]
    BY <1>1 DEF Whole
  <2>2. x.pc \in Background => msg[t].status # "none"
    BY <1>1 DEF Whole, Background, Wrapping, Producing
  <2>3. x.pc \notin Untold /\ x.pc \notin Recorded
    BY DEF Untold, Recorded, Request
  <2>. QED  BY <1>2, <2>1, <2>2, <2>3 DEF Ended
<1>5. scan' \subseteq Turns /\ faults' \in 0 .. MaxFaults
  BY TurnFacts, FaultsBounded
<1>6. Closed(buf[t].log) => y.status \in Ended /\ y.len = x.got
  BY <1>1, <1>2 DEF Whole
<1>7. gen[t].pc \in {"compose", "stream", "word", "bill"} => ~Closed(buf[t].log)
  BY <1>1 DEF Whole, Wrapping
<1>8. CASE buf' = [buf EXCEPT ![t] = buf[t]]
  <2>1. Spoken(x, buf[t])
    BY <1>1 DEF Whole, Spoken, Wrapping
  <2>2. Whole(t, x, y, buf[t])
    BY <1>1, <1>4, <1>6, <2>1 DEF Whole, Wrapping
  <2>3. Len(buf[t].log) <= Len(buf[t].log)
    BY TurnFacts
  <2>4. Moves(t, x, y, buf[t])
    BY <1>1, <1>2, <1>3, <1>5, <1>8, <2>2, <2>3 DEF Moves
  <2>. QED  BY <2>4, TurnStep
<1>9. ASSUME NEW z, NEW kind, Adds(t, z, kind),
             \/ gen[t].pc = "compose" /\ kind = "meta"
             \/ gen[t].pc = "word" /\ kind = "delta"
             \/ gen[t].pc = "bill" /\ kind = "usage"
             \/ gen[t].pc = "cite" /\ kind = "citations"
             \/ gen[t].pc = "end" /\ kind = gen[t].out.event /\ kind \in Final
      PROVE  ChatInv'
  <2>1. /\ Says(z.log, "done") <=> Says(buf[t].log, "done") \/ kind = "done"
        /\ Closed(z.log) <=> Closed(buf[t].log) \/ kind \in Final
    BY <1>9 DEF Adds, Final, Closed
  <2>2. Cardinality(Words(z.log))
          = Cardinality(Words(buf[t].log)) + (IF kind = "delta" THEN 1 ELSE 0)
    BY <1>9 DEF Adds
  <2>3. x.pc = "persist" => x.out.event # "done"
    BY <1>9
  <2>4. Spoken(x, z)
    <3>1. CASE gen[t].pc = "word"
      <4>1. kind = "delta" /\ gen[t].got = Cardinality(Words(buf[t].log)) + 1
        BY <1>1, <1>9, <3>1 DEF Whole, Spoken
      <4>. QED  BY <1>1, <2>1, <2>2, <2>3, <3>1, <4>1 DEF Spoken, Wrapping
    <3>2. CASE gen[t].pc # "word"
      <4>1. kind # "delta"
        BY <1>9, <3>2 DEF Final
      <4>2. Cardinality(Words(z.log)) = Cardinality(Words(buf[t].log))
        BY <1>1, <2>2, <4>1
      <4>3. kind = "done" => gen[t].pc = "end" /\ gen[t].out.event = "done"
        BY <1>9
      <4>4. kind = "done" => gen[t].got = Cardinality(Words(buf[t].log))
        BY <1>1, <4>3 DEF Whole, Spoken, Wrapping
      <4>. QED  BY <1>1, <2>1, <2>3, <4>2, <4>4 DEF Whole, Spoken, Wrapping
    <3>. QED  BY <3>1, <3>2
  <2>5. Closed(z.log) => y.status \in Ended /\ y.len = x.got
    <3>1. kind \in Final => gen[t].pc = "end"
      BY <1>9 DEF Final
    <3>2. gen[t].pc = "end" => msg[t].status \in Ended /\ msg[t].len = gen[t].got
      BY <1>1 DEF Whole, Recorded
    <3>. QED  BY <1>2, <1>6, <2>1, <3>1, <3>2
  <2>6. Whole(t, x, y, z)
    BY <1>4, <1>9, <2>4, <2>5 DEF Whole, Adds, Wrapping
  <2>7. Moves(t, x, y, z)
    BY <1>2, <1>3, <1>5, <1>9, <2>6 DEF Moves, Adds
  <2>. QED  BY <2>7, TurnStep
<1>. QED  BY <1>8, <1>9, MaybeTells

(* The paths that leave the loop: nothing is written or settled yet.       *)
LEMMA FinishKeeps ==
  ASSUME ChatInv, NEW t \in Turns, NEW out \in Outs, NEW usage \in BOOLEAN,
         NEW caught \in BOOLEAN, gen[t].pc \in Producing \union {"persist"},
         Finish(t, out, usage, caught), Fault \/ NoFault,
         out.event # "done" \/ gen[t].pc = "stream",
         MaybeTold(t), MaybeWritten(t), UNCHANGED <<conv, streams, reader, scan, others>>
  PROVE  ChatInv'
<1>. DEFINE x == [gen[t] EXCEPT !.pc = "persist", !.out = out, !.usage = usage,
                                !.caught = caught]
<1>1. /\ gen[t] \in GenRow /\ Paid(gen[t]) /\ gen[t].pc \in Background
  BY TurnFacts DEF Background, Wrapping
<1>2. "persist" \in Pcs /\ gen[t].pc \in Holding
  BY <1>1 DEF Pcs, Background, Wrapping, Holding
<1>3. x \in GenRow /\ x.pc = "persist" /\ x.settled = gen[t].settled /\ x.out = out
      /\ x.cancelled = gen[t].cancelled /\ x.got = gen[t].got
  BY <1>1, <1>2 DEF GenRow
<1>4. gen' = [gen EXCEPT ![t] = x]
  BY DEF Finish
<1>. HIDE DEF x
<1>5. Paid(x)
  BY <1>1, <1>3 DEF Paid, Once, GenRow, Producing, Request
<1>. QED  BY <1>1, <1>2, <1>3, <1>4, <1>5, LeaveStep

LEMMA LeaveKeeps ==
  ASSUME ChatInv, NEW t \in Turns, DoneDelta(t) \/ ErrorDelta(t) \/ SeeStop(t)
  PROVE  ChatInv'
<1>1. gen[t] \in GenRow
  BY TurnFacts
<1>2. gen[t].usage \in BOOLEAN /\ (gen[t].usage \/ gen[t].got > 0) \in BOOLEAN
      /\ {Completed, Interrupted, Stopped, Failed} \subseteq Outs
  BY <1>1 DEF GenRow, Outs
<1>3. UNCHANGED <<msg, buf>> => MaybeTold(t) /\ MaybeWritten(t)
  BY DEF MaybeTold, MaybeWritten
<1>4. CASE DoneDelta(t)
  BY <1>2, <1>3, <1>4, FinishKeeps DEF DoneDelta, At, Producing, NoFault
<1>5. CASE ErrorDelta(t)
  BY <1>2, <1>3, <1>5, FinishKeeps DEF ErrorDelta, At, Producing
<1>6. CASE SeeStop(t)
  BY <1>2, <1>3, <1>6, FinishKeeps DEF SeeStop, At, Producing, NoFault
<1>. QED  BY <1>4, <1>5, <1>6

-----------------------------------------------------------------------------
(* _complete and _fail                                                     *)

LEMMA PersistKeeps ==
  ASSUME ChatInv, NEW t \in Turns, Persist(t)
  PROVE  ChatInv'
<1>. DEFINE x == [gen[t] EXCEPT !.pc = "settle"]
            y == Written(t)
<1>1. /\ gen[t] \in GenRow /\ Whole(t, gen[t], msg[t], buf[t]) /\ Paid(gen[t])
      /\ gen[t].pc = "persist"
  BY TurnFacts DEF Persist, At
<1>2. gen[t].pc \in Background \ {"free"} /\ "settle" \in Pcs
  BY <1>1 DEF Pcs, Background, Wrapping
<1>3. y \in MsgRow /\ y.status \in Ended /\ y.len = gen[t].got
      /\ gen[t].got \in 0 .. Deltas[t]
  BY <1>2, WrittenFacts
<1>4. x \in GenRow /\ x.pc = "settle" /\ x.settled = gen[t].settled
      /\ x.cancelled = gen[t].cancelled /\ x.got = gen[t].got /\ x.out = gen[t].out
  BY <1>1, <1>2 DEF GenRow
<1>5. gen' = [gen EXCEPT ![t] = x] /\ msg' = [msg EXCEPT ![t] = y]
  BY DEF Persist, Goto
<1>. HIDE DEF x, y
<1>6. Paid(x) /\ Counted(t, x)
  BY <1>1, <1>4 DEF Paid, Once, GenRow, Counted, Held, Holding, Background, Producing,
                    Wrapping, Request, Persist
<1>7. Whole(t, x, y, buf[t])
  BY <1>1, <1>2, <1>3, <1>4 DEF Whole, Spoken, Background, Producing, Wrapping, Untold, Request,
                                Recorded, Ended
<1>8. /\ buf' = [buf EXCEPT ![t] = buf[t]] /\ buf[t] \in BufRow
      /\ Len(buf[t].log) <= Len(buf[t].log) /\ scan' \subseteq Turns
  BY TurnFacts DEF Persist
<1>9. faults' \in 0 .. MaxFaults /\ UNCHANGED <<conv, others, reader>>
  BY FaultsBounded DEF Persist, NoFault
<1>10. Moves(t, x, y, buf[t])
  BY <1>3, <1>4, <1>5, <1>6, <1>7, <1>8, <1>9 DEF Moves
<1>. QED  BY <1>10, TurnStep

LEMMA SettledFacts ==
  ASSUME ChatInv, NEW t \in Turns, gen[t].pc \in Pcs
  PROVE  /\ Settled(t) \in GenRow /\ Settled(t).settled = gen[t].settled + 1
         /\ \A f \in {"pc", "got", "usage", "out", "caught", "cancelled"} : Settled(t)[f] = gen[t][f]
<1>. DEFINE n == gen[t].settled + 1
            l == gen[t].logged \/ (gen[t].usage /\ gen[t].out.event = "done")
<1>1. gen[t] \in GenRow
  BY TurnFacts
<1>2. n \in Nat /\ gen[t].logged \in BOOLEAN /\ gen[t].usage \in BOOLEAN
  BY <1>1 DEF GenRow
<1>3. l \in BOOLEAN
  BY <1>2
<1>4. Settled(t) = [gen[t] EXCEPT !.settled = n, !.logged = l]
  BY DEF Settled
<1>. HIDE DEF n, l
<1>5. Settled(t) \in GenRow
  BY <1>1, <1>2, <1>3, <1>4 DEF GenRow
<1>6. Settled(t).settled = n
  BY <1>1, <1>4 DEF GenRow
<1>7. /\ Settled(t).pc = gen[t].pc /\ Settled(t).got = gen[t].got
      /\ Settled(t).usage = gen[t].usage /\ Settled(t).caught = gen[t].caught
      /\ Settled(t).cancelled = gen[t].cancelled /\ Settled(t).out = gen[t].out
  BY <1>1, <1>4 DEF GenRow
<1>. QED  BY <1>5, <1>6, <1>7 DEF n

LEMMA SettleKeeps ==
  ASSUME ChatInv, NEW t \in Turns, Settle(t)
  PROVE  ChatInv'
<1>. DEFINE p == IF t \in Retrieving THEN "cite" ELSE "end"
            x == [Settled(t) EXCEPT !.pc = p]
<1>1. /\ gen[t] \in GenRow /\ Whole(t, gen[t], msg[t], buf[t]) /\ Paid(gen[t])
      /\ gen[t].pc = "settle"
  BY TurnFacts DEF Settle, At
<1>2. p \in {"cite", "end"} /\ p \in Pcs /\ gen[t].pc \in Pcs
  BY <1>1 DEF Pcs, Background, Wrapping
<1>3. gen' = [gen EXCEPT ![t] = x]
  BY DEF Settle
<1>. HIDE DEF p
<1>4. x \in GenRow /\ x.pc = p /\ x.settled = gen[t].settled + 1
      /\ x.cancelled = gen[t].cancelled /\ x.got = gen[t].got /\ x.out = gen[t].out
  BY <1>2, SettledFacts DEF GenRow
<1>. HIDE DEF x
<1>5. Paid(x) /\ Counted(t, x)
  BY <1>1, <1>2, <1>4 DEF Paid, Once, GenRow, Counted, Held, Holding, Background, Producing,
                          Wrapping, Request, Settle
<1>6. Whole(t, x, msg[t], buf[t])
  BY <1>1, <1>2, <1>4 DEF Whole, Spoken, Background, Producing, Wrapping, Untold, Request, Recorded
<1>. QED  BY <1>3, <1>4, <1>5, <1>6, SlotStep DEF Settle, NoFault

-----------------------------------------------------------------------------
(* Exceptions, shutdown and the scan                                       *)

(* What the execution has settled by the time it is left.                  *)
LEMMA MaybeSettledFacts ==
  ASSUME ChatInv, NEW t \in Turns, gen[t].pc \in Background, NEW g \in MaybeSettled(t)
  PROVE  /\ g \in GenRow /\ g.got = gen[t].got /\ g.cancelled = gen[t].cancelled
         /\ g.settled <= 1 + Once(g)
         /\ ~g.cancelled => g.settled <= 1
<1>1. gen[t] \in GenRow /\ Paid(gen[t]) /\ gen[t].pc \in Pcs
  BY TurnFacts DEF GenRow
<1>2. CASE g = gen[t]
  BY <1>1, <1>2 DEF Paid, Once
<1>3. CASE gen[t].pc = "settle" /\ g = Settled(t)
  <2>1. g \in GenRow /\ g.settled = gen[t].settled + 1 /\ g.got = gen[t].got
        /\ g.cancelled = gen[t].cancelled
    BY <1>1, <1>3, SettledFacts
  <2>2. gen[t].settled <= Once(gen[t]) /\ gen[t].settled \in Nat
    BY <1>1, <1>3 DEF Paid, GenRow
  <2>. QED  BY <2>1, <2>2 DEF Once
<1>. QED  BY <1>2, <1>3 DEF MaybeSettled, At

LEMMA OverKeeps ==
  ASSUME ChatInv, NEW t \in Turns, Raise(t) \/ Degrade(t) \/ Free(t) \/ Die(t)
  PROVE  ChatInv'
<1>1. gen[t] \in GenRow /\ Paid(gen[t]) /\ Whole(t, gen[t], msg[t], buf[t])
  BY TurnFacts
<1>2. {"free", "ended", "dead"} \subseteq Pcs
  BY DEF Pcs, Background
<1>3. UNCHANGED msg => MaybeWritten(t)
  BY DEF MaybeWritten
<1>4. ASSUME NEW p \in {"free", "ended", "dead"}, Goto(t, p)
      PROVE  \E x \in GenRow : /\ gen' = [gen EXCEPT ![t] = x] /\ x.pc = p
                               /\ x.got = gen[t].got /\ Paid(x)
  <2>. DEFINE x == [gen[t] EXCEPT !.pc = p]
  <2>1. x \in GenRow /\ x.pc = p /\ x.got = gen[t].got /\ x.settled = gen[t].settled
        /\ x.cancelled = gen[t].cancelled
    BY <1>1, <1>2 DEF GenRow
  <2>2. gen' = [gen EXCEPT ![t] = x]
    BY <1>4 DEF Goto
  <2>. HIDE DEF x
  <2>3. Paid(x)
    BY <1>1, <2>1 DEF Paid, Once, Request, Producing
  <2>. QED  BY <2>1, <2>2, <2>3
<1>5. CASE Raise(t)
  <2>1. CASE gen[t].caught
    <3>1. PICK x \in GenRow : /\ gen' = [gen EXCEPT ![t] = x] /\ x.pc = "free"
                              /\ x.got = gen[t].got /\ Paid(x)
      BY <1>4, <1>5, <2>1 DEF Raise
    <3>2. gen[t].pc \in Background /\ gen[t].pc \in Holding
      BY <1>5 DEF Raise, Background, Wrapping, Holding
    <3>. QED  BY <1>5, <3>1, <3>2, LeaveStep DEF Raise
  <2>2. CASE ~gen[t].caught
    <3>1. Failed \in Outs /\ Failed.event # "done" /\ gen[t].usage \in BOOLEAN
      BY <1>1 DEF GenRow, Outs, Failed, Outcome
    <3>. QED  BY <1>5, <2>2, <3>1, FinishKeeps DEF Raise
  <2>. QED  BY <2>1, <2>2
<1>6. CASE Degrade(t)
  <2>1. gen[t].pc \in Background /\ gen[t].pc \in Holding
    BY <1>6 DEF Degrade, Background, Wrapping, Holding
  <2>2. PICK g \in MaybeSettled(t) : gen' = [gen EXCEPT ![t] = [g EXCEPT !.pc = "free"]]
    BY <1>6 DEF Degrade
  <2>3. g \in GenRow /\ g.got = gen[t].got /\ g.settled <= 1 + Once(g)
    BY <2>1, MaybeSettledFacts
  <2>. DEFINE x == [g EXCEPT !.pc = "free"]
  <2>4. x \in GenRow /\ x.pc = "free" /\ x.got = gen[t].got /\ x.settled = g.settled
        /\ x.cancelled = g.cancelled
    BY <1>2, <2>3 DEF GenRow
  <2>5. gen' = [gen EXCEPT ![t] = x]
    BY <2>2
  <2>. HIDE DEF x
  <2>6. Paid(x)
    BY <2>3, <2>4 DEF Paid, Once, Request, Producing
  <2>. QED  BY <1>3, <1>6, <2>1, <2>4, <2>5, <2>6, LeaveStep DEF Degrade
<1>7. CASE Free(t)
  <2>1. PICK x \in GenRow : /\ gen' = [gen EXCEPT ![t] = x] /\ x.pc = "ended"
                            /\ x.got = gen[t].got /\ Paid(x)
    BY <1>4, <1>7 DEF Free
  <2>2. Counted(t, x)
    BY <1>7, <2>1 DEF Free, At, Counted, Held, Holding, Background, Producing, Wrapping,
                      Request
  <2>3. Whole(t, x, msg[t], buf[t])
    BY <1>1, <2>1 DEF Whole, Spoken, Background, Producing, Wrapping, Untold, Request, Recorded
  <2>. QED  BY <1>7, <2>1, <2>2, <2>3, SlotStep DEF Free, NoFault
<1>8. CASE Die(t)
  <2>1. PICK x \in GenRow : /\ gen' = [gen EXCEPT ![t] = x] /\ x.pc = "dead"
                            /\ x.got = gen[t].got /\ Paid(x)
    BY <1>4, <1>8 DEF Die
  <2>. QED  BY <1>8, <2>1, LeaveStep DEF Die
<1>. QED  BY <1>5, <1>6, <1>7, <1>8

(* CancelledError passes the valve: the turn may be settled twice, and its *)
(* row written early or once more.                                         *)
LEMMA CancelKeeps ==
  ASSUME ChatInv, NEW t \in Turns, Cancel(t)
  PROVE  ChatInv'
<1>1. gen[t].pc \in Background /\ gen[t].pc \in Holding /\ ~gen[t].cancelled
  BY DEF Cancel, Holding
<1>2. PICK g \in MaybeSettled(t) :
        gen' = [gen EXCEPT ![t] =
          IF g.caught THEN [g EXCEPT !.pc = "free", !.cancelled = TRUE]
          ELSE [g EXCEPT !.pc = "persist", !.out = Interrupted, !.caught = TRUE,
                         !.cancelled = TRUE]]
  BY DEF Cancel
<1>3. g \in GenRow /\ g.got = gen[t].got /\ g.settled <= 1
  BY <1>1, MaybeSettledFacts
<1>4. ASSUME NEW x \in GenRow, gen' = [gen EXCEPT ![t] = x], x.pc \in {"free", "persist"},
             x.cancelled, x.got = g.got, x.settled = g.settled,
             x.pc = "persist" => x.out.event # "done"
      PROVE  ChatInv'
  <2>1. Paid(x)
    BY <1>3, <1>4 DEF Paid, Once, GenRow, Producing, Request
  <2>. QED  BY <1>1, <1>3, <1>4, <2>1, LeaveStep DEF Cancel
<1>5. {"free", "persist"} \subseteq Pcs /\ Interrupted \in Outs /\ Interrupted.event # "done"
  BY DEF Pcs, Background, Wrapping, Outs, Interrupted, Outcome
<1>6. CASE g.caught
  <2>. DEFINE x == [g EXCEPT !.pc = "free", !.cancelled = TRUE]
  <2>1. x \in GenRow /\ x.pc = "free" /\ x.cancelled /\ x.got = g.got /\ x.settled = g.settled
    BY <1>3, <1>5 DEF GenRow
  <2>2. gen' = [gen EXCEPT ![t] = x]
    BY <1>2, <1>6
  <2>. HIDE DEF x
  <2>. QED  BY <2>1, <2>2, <1>4
<1>7. CASE ~g.caught
  <2>. DEFINE x == [g EXCEPT !.pc = "persist", !.out = Interrupted, !.caught = TRUE,
                             !.cancelled = TRUE]
  <2>1. x \in GenRow /\ x.pc = "persist" /\ x.cancelled /\ x.got = g.got
        /\ x.settled = g.settled /\ x.out = Interrupted
    BY <1>3, <1>5 DEF GenRow
  <2>2. gen' = [gen EXCEPT ![t] = x]
    BY <1>2, <1>7
  <2>. HIDE DEF x
  <2>. QED  BY <2>1, <2>2, <1>4, <1>5
<1>. QED  BY <1>6, <1>7

(* The words of a row outlive whatever the scan makes of it.               *)
LEMMA RescueKeeps ==
  ASSUME ChatInv, NEW t \in Turns, RescueMark(t)
  PROVE  ChatInv'
<1>. DEFINE y == [msg[t] EXCEPT !.status = "interrupted"]
<1>1. /\ gen[t] \in GenRow /\ msg[t] \in MsgRow /\ Whole(t, gen[t], msg[t], buf[t])
      /\ Paid(gen[t])
  BY TurnFacts
<1>2. y \in MsgRow /\ y.status = "interrupted" /\ y.len = msg[t].len
  BY <1>1 DEF MsgRow, Ended
<1>3. msg' = [msg EXCEPT ![t] = y]
  BY DEF RescueMark
<1>. HIDE DEF y
<1>4. Whole(t, gen[t], y, buf[t])
  BY <1>1, <1>2 DEF Whole, Ended
<1>5. Counted(t, gen[t])
  BY DEF Counted, RescueMark
<1>6. /\ buf' = [buf EXCEPT ![t] = buf[t]] /\ buf[t] \in BufRow
      /\ gen' = [gen EXCEPT ![t] = gen[t]]
      /\ Len(buf[t].log) <= Len(buf[t].log) /\ scan' \subseteq Turns
  BY TurnFacts DEF RescueMark
<1>7. faults' \in 0 .. MaxFaults /\ UNCHANGED <<conv, others, reader>>
  BY FaultsBounded DEF RescueMark, NoFault
<1>8. Moves(t, gen[t], y, buf[t])
  BY <1>1, <1>2, <1>3, <1>4, <1>5, <1>6, <1>7 DEF Moves
<1>. QED  BY <1>8, TurnStep

(* Expiry and the stop flag leave the events alone.                        *)
LEMMA FlagKeeps ==
  ASSUME ChatInv, (\E t \in Turns : Expire(t)) \/ Stop
  PROVE  ChatInv'
<1>1. ASSUME NEW t \in Turns, NEW z \in BufRow, buf' = [buf EXCEPT ![t] = z],
             z.log = buf[t].log, z.ttl = "none" <=> buf[t].ttl = "none",
             UNCHANGED <<conv, msg, gen, streams, reader, scan, faults, others>>
      PROVE  ChatInv'
  <2>1. Whole(t, gen[t], msg[t], z)
    BY <1>1, TurnFacts DEF Whole, Spoken
  <2>2. Counted(t, gen[t])
    BY <1>1 DEF Counted
  <2>3. /\ gen' = [gen EXCEPT ![t] = gen[t]] /\ msg' = [msg EXCEPT ![t] = msg[t]]
        /\ gen[t] \in GenRow /\ msg[t] \in MsgRow /\ Paid(gen[t])
        /\ Len(buf[t].log) <= Len(z.log) /\ scan' \subseteq Turns
    BY <1>1, TurnFacts
  <2>4. faults' \in 0 .. MaxFaults /\ UNCHANGED <<conv, others, reader>>
    BY <1>1, FaultsBounded DEF NoFault
  <2>5. Moves(t, gen[t], msg[t], z)
    BY <1>1, <2>1, <2>2, <2>3, <2>4 DEF Moves
  <2>. QED  BY <2>5, TurnStep
<1>2. ASSUME NEW t \in Turns, Expire(t)
      PROVE  ChatInv'
  <2>. DEFINE z == [buf[t] EXCEPT !.ttl = "gone"]
  <2>1. buf[t] \in BufRow /\ buf[t].ttl = "live"
    BY <1>2, TurnFacts DEF Expire, Exists
  <2>2. z \in BufRow /\ z.log = buf[t].log /\ z.ttl = "gone"
    BY <2>1 DEF BufRow
  <2>3. buf' = [buf EXCEPT ![t] = z]
    BY <1>2 DEF Expire
  <2>. HIDE DEF z
  <2>. QED  BY <2>1, <2>2, <2>3, <1>1, <1>2 DEF Expire
<1>3. CASE Stop
  <2>. DEFINE t == Followed
              z == [buf[t] EXCEPT !.stop = TRUE]
  <2>1. t \in Turns /\ buf[t] \in BufRow
    BY Constants, TurnFacts
  <2>2. z \in BufRow /\ z.log = buf[t].log /\ z.ttl = buf[t].ttl
    BY <2>1 DEF BufRow
  <2>3. buf' = [buf EXCEPT ![t] = z]
    BY <1>3 DEF Stop
  <2>. HIDE DEF z
  <2>. QED  BY <2>1, <2>2, <2>3, <1>1, <1>3 DEF Stop
<1>. QED  BY <1>2, <1>3

-----------------------------------------------------------------------------
(* The reader                                                              *)

LEMMA ReaderStep ==
  ASSUME ChatInv, NEW r, reader' = r, Sound(r, Log),
         UNCHANGED <<conv, msg, gen, buf, streams, scan, faults, others>>
  PROVE  ChatInv'
BY DEF ChatInv, Types, TurnsInv, ReaderInv, CounterInv, Holders, Log

LEMMA ReaderFacts ==
  ASSUME ChatInv
  PROVE  Sound(reader, Log) /\ reader \in ReaderRow /\ Log \in Seq(Kinds) /\ Len(Log) \in Nat
         /\ MaxRetries \in Nat
<1>1. Log \in Seq(Kinds)
  BY Constants DEF ChatInv, Types, BufRow, Log
<1>2. Len(Log) \in Nat
  BY <1>1
<1>3. Sound(reader, Log)
  BY DEF ChatInv, ReaderInv, Log
<1>4. reader \in ReaderRow
  BY <1>3 DEF Sound
<1>. QED  BY <1>1, <1>2, <1>3, <1>4, Constants

(* A broken connection loses what was on the wire, not what was received.  *)
LEMMA RetriedSound ==
  ASSUME ChatInv
  PROVE  Sound(Retried(reader), Log)
<1>1. Sound(reader, Log) /\ reader \in ReaderRow /\ MaxRetries \in Nat
  BY ReaderFacts
<1>2. <<>> \in Seq(Nat)
  OBVIOUS
<1>3. CASE reader.tries < MaxRetries
  <2>. DEFINE n == reader.tries + 1
              r == [reader EXCEPT !.st = "connect", !.tries = n, !.wire = <<>>]
  <2>1. n \in 0 .. MaxRetries
    BY <1>1, <1>3 DEF ReaderRow
  <2>2. Retried(reader) = r
    BY <1>3 DEF Retried
  <2>. HIDE DEF n
  <2>3. r \in ReaderRow /\ r.st = "connect" /\ r.wire = <<>> /\ r.last = reader.last
        /\ r.pos = reader.pos /\ r.got = reader.got
    BY <1>1, <1>2, <2>1 DEF ReaderRow
  <2>. HIDE DEF r
  <2>. QED  BY <1>1, <2>2, <2>3 DEF Sound
<1>4. CASE ~(reader.tries < MaxRetries)
  <2>. DEFINE r == [reader EXCEPT !.st = "failed", !.wire = <<>>]
  <2>1. Retried(reader) = r
    BY <1>4 DEF Retried
  <2>2. r \in ReaderRow /\ r.st = "failed" /\ r.last = reader.last
        /\ r.pos = reader.pos /\ r.got = reader.got
    BY <1>1, <1>2 DEF ReaderRow
  <2>. HIDE DEF r
  <2>. QED  BY <1>1, <2>1, <2>2 DEF Sound
<1>. QED  BY <1>3, <1>4

LEMMA FollowKeeps ==
  ASSUME ChatInv, Follow
  PROVE  ChatInv'
<1>. DEFINE r == [reader EXCEPT !.st = "connect"]
<1>1. Sound(reader, Log) /\ reader \in ReaderRow /\ reader.st = "off"
  BY ReaderFacts DEF Follow
<1>2. r \in ReaderRow /\ r.st = "connect" /\ r.wire = reader.wire /\ r.last = reader.last
      /\ r.pos = reader.pos /\ r.got = reader.got
  BY <1>1 DEF ReaderRow
<1>3. reader' = r
  BY DEF Follow, Set
<1>. HIDE DEF r
<1>4. Sound(r, Log)
  BY <1>1, <1>2 DEF Sound
<1>. QED  BY <1>3, <1>4, ReaderStep DEF Follow

(* Last-Event-ID: a new connection starts after what was received.         *)
LEMMA ConnectKeeps ==
  ASSUME ChatInv, Connect
  PROVE  ChatInv'
<1>1. /\ Sound(reader, Log) /\ reader \in ReaderRow /\ reader.st = "connect"
      /\ Len(Log) \in Nat
  BY ReaderFacts DEF Connect
<1>2. \/ reader' = Retried(reader)
      \/ reader' = [reader EXCEPT !.st = "expired"]
      \/ reader' = [reader EXCEPT !.st = "open", !.pos = reader.last, !.misses = 0]
  BY DEF Connect, Set, ResumeFrom
<1>3. CASE reader' = Retried(reader)
  BY <1>3, RetriedSound, ReaderStep DEF Connect
<1>4. CASE reader' = [reader EXCEPT !.st = "expired"]
  <2>. DEFINE r == [reader EXCEPT !.st = "expired"]
  <2>1. r \in ReaderRow /\ r.st = "expired" /\ r.last = reader.last
        /\ r.pos = reader.pos /\ r.got = reader.got
    BY <1>1 DEF ReaderRow
  <2>2. reader' = r
    BY <1>4
  <2>. HIDE DEF r
  <2>3. Sound(r, Log)
    BY <1>1, <2>1 DEF Sound
  <2>. QED  BY <2>2, <2>3, ReaderStep DEF Connect
<1>5. CASE reader' = [reader EXCEPT !.st = "open", !.pos = reader.last, !.misses = 0]
  <2>. DEFINE r == [reader EXCEPT !.st = "open", !.pos = reader.last, !.misses = 0]
  <2>1. reader.wire = <<>> /\ reader.last \in Nat /\ reader.pos \in Nat /\ 0 \in 0 .. 2
        /\ reader.last <= reader.pos /\ reader.pos <= Len(Log)
    BY <1>1 DEF Sound, ReaderRow
  <2>2. r \in ReaderRow /\ r.st = "open" /\ r.wire = <<>> /\ r.last = reader.last
        /\ r.pos = reader.last /\ r.got = reader.got /\ r.misses = 0
    BY <1>1, <2>1 DEF ReaderRow
  <2>3. reader' = r
    BY <1>5
  <2>. HIDE DEF r
  <2>4. Len(<<>>) = 0
    OBVIOUS
  <2>5. Sound(r, Log)
    BY <1>1, <2>1, <2>2, <2>4 DEF Sound
  <2>. QED  BY <2>3, <2>5, ReaderStep DEF Connect
<1>. QED  BY <1>2, <1>3, <1>4, <1>5

(* XREAD: the batch starts after what was sent, and is not longer than     *)
(* what is there.                                                          *)
LEMMA PumpKeeps ==
  ASSUME ChatInv, Pump
  PROVE  ChatInv'
<1>. DEFINE new == {i \in (reader.pos + 1) .. Len(Log) :
                      \A k \in (reader.pos + 1) .. (i - 1) : Log[k] \notin Final}
            c == Cardinality(new)
            s == [i \in 1 .. c |-> reader.pos + i]
            w == reader.wire \o s
            p == reader.pos + c
            r == [reader EXCEPT !.wire = w, !.pos = p, !.misses = 0]
<1>1. /\ Sound(reader, Log) /\ reader \in ReaderRow /\ reader.st = "open"
      /\ Len(Log) \in Nat /\ reader.pos \in Nat /\ reader.last \in Nat
      /\ reader.wire \in Seq(Nat) /\ Len(reader.wire) \in Nat
  BY ReaderFacts DEF Pump, ReaderRow
<1>2. reader' = r
  BY DEF Pump, Set
<1>3. reader.last <= reader.pos /\ reader.pos <= Len(Log)
      /\ reader.pos = reader.last + Len(reader.wire)
  BY <1>1 DEF Sound
<1>4. c \in Nat /\ c <= Len(Log) - reader.pos
  <2>. DEFINE rest == (reader.pos + 1) .. Len(Log)
  <2>1. IsFiniteSet(rest) /\ Cardinality(rest) = Len(Log) - reader.pos
    <3>1. reader.pos + 1 \in Int /\ Len(Log) \in Int
      BY <1>1
    <3>2. IsFiniteSet(rest)
          /\ Cardinality(rest) = IF reader.pos + 1 > Len(Log) THEN 0
                                 ELSE Len(Log) - (reader.pos + 1) + 1
      BY <3>1, FS_Interval
    <3>. HIDE DEF rest
    <3>. QED  BY <1>1, <1>3, <3>2
  <2>2. new \subseteq rest
    OBVIOUS
  <2>. HIDE DEF new, rest
  <2>. QED  BY <2>1, <2>2, FS_Subset, FS_CardinalityType
<1>. HIDE DEF c
<1>5. s \in Seq(Nat) /\ Len(s) = c /\ \A i \in 1 .. c : s[i] = reader.pos + i
  BY <1>1, <1>4
<1>. HIDE DEF s
<1>6. /\ w \in Seq(Nat) /\ Len(w) = Len(reader.wire) + c
      /\ \A i \in 1 .. Len(reader.wire) + c :
           w[i] = IF i <= Len(reader.wire) THEN reader.wire[i] ELSE s[i - Len(reader.wire)]
  BY <1>1, <1>5, ConcatProperties
<1>. HIDE DEF w
<1>7. \A i \in 1 .. Len(w) : w[i] = reader.last + i
  <2>. SUFFICES ASSUME NEW i \in 1 .. Len(w) PROVE w[i] = reader.last + i
    OBVIOUS
  <2>1. CASE i <= Len(reader.wire)
    BY <1>1, <1>4, <1>6, <2>1 DEF Sound
  <2>2. CASE ~(i <= Len(reader.wire))
    <3>1. i - Len(reader.wire) \in 1 .. c
      BY <1>1, <1>4, <1>6, <2>2
    <3>2. w[i] = reader.pos + (i - Len(reader.wire))
      BY <1>1, <1>4, <1>5, <1>6, <2>2, <3>1
    <3>. QED  BY <1>1, <1>3, <1>4, <1>6, <3>2
  <2>. QED  BY <2>1, <2>2
<1>8. p \in Nat /\ p <= Len(Log) /\ reader.last <= p /\ p = reader.last + Len(w)
      /\ 0 \in 0 .. 2
  BY <1>1, <1>3, <1>4, <1>6
<1>. HIDE DEF p
<1>9. r \in ReaderRow /\ r.st = "open" /\ r.wire = w /\ r.last = reader.last /\ r.pos = p
      /\ r.got = reader.got /\ r.misses = 0
  BY <1>1, <1>6, <1>8 DEF ReaderRow
<1>. HIDE DEF r
<1>10. Sound(r, Log)
  BY <1>1, <1>7, <1>8, <1>9 DEF Sound
<1>. QED  BY <1>2, <1>10, ReaderStep DEF Pump

(* The next event on the wire has the next number.                         *)
LEMMA ReceiveKeeps ==
  ASSUME ChatInv, Receive
  PROVE  ChatInv'
<1>. DEFINE n == Head(reader.wire)
            w == Tail(reader.wire)
            g == Append(reader.got, n)
            st == IF Log[n] \in Final THEN Log[n] ELSE "open"
            r == [reader EXCEPT !.wire = w, !.last = n, !.got = g, !.tries = 0, !.st = st]
<1>1. /\ Sound(reader, Log) /\ reader \in ReaderRow /\ reader.st = "open"
      /\ Len(Log) \in Nat /\ reader.pos \in Nat /\ reader.last \in Nat
      /\ reader.wire \in Seq(Nat) /\ Len(reader.wire) \in Nat /\ reader.wire # <<>>
      /\ reader.got \in Seq(Nat) /\ MaxRetries \in Nat
  BY ReaderFacts DEF Receive, ReaderRow
<1>2. reader' = r
  BY DEF Receive, Set
<1>3. /\ reader.last <= reader.pos /\ reader.pos <= Len(Log)
      /\ reader.pos = reader.last + Len(reader.wire) /\ reader.last = Len(reader.got)
      /\ reader.misses <= 1
  BY <1>1 DEF Sound
<1>4. Len(reader.wire) >= 1 /\ n = reader.wire[1]
  BY <1>1
<1>5. n = reader.last + 1 /\ n \in Nat
  BY <1>1, <1>4 DEF Sound
<1>6. w \in Seq(Nat) /\ Len(w) = Len(reader.wire) - 1
      /\ \A i \in 1 .. Len(w) : w[i] = reader.wire[i + 1]
  BY <1>1, HeadTailProperties
<1>7. g \in Seq(Nat) /\ Len(g) = Len(reader.got) + 1 /\ g[Len(reader.got) + 1] = n
      /\ \A i \in 1 .. Len(reader.got) : g[i] = reader.got[i]
  BY <1>1, <1>5, AppendProperties
<1>8. st \in {"done", "error", "open"}
  BY DEF Final
<1>. HIDE DEF n, w, g, st
<1>9. r \in ReaderRow /\ r.st = st /\ r.wire = w /\ r.last = n /\ r.pos = reader.pos
      /\ r.got = g /\ r.misses = reader.misses
  <2>1. 0 \in 0 .. MaxRetries
    BY <1>1
  <2>. QED  BY <1>1, <1>5, <1>6, <1>7, <1>8, <2>1 DEF ReaderRow
<1>10. \A i \in 1 .. Len(g) : g[i] = i
  <2>1. \A i \in 1 .. Len(reader.got) : reader.got[i] = i
    BY <1>1 DEF Sound
  <2>2. Len(reader.got) \in Nat
    BY <1>1, <1>3
  <2>. SUFFICES ASSUME NEW i \in 1 .. Len(g) PROVE g[i] = i
    OBVIOUS
  <2>3. i \in 1 .. Len(reader.got) \/ i = Len(reader.got) + 1
    BY <1>7, <2>2
  <2>4. CASE i \in 1 .. Len(reader.got)
    BY <1>7, <2>1, <2>4
  <2>5. CASE i = Len(reader.got) + 1
    BY <1>3, <1>5, <1>7, <2>5
  <2>. QED  BY <2>3, <2>4, <2>5
<1>11. \A i \in 1 .. Len(w) : w[i] = n + i
  <2>1. \A i \in 1 .. Len(reader.wire) : reader.wire[i] = reader.last + i
    BY <1>1 DEF Sound
  <2>2. \A i \in 1 .. Len(w) : i \in Nat /\ i + 1 \in 1 .. Len(reader.wire)
    BY <1>1, <1>6
  <2>. SUFFICES ASSUME NEW i \in 1 .. Len(w) PROVE w[i] = n + i
    OBVIOUS
  <2>3. w[i] = reader.last + (i + 1)
    BY <1>6, <2>1, <2>2
  <2>4. reader.last + (i + 1) = (reader.last + 1) + i
    <3>1. \A a, b \in Nat : a + (b + 1) = (a + 1) + b
      OBVIOUS
    <3>2. reader.last \in Nat /\ i \in Nat
      BY <1>1, <2>2
    <3>. QED  BY <3>1, <3>2
  <2>. QED  BY <1>5, <2>3, <2>4
<1>12. n = Len(g) /\ n <= reader.pos /\ reader.pos = n + Len(w)
  <2>1. n = Len(g)
    BY <1>3, <1>5, <1>7
  <2>2. reader.last + Len(reader.wire) = (reader.last + 1) + (Len(reader.wire) - 1)
        /\ reader.last + 1 <= reader.last + Len(reader.wire)
    <3>1. \A a, b \in Nat : b >= 1 => a + b = (a + 1) + (b - 1) /\ a + 1 <= a + b
      OBVIOUS
    <3>2. reader.last \in Nat /\ Len(reader.wire) \in Nat
      BY <1>1
    <3>. QED  BY <1>4, <3>1, <3>2
  <2>. QED  BY <1>3, <1>5, <1>6, <2>1, <2>2
<1>. HIDE DEF r
<1>13. Sound(r, Log)
  BY <1>3, <1>8, <1>9, <1>10, <1>11, <1>12 DEF Sound
<1>. QED  BY <1>2, <1>13, ReaderStep DEF Receive

LEMMA MissKeeps ==
  ASSUME ChatInv, Miss
  PROVE  ChatInv'
<1>. DEFINE m == reader.misses + 1
            st == IF reader.misses = 1 THEN "gaveup" ELSE "open"
            r == [reader EXCEPT !.misses = m, !.st = st]
<1>1. /\ Sound(reader, Log) /\ reader \in ReaderRow /\ reader.st = "open"
  BY ReaderFacts DEF Miss
<1>2. reader.misses \in 0 .. 2 /\ reader.misses <= 1
  BY <1>1 DEF Sound, ReaderRow
<1>3. m \in 0 .. 2 /\ st \in {"gaveup", "open"} /\ (st = "open" => m <= 1)
  BY <1>2
<1>4. reader' = r
  BY DEF Miss, Set
<1>. HIDE DEF m, st
<1>5. r \in ReaderRow /\ r.st = st /\ r.misses = m /\ r.wire = reader.wire
      /\ r.last = reader.last /\ r.pos = reader.pos /\ r.got = reader.got
  BY <1>1, <1>3 DEF ReaderRow
<1>. HIDE DEF r
<1>6. Sound(r, Log)
  BY <1>1, <1>3, <1>5 DEF Sound
<1>. QED  BY <1>4, <1>6, ReaderStep DEF Miss

LEMMA DropKeeps ==
  ASSUME ChatInv, Drop
  PROVE  ChatInv'
BY RetriedSound, ReaderStep DEF Drop, Set

-----------------------------------------------------------------------------
(* The invariant                                                           *)

LEMMA ChatInvInit == Init => ChatInv
<1>. SUFFICES ASSUME Init PROVE ChatInv
  OBVIOUS
<1>. DEFINE g0 == NoTurn
            m0 == [status |-> "none", len |-> 0]
            b0 == [log |-> <<>>, ttl |-> "none", stop |-> FALSE]
<1>1. g0 \in GenRow /\ m0 \in MsgRow /\ b0 \in BufRow
  <2>1. "none" \in Pcs /\ Failed \in Outs /\ <<>> \in Seq(Kinds)
    BY DEF Pcs, Outs
  <2>. QED  BY <2>1 DEF NoTurn, GenRow, MsgRow, BufRow
<1>2. g0.pc = "none" /\ g0.got = 0 /\ g0.settled = 0 /\ ~g0.cancelled
  BY DEF NoTurn
<1>3. gen = [t \in Turns |-> g0] /\ msg = [t \in Turns |-> m0] /\ buf = [t \in Turns |-> b0]
  BY DEF Init
<1>4. Types
  BY <1>1, <1>3, Constants DEF Init, Types
<1>5. TurnsInv
  <2>1. "none" \notin Background \union Request \union Recorded \union {"persist", "settle"}
    BY DEF Background, Producing, Wrapping, Request, Recorded
  <2>2. Producing \subseteq Background
    BY DEF Background
  <2>3. Paid(g0)
    BY <1>2, <2>1, <2>2 DEF Paid, Once
  <2>4. ~Closed(b0.log) /\ ~Says(b0.log, "done") /\ Cardinality(Words(b0.log)) = 0
    <3>1. Words(<<>>) = {}
      BY DEF Words
    <3>. QED  BY <3>1, FS_EmptySet DEF Says, Closed
  <2>5. \A t \in Turns : Whole(t, g0, m0, b0)
    <3>. SUFFICES ASSUME NEW t \in Turns PROVE Whole(t, g0, m0, b0)
      OBVIOUS
    <3>1. 0 \in 0 .. Deltas[t]
      BY Constants
    <3>2. m0.len = 0 /\ b0.log = <<>> /\ b0.ttl = "none"
      OBVIOUS
    <3>. HIDE DEF g0, m0, b0
    <3>3. g0.pc \notin Wrapping \union {"stream", "bill", "word"}
      BY <1>2 DEF Wrapping
    <3>4. Spoken(g0, b0)
      BY <1>2, <2>4, <3>3 DEF Spoken
    <3>. QED  BY <1>2, <2>1, <2>4, <3>1, <3>2, <3>4 DEF Whole
  <2>. HIDE DEF g0, m0, b0
  <2>. QED  BY <1>3, <2>3, <2>5 DEF TurnsInv
<1>6. ReaderInv
  <2>1. <<>> \in Seq(Nat) /\ Len(<<>>) = 0 /\ 0 \in 0 .. MaxRetries
    BY Constants
  <2>2. buf[Followed].log = <<>>
    BY <1>3, Constants
  <2>. QED  BY <2>1, <2>2 DEF Init, ReaderInv, Sound, ReaderRow
<1>7. CounterInv
  <2>1. Holders = {}
    BY <1>2, <1>3 DEF Holders, Held, Holding, Background, Producing, Wrapping
  <2>2. Cardinality(Holders) = 0
    BY <2>1, FS_EmptySet
  <2>. QED  BY <2>2, Constants DEF Init, CounterInv
<1>. QED  BY <1>4, <1>5, <1>6, <1>7 DEF ChatInv

LEMMA ChatInvNext == ChatInv /\ [Next]_vars => ChatInv'
<1>. SUFFICES ASSUME ChatInv, [Next]_vars PROVE ChatInv'
  OBVIOUS
<1>1. ASSUME UNCHANGED <<msg, gen, buf, streams, reader, faults, others>>,
             conv' \in {"live", "deleted"}, scan' \subseteq Turns
      PROVE  ChatInv'
  BY <1>1 DEF ChatInv, Types, TurnsInv, ReaderInv, CounterInv, Holders
<1>2. ASSUME NEW t \in Turns, Ask(t) \/ Reserve(t) \/ Create(t) \/ Spawn(t)
      PROVE  ChatInv'
  BY <1>2, AskKeeps, ReserveKeeps, CreateKeeps, SpawnKeeps
<1>3. ASSUME NEW t \in Turns, Produce(t) \/ ErrorDelta(t)
      PROVE  ChatInv'
  BY <1>3, TellKeeps, DeltaKeeps, LeaveKeeps DEF Produce
<1>4. ASSUME NEW t \in Turns, Wrap(t) \/ Raise(t) \/ Degrade(t) \/ Die(t)
      PROVE  ChatInv'
  BY <1>4, PersistKeeps, SettleKeeps, TellKeeps, OverKeeps DEF Wrap
<1>5. ASSUME NEW t \in Turns, Cancel(t) \/ Expire(t) \/ RescueMark(t)
      PROVE  ChatInv'
  BY <1>5, CancelKeeps, FlagKeeps, RescueKeeps
<1>6. CASE RescueList
  <2>1. scan' \subseteq Turns /\ conv' \in {"live", "deleted"}
    BY <1>6 DEF RescueList, Stuck, ChatInv, Types
  <2>. QED  BY <1>1, <1>6, <2>1 DEF RescueList
<1>7. CASE Delete
  BY <1>1, <1>7 DEF Delete, ChatInv, Types
<1>8. CASE Stop \/ Follow \/ Read \/ Drop
  BY <1>8, FlagKeeps, FollowKeeps, ConnectKeeps, PumpKeeps, ReceiveKeeps, MissKeeps, DropKeeps
     DEF Read
<1>9. CASE UNCHANGED vars
  BY <1>1, <1>9 DEF vars, ChatInv, Types
<1>. QED  BY <1>2, <1>3, <1>4, <1>5, <1>6, <1>7, <1>8, <1>9 DEF Next

LEMMA ChatInvariant == Spec => []ChatInv
BY ChatInvInit, ChatInvNext, PTL DEF Spec

(* Rows, executions, streams and the client stay within the values the     *)
(* code can give them; in particular no turn is settled a third time and   *)
(* the tenant's counter does not pass its limit.                           *)
THEOREM ChatTypes == Spec => []TypeOK
<1>1. ChatInv => TypeOK
  <2>. SUFFICES ASSUME ChatInv PROVE TypeOK
    OBVIOUS
  <2>1. ASSUME NEW t \in Turns
        PROVE  /\ msg[t].status \in Ended \union {"none", "streaming"}
               /\ msg[t].len \in 0 .. Deltas[t]
               /\ gen[t].pc \in Request \union Background
                                  \union {"none", "refused", "ended", "dead"}
               /\ gen[t].got \in 0 .. Deltas[t] /\ gen[t].settled \in 0 .. 2
               /\ gen[t].out \in {Completed, Stopped, Interrupted, Failed}
               /\ gen[t].pc \in Background => msg[t].status # "none"
               /\ buf[t].ttl = "none" <=> buf[t].log = <<>>
               /\ \A i \in DOMAIN buf[t].log : buf[t].log[i] \in Kinds
    <3>1. /\ gen[t] \in GenRow /\ msg[t] \in MsgRow /\ buf[t] \in BufRow
          /\ Whole(t, gen[t], msg[t], buf[t]) /\ Paid(gen[t])
      BY TurnFacts
    <3>2. gen[t].settled \in 0 .. 2
      BY <3>1 DEF Paid, Once, GenRow
    <3>3. \A i \in DOMAIN buf[t].log : buf[t].log[i] \in Kinds
      BY <3>1 DEF BufRow
    <3>4. msg[t].status \in Ended \union {"none", "streaming"} /\ gen[t].pc \in Pcs
          /\ gen[t].out \in Outs
      BY <3>1 DEF GenRow, MsgRow
    <3>5. /\ msg[t].len \in 0 .. Deltas[t] /\ gen[t].got \in 0 .. Deltas[t]
          /\ gen[t].pc \in Background => msg[t].status # "none"
          /\ buf[t].ttl = "none" <=> buf[t].log = <<>>
      BY <3>1 DEF Whole
    <3>. QED  BY <3>2, <3>3, <3>4, <3>5 DEF Pcs, Outs
  <2>2. /\ reader.pos \in 0 .. Len(buf[Followed].log) /\ reader.last <= reader.pos
        /\ reader.misses \in 0 .. 2 /\ reader.tries \in 0 .. MaxRetries
    BY ReaderFacts DEF Sound, ReaderRow, Log
  <2>3. conv \in {"live", "deleted"} /\ scan \subseteq Turns /\ faults \in 0 .. MaxFaults
        /\ streams \in 0 .. StreamLimit
    BY DEF ChatInv, Types, CounterInv
  <2>. QED  BY <2>1, <2>2, <2>3 DEF TypeOK
<1>. QED  BY <1>1, ChatInvariant, PTL

(* ChatService._complete and _fail write the row before the last event,    *)
(* and nothing that comes later takes back its end or its words: the row   *)
(* has every word of the stream, with the one whose XADD did not return at *)
(* the most, and exactly those words when the answer ended with done.      *)
THEOREM FinalEventsArePersisted == Spec => []FinalEventIsPersisted
<1>1. ChatInv => FinalEventIsPersisted
  <2>. SUFFICES ASSUME ChatInv, NEW t \in Turns,
                       Told(t, "done") \union Told(t, "error") # {}
                PROVE  LET words == Cardinality(Told(t, "delta")) IN
                       /\ msg[t].status \in Ended /\ msg[t].len \in {words, words + 1}
                       /\ Told(t, "done") # {} => msg[t].len = words
    BY DEF FinalEventIsPersisted
  <2>1. Whole(t, gen[t], msg[t], buf[t])
    BY TurnFacts
  <2>2. Told(t, "delta") = Words(buf[t].log)
    BY DEF Told, Words
  <2>3. /\ Told(t, "done") # {} <=> Says(buf[t].log, "done")
        /\ Told(t, "error") # {} <=> Says(buf[t].log, "error")
    BY DEF Told, Says
  <2>. QED  BY <2>1, <2>2, <2>3 DEF Whole, Spoken, Closed
<1>. QED  BY <1>1, ChatInvariant, PTL

(* Last-Event-ID and XREAD: over any number of connections, broken         *)
(* anywhere, the client has the events 1, 2, ... and each of them once.    *)
THEOREM EventsOnce == Spec => []EventsArriveOnce
<1>1. ChatInv => EventsArriveOnce
  <2>. SUFFICES ASSUME ChatInv PROVE EventsArriveOnce
    OBVIOUS
  <2>1. reader.got \in Seq(Nat) /\ \A i \in 1 .. Len(reader.got) : reader.got[i] = i
    BY DEF ChatInv, ReaderInv, Sound, ReaderRow
  <2>. QED  BY <2>1 DEF EventsArriveOnce
<1>. QED  BY <1>1, ChatInvariant, PTL

(* TurnBudget: whichever exception, cancellation or crash ends a turn, its *)
(* slot is counted exactly while it is held and its tokens are settled     *)
(* once, a second time only by the handler of a cancellation.              *)
THEOREM TurnsSettle == Spec => []TurnsAreSettled
<1>1. ChatInv => TurnsAreSettled
  <2>. SUFFICES ASSUME ChatInv PROVE TurnsAreSettled
    OBVIOUS
  <2>1. SlotsAreReturned
    BY DEF SlotsAreReturned, ChatInv, CounterInv, Holders, Held
  <2>2. SettledOnce
    BY TurnFacts DEF SettledOnce, Paid, Once, GenRow
  <2>. QED  BY <2>1, <2>2 DEF TurnsAreSettled
<1>. QED  BY <1>1, ChatInvariant, PTL
=============================================================================
