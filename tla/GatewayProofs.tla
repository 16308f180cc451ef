--------------------------- MODULE GatewayProofs ---------------------------
(***************************************************************************)
(* The gateway implements DeltaStream, for every number of models,         *)
(* attempts and pieces of text.                                            *)
(***************************************************************************)
EXTENDS Gateway, TLAPS, FiniteSetTheorems, SequenceTheorems

GatewaySpec == GatewayInit /\ [][GatewayNext]_gatewayVars

Places == [model : Nat, try : Nat]
Pieces == [kind : {"text", "tool", "usage", "done", "error"}, from : Places]

(* How many usages, ends and errors the caller has got.                    *)
Tally(u, d, e) == CountOf("usage") = u /\ CountOf("done") = d /\ CountOf("error") = e

(* What the adapter still holds back of a whole answer.                    *)
Held ==
  IF counted THEN queue = <<Part("done")>>
  ELSE queue \in {<<Part("done")>>, <<Part("usage"), Part("done")>>,
                  <<Part("tool"), Part("done")>>, <<Part("tool"), Part("usage"), Part("done")>>}

StreamTypes ==
  /\ phase \in {"build", "misconfigured", "try", "read", "flush", "tail", "done", "raised", "left"}
  /\ at \in Places /\ out \in Seq(Pieces) /\ counted \in BOOLEAN

(* What the caller has got, in each phase, and what is still to come.      *)
StreamPhases ==
  /\ phase \in {"build", "misconfigured", "try", "raised"} => out = <<>> /\ ~counted
  /\ phase = "read" => ~counted /\ Tally(0, 0, 0)
  /\ phase = "flush" => Held /\ Tally(IF counted THEN 1 ELSE 0, 0, 0)
  /\ phase = "tail" => \/ queue = <<Part("usage"), Part("error")>> /\ Tally(0, 0, 0)
                       \/ queue = <<Part("error")>> /\ Tally(1, 0, 0)
  /\ phase = "done" => Tally(1, 1, 0) \/ Tally(1, 0, 1)

StreamInv == ask \in {"chat", "embed"} /\ (ask = "chat" => StreamTypes /\ StreamPhases)

-----------------------------------------------------------------------------
(* Counting the pieces of a kind.                                          *)

Number(s, k) == Cardinality({i \in 1 .. Len(s) : s[i].kind = k})

(* None in an empty sequence.                                              *)
LEMMA NumberOfNone == ASSUME NEW k PROVE Number(<<>>, k) = 0
<1>1. {i \in 1 .. Len(<<>>) : <<>>[i].kind = k} = {}
  OBVIOUS
<1>. QED  BY <1>1, FS_EmptySet DEF Number

(* A number, of a finite set.                                              *)
LEMMA NumberType ==
  ASSUME NEW s \in Seq(Pieces), NEW k
  PROVE  /\ Number(s, k) \in Nat
         /\ IsFiniteSet({i \in 1 .. Len(s) : s[i].kind = k})
<1>1. IsFiniteSet(1 .. Len(s))
  BY FS_Interval
<1>. QED  BY <1>1, FS_Subset, FS_CardinalityType DEF Number

(* One more when the piece that is appended has the kind.                  *)
LEMMA NumberOfMore ==
  ASSUME NEW s \in Seq(Pieces), NEW p \in Pieces, NEW k
  PROVE  Number(Append(s, p), k) = IF p.kind = k THEN Number(s, k) + 1 ELSE Number(s, k)
<1>. DEFINE T == {i \in 1 .. Len(s) : s[i].kind = k}
            U == {i \in 1 .. Len(Append(s, p)) : Append(s, p)[i].kind = k}
<1>1. IsFiniteSet(T)
  BY NumberType
<1>. Len(s) + 1 \notin T
  OBVIOUS
<1>2. U = IF p.kind = k THEN T \cup {Len(s) + 1} ELSE T
  OBVIOUS
<1>3. Cardinality(T \cup {Len(s) + 1}) = Cardinality(T) + 1
  BY <1>1, FS_AddElement
<1>. QED  BY <1>2, <1>3 DEF Number

(* Two pieces put together one by one.                                     *)
LEMMA TwoPieces ==
  ASSUME NEW p \in Pieces, NEW q \in Pieces
  PROVE  <<p>> \o <<q>> = <<p, q>>
<1>1. <<p>> \o <<q>> \in Seq(Pieces) /\ <<p, q>> \in Seq(Pieces)
  OBVIOUS
<1>2. Len(<<p>> \o <<q>>) = 2 /\ Len(<<p, q>>) = 2
  OBVIOUS
<1>3. (<<p>> \o <<q>>)[1] = <<p, q>>[1] /\ (<<p>> \o <<q>>)[2] = <<p, q>>[2]
  OBVIOUS
<1>4. \A i \in 1 .. Len(<<p>> \o <<q>>) : (<<p>> \o <<q>>)[i] = <<p, q>>[i]
  BY <1>2, <1>3
<1>. QED  BY <1>1, <1>2, <1>4, SeqEqual

(* Three pieces put together one by one.                                   *)
LEMMA ThreePieces ==
  ASSUME NEW p \in Pieces, NEW q \in Pieces, NEW r \in Pieces
  PROVE  <<p>> \o <<q>> \o <<r>> = <<p, q, r>>
<1>. DEFINE s == <<p, q>> \o <<r>>
<1>1. s \in Seq(Pieces) /\ <<p, q, r>> \in Seq(Pieces)
  OBVIOUS
<1>2. Len(s) = 3 /\ Len(<<p, q, r>>) = 3
  OBVIOUS
<1>3. s[1] = p /\ s[2] = q /\ s[3] = r
  OBVIOUS
<1>4. \A i \in 1 .. Len(s) : s[i] = <<p, q, r>>[i]
  BY <1>2, <1>3
<1>5. s = <<p, q, r>>
  <2>. HIDE DEF s
  <2>. QED  BY <1>1, <1>2, <1>4, SeqEqual
<1>. QED  BY <1>5, TwoPieces

(* Handing over the first of the pieces that are ready.                    *)
LEMMA FirstOfTwo ==
  ASSUME NEW p \in Pieces, NEW q \in Pieces
  PROVE  Head(<<p, q>>) = p /\ Tail(<<p, q>>) = <<q>>
OBVIOUS

(* The same when three are ready.                                          *)
LEMMA FirstOfThree ==
  ASSUME NEW p \in Pieces, NEW q \in Pieces, NEW r \in Pieces
  PROVE  Head(<<p, q, r>>) = p /\ Tail(<<p, q, r>>) = <<q, r>>
OBVIOUS

(* What the caller has got after one more piece, in the terms of the       *)
(* invariant and of the promise.                                           *)
LEMMA HandedOver ==
  ASSUME StreamTypes, NEW p \in Pieces, out' = Append(out, p)
  PROVE  /\ out' \in Seq(Pieces)
         /\ \A k : CountOf(k) \in Nat
         /\ \A k : CountOf(k)' = IF p.kind = k THEN CountOf(k) + 1 ELSE CountOf(k)
<1>1. out \in Seq(Pieces)
  BY DEF StreamTypes
<1>2. \A k : CountOf(k) \in Nat
  BY <1>1, NumberType DEF CountOf, Number
<1>3. ASSUME NEW k PROVE CountOf(k)' = IF p.kind = k THEN CountOf(k) + 1 ELSE CountOf(k)
  <2>1. CountOf(k) = Number(out, k) /\ CountOf(k)' = Number(Append(out, p), k)
    BY DEF CountOf, Number
  <2>. QED  BY <1>1, <2>1, NumberOfMore
<1>. QED  BY <1>1, <1>2, <1>3

(* When nothing is handed over, nothing more is counted.                   *)
LEMMA NothingNew ==
  ASSUME out' = out
  PROVE  \A k : CountOf(k)' = CountOf(k)
BY DEF CountOf

(* Before the first piece every count is 0.                                *)
LEMMA NothingYet ==
  ASSUME out = <<>>
  PROVE  \A k : CountOf(k) = 0
BY NumberOfNone DEF CountOf, Number

(* Every count is a number.                                                *)
LEMMA CountType ==
  ASSUME StreamTypes
  PROVE  \A k : CountOf(k) \in Nat
BY NumberType DEF StreamTypes, CountOf, Number

(* A piece made now is a piece, of its kind.                               *)
LEMMA PartType ==
  ASSUME StreamTypes, NEW k \in {"text", "tool", "usage", "done", "error"}
  PROVE  Part(k) \in Pieces /\ Part(k).kind = k
BY DEF StreamTypes, Part, Pieces

(* A failure ends the attempt: before the first piece in a refusal or in   *)
(* another attempt, afterwards in the tail of a broken stream.             *)
LEMMA RaiseKeeps ==
  ASSUME StreamInv, ask = "chat", phase \in {"try", "read", "flush"}, NEW e, Raise(e),
         UNCHANGED <<ask, out, counted>>
  PROVE  /\ StreamInv'
         /\ Said' = Said
         /\ \/ Ending' = Ending
            \/ Ending = "open" /\ Said = 0 /\ Ending' = "refused"
<1>. StreamTypes /\ StreamPhases
  BY DEF StreamInv
<1>1. (\A k : CountOf(k)' = CountOf(k)) /\ (\A k : CountOf(k) \in Nat)
  BY NothingNew, CountType
<1>2. CASE Over
  <2>1. phase' = "tail" /\ queue' = ErrorTail /\ at' = at
    BY <1>2 DEF Raise
  <2>2. phase # "try"
    BY <1>2 DEF StreamPhases, Over, Started
  <2>3. Tally(IF counted THEN 1 ELSE 0, 0, 0) /\ counted \in BOOLEAN
    BY <2>2 DEF StreamPhases, StreamTypes
  <2>4. ErrorTail = IF counted THEN <<Part("error")>> ELSE <<Part("usage"), Part("error")>>
    <3>1. Part("usage") \in Pieces /\ Part("error") \in Pieces
      BY PartType
    <3>2. CASE counted
      BY <3>1, <3>2 DEF ErrorTail
    <3>3. CASE ~counted
      BY <3>1, <3>3, TwoPieces DEF ErrorTail
    <3>. QED  BY <3>2, <3>3
  <2>5. \A k : Part(k)' = Part(k)
    BY <2>1 DEF Part
  <2>6. StreamInv'
    BY <1>1, <2>1, <2>3, <2>4, <2>5 DEF StreamInv, StreamTypes, StreamPhases, Tally
  <2>. QED  BY <1>1, <2>1, <2>6 DEF Said, Ending
<1>3. CASE ~Over
  <2>1. out = <<>> /\ \A k : CountOf(k) = 0
    BY <1>3, NothingYet DEF Over, Started
  <2>2. ~counted
    BY <2>1 DEF StreamPhases, StreamTypes, Tally
  <2>3. phase' \in {"raised", "try"} /\ (at' = at \/ at' = NextTry)
    BY <1>3 DEF Raise
  <2>4. at' \in Places
    BY <2>3 DEF StreamTypes, NextTry, Places
  <2>5. StreamInv'
    BY <1>1, <2>1, <2>2, <2>3, <2>4 DEF StreamInv, StreamTypes, StreamPhases
  <2>6. Said = 0 /\ Ending = "open"
    BY <2>1 DEF Said, Ending
  <2>7. Said' = 0 /\ Ending' = IF phase' = "raised" THEN "refused" ELSE "open"
    BY <1>1, <2>1, <2>3 DEF Said, Ending
  <2>. QED  BY <2>3, <2>5, <2>6, <2>7
<1>. QED  BY <1>2, <1>3

(* Where the promise stands does not change when nothing is handed over.   *)
LEMMA NothingHanded ==
  ASSUME ask = "chat", UNCHANGED <<ask, out>>,
         phase \notin {"raised", "left"}, phase' \notin {"raised", "left"}
  PROVE  Said' = Said /\ Ending' = Ending
<1>1. \A k : CountOf(k)' = CountOf(k)
  BY NothingNew
<1>. QED  BY <1>1 DEF Said, Ending

(* What the adapter kept of a whole answer.                                *)
LEMMA KeptIsHeld ==
  ASSUME StreamTypes
  PROVE  Kept \in {<<Part("done")>>, <<Part("usage"), Part("done")>>,
                   <<Part("tool"), Part("done")>>, <<Part("tool"), Part("usage"), Part("done")>>}
<1>1. Part("tool") \in Pieces /\ Part("usage") \in Pieces /\ Part("done") \in Pieces
  BY PartType
<1>. DEFINE a == Part("tool")
            b == Part("usage")
            c == Part("done")
<1>. HIDE DEF a, b, c
<1>2. a \in Pieces /\ b \in Pieces /\ c \in Pieces
  BY <1>1 DEF a, b, c
<1>3. <<a>> \o <<b>> \o <<c>> = <<a, b, c>>
  BY <1>2, ThreePieces
<1>4. <<a>> \o <<>> \o <<c>> = <<a, c>>
  <2>1. <<a>> \o <<>> = <<a>>
    BY <1>2
  <2>. QED  BY <1>2, <2>1, TwoPieces
<1>5. <<>> \o <<b>> \o <<c>> = <<b, c>>
  <2>1. <<>> \o <<b>> = <<b>>
    BY <1>2
  <2>. QED  BY <1>2, <2>1, TwoPieces
<1>6. <<>> \o <<>> \o <<c>> = <<c>>
  <2>1. <<>> \o <<>> = <<>>
    OBVIOUS
  <2>. QED  BY <1>2, <2>1
<1>7. Kept = (IF wire.tool THEN <<a>> ELSE <<>>) \o (IF wire.usage THEN <<b>> ELSE <<>>) \o <<c>>
  BY DEF Kept, a, b, c
<1>8. Kept \in {<<c>>, <<b, c>>, <<a, c>>, <<a, b, c>>}
  <2>1. CASE wire.tool /\ wire.usage
    BY <1>3, <1>7, <2>1
  <2>2. CASE wire.tool /\ ~wire.usage
    BY <1>4, <1>7, <2>2
  <2>3. CASE ~wire.tool /\ wire.usage
    BY <1>5, <1>7, <2>3
  <2>4. CASE ~wire.tool /\ ~wire.usage
    BY <1>6, <1>7, <2>4
  <2>. QED  BY <2>1, <2>2, <2>3, <2>4
<1>. QED  BY <1>8 DEF a, b, c

-----------------------------------------------------------------------------
(* One step: the invariant stays, and the promise makes a step or none.    *)
PromisedStep == [Promise!Next]_<<Said, Ending>>

(* Before anything was handed over: the settings, the call, its failures.  *)
LEMMA BuildKeeps ==
  ASSUME StreamInv, ask = "chat", Build
  PROVE  StreamInv' /\ PromisedStep
<1>1. StreamTypes /\ StreamPhases /\ out = <<>> /\ ~counted
  BY DEF StreamInv, StreamPhases, Build
<1>2. phase = "build" /\ phase' \in {"try", "misconfigured"} /\ UNCHANGED <<ask, at, counted, out>>
  BY DEF Build
<1>3. StreamInv'
  BY <1>1, <1>2 DEF StreamInv, StreamTypes, StreamPhases
<1>4. Said' = Said /\ Ending' = Ending
  BY <1>2, NothingHanded
<1>. QED  BY <1>3, <1>4 DEF PromisedStep

(* stream_chat: the provider accepts an attempt.                           *)
LEMMA OpenKeeps ==
  ASSUME StreamInv, ask = "chat", Open
  PROVE  StreamInv' /\ PromisedStep
<1>1. StreamTypes /\ out = <<>> /\ ~counted
  BY DEF StreamInv, StreamPhases, Open
<1>2. phase = "try" /\ phase' = "read" /\ UNCHANGED <<ask, at, counted, out>>
  BY DEF Open
<1>3. \A k : CountOf(k)' = 0
  BY <1>1, <1>2, NothingYet, NothingNew
<1>4. StreamInv'
  BY <1>1, <1>2, <1>3 DEF StreamInv, StreamTypes, StreamPhases, Tally
<1>5. Said' = Said /\ Ending' = Ending
  BY <1>2, NothingHanded
<1>. QED  BY <1>4, <1>5 DEF PromisedStep

(* What RaiseKeeps says is a step of the promise.                          *)
LEMMA FailureKeeps ==
  ASSUME StreamInv, ask = "chat", phase \in {"try", "read", "flush"}, NEW e, Raise(e),
         UNCHANGED <<ask, out, counted>>
  PROVE  StreamInv' /\ PromisedStep
<1>1. /\ StreamInv'
      /\ Said' = Said
      /\ \/ Ending' = Ending
         \/ Ending = "open" /\ Said = 0 /\ Ending' = "refused"
  BY RaiseKeeps
<1>2. CASE Ending' = Ending
  BY <1>1, <1>2 DEF PromisedStep
<1>3. CASE Ending = "open" /\ Said = 0 /\ Ending' = "refused"
  BY <1>1, <1>3 DEF PromisedStep, Promise!Next, Promise!Refuse
<1>. QED  BY <1>1, <1>2, <1>3

(* While the answer is read.                                               *)
LEMMA TextKeeps ==
  ASSUME StreamInv, ask = "chat", Text
  PROVE  StreamInv' /\ PromisedStep
<1>1. StreamTypes /\ ~counted /\ Tally(0, 0, 0)
  BY DEF StreamInv, StreamPhases, Text
<1>2. /\ phase = "read" /\ UNCHANGED <<ask, phase, at, counted>>
      /\ out' = Append(out, Part("text"))
  BY DEF Text
<1>3. Part("text") \in Pieces /\ Part("text").kind = "text"
  BY <1>1, PartType
<1>4. /\ out' \in Seq(Pieces)
      /\ \A k : CountOf(k) \in Nat
      /\ \A k : CountOf(k)' = IF "text" = k THEN CountOf(k) + 1 ELSE CountOf(k)
  BY <1>1, <1>2, <1>3, HandedOver
<1>5. StreamInv'
  BY <1>1, <1>2, <1>4 DEF StreamInv, StreamTypes, StreamPhases, Tally
<1>6. Ending = "open" /\ Ending' = "open"
  BY <1>1, <1>2, <1>4 DEF Ending, Tally
<1>7. Said' = Said + 1
  BY <1>2, <1>4 DEF Said
<1>. QED  BY <1>5, <1>6, <1>7 DEF PromisedStep, Promise!Next, Promise!Say

(* _parse_stream: what carries no text is kept.                            *)
LEMMA LineKeeps ==
  ASSUME StreamInv, ask = "chat", Line
  PROVE  StreamInv' /\ PromisedStep
<1>1. StreamTypes /\ ~counted /\ Tally(0, 0, 0)
  BY DEF StreamInv, StreamPhases, Line
<1>2. phase = "read" /\ UNCHANGED <<ask, phase, at, counted, out>>
  BY DEF Line
<1>3. \A k : CountOf(k)' = CountOf(k)
  BY <1>2, NothingNew
<1>4. StreamInv'
  BY <1>1, <1>2, <1>3 DEF StreamInv, StreamTypes, StreamPhases, Tally
<1>5. Said' = Said /\ Ending' = Ending
  BY <1>2, NothingHanded
<1>. QED  BY <1>4, <1>5 DEF PromisedStep

(* _parse_stream: the answer ends, whole or not.                           *)
LEMMA EndKeeps ==
  ASSUME StreamInv, ask = "chat", End
  PROVE  StreamInv' /\ PromisedStep
<1>1. StreamTypes /\ ~counted /\ Tally(0, 0, 0)
  BY DEF StreamInv, StreamPhases, End
<1>2. phase = "read" /\ UNCHANGED <<ask, counted, out>>
  BY DEF End
<1>3. CASE Raise("unavailable")
  BY <1>2, <1>3, FailureKeeps
<1>4. CASE phase' = "flush" /\ queue' = Kept /\ at' = at
  <2>1. \A k : CountOf(k)' = CountOf(k) /\ Part(k)' = Part(k)
    BY <1>2, <1>4, NothingNew DEF Part
  <2>2. Held'
    BY <1>1, <1>2, <1>4, <2>1, KeptIsHeld DEF Held
  <2>3. StreamInv'
    BY <1>1, <1>2, <1>4, <2>1, <2>2 DEF StreamInv, StreamTypes, StreamPhases, Tally
  <2>4. Said' = Said /\ Ending' = Ending
    BY <1>2, <1>4, NothingHanded
  <2>. QED  BY <2>3, <2>4 DEF PromisedStep
<1>. QED  BY <1>3, <1>4 DEF End

(* While what was kept is handed over.                                     *)
LEMMA HandKeeps ==
  ASSUME StreamInv, ask = "chat", Hand
  PROVE  StreamInv' /\ PromisedStep
<1>1. StreamTypes /\ Held /\ Tally(IF counted THEN 1 ELSE 0, 0, 0)
  BY DEF StreamInv, StreamPhases, Hand
<1>2. /\ phase = "flush" /\ UNCHANGED <<ask, phase, at>> /\ Head(queue).kind # "done"
      /\ out' = Append(out, Head(queue)) /\ queue' = Tail(queue)
      /\ counted' = (counted \/ Head(queue).kind = "usage")
  BY DEF Hand
<1>3. \A k \in {"tool", "usage", "done"} : Part(k) \in Pieces /\ Part(k).kind = k
  BY <1>1, PartType
<1>4. \A k : Part(k)' = Part(k)
  BY <1>2 DEF Part
<1>5. ~counted /\ counted' \in BOOLEAN
  BY <1>1, <1>2, <1>3 DEF Held
<1>6. Ending = "open"
  BY <1>1, <1>2, <1>5 DEF Ending, Tally
<1>7. CASE queue = <<Part("usage"), Part("done")>>
  <2>1. Head(queue) = Part("usage") /\ queue' = <<Part("done")>> /\ counted'
    <3>1. Head(queue) = Part("usage") /\ Tail(queue) = <<Part("done")>>
      BY <1>3, <1>7, FirstOfTwo
    <3>2. counted' = (counted \/ Part("usage").kind = "usage")
      BY <1>2, <3>1
    <3>. QED  BY <1>2, <1>3, <3>1, <3>2
  <2>2. /\ out' \in Seq(Pieces)
        /\ \A k : CountOf(k) \in Nat
        /\ \A k : CountOf(k)' = IF "usage" = k THEN CountOf(k) + 1 ELSE CountOf(k)
    BY <1>1, <1>2, <1>3, <2>1, HandedOver
  <2>3. StreamInv'
    <3>1. Held'
      BY <1>4, <2>1 DEF Held
    <3>2. Tally(1, 0, 0)'
      BY <1>1, <1>5, <2>2 DEF Tally
    <3>3. StreamTypes'
      BY <1>1, <1>2, <1>5, <2>2 DEF StreamTypes
    <3>4. StreamPhases'
      BY <1>2, <2>1, <3>1, <3>2 DEF StreamPhases
    <3>. QED  BY <1>2, <3>3, <3>4 DEF StreamInv
  <2>4. Ending' = "counted"
    BY <1>1, <1>2, <1>5, <2>2 DEF Ending, Tally
  <2>5. Said' = Said
    BY <1>2, <2>2 DEF Said
  <2>. QED  BY <1>6, <2>3, <2>4, <2>5 DEF PromisedStep, Promise!Next, Promise!Count
<1>8. CASE queue \in {<<Part("tool"), Part("done")>>, <<Part("tool"), Part("usage"), Part("done")>>}
  <2>1. /\ Head(queue) = Part("tool") /\ ~counted'
        /\ queue' \in {<<Part("done")>>, <<Part("usage"), Part("done")>>}
    <3>1. /\ Head(queue) = Part("tool")
          /\ Tail(queue) \in {<<Part("done")>>, <<Part("usage"), Part("done")>>}
      <4>1. CASE queue = <<Part("tool"), Part("done")>>
        BY <1>3, <4>1, FirstOfTwo
      <4>2. CASE queue = <<Part("tool"), Part("usage"), Part("done")>>
        BY <1>3, <4>2, FirstOfThree
      <4>. QED  BY <1>8, <4>1, <4>2
    <3>2. counted' = (counted \/ Part("tool").kind = "usage")
      BY <1>2, <3>1
    <3>3. ~counted'
      BY <1>3, <1>5, <3>2
    <3>. QED  BY <1>2, <3>1, <3>3
  <2>2. /\ out' \in Seq(Pieces)
        /\ \A k : CountOf(k) \in Nat
        /\ \A k : CountOf(k)' = IF "tool" = k THEN CountOf(k) + 1 ELSE CountOf(k)
    BY <1>1, <1>2, <1>3, <2>1, HandedOver
  <2>3. StreamInv'
    <3>1. Held'
      BY <1>4, <2>1 DEF Held
    <3>2. Tally(0, 0, 0)'
      BY <1>1, <1>5, <2>2 DEF Tally
    <3>3. StreamTypes'
      BY <1>1, <1>2, <1>5, <2>2 DEF StreamTypes
    <3>4. StreamPhases'
      BY <1>2, <2>1, <3>1, <3>2 DEF StreamPhases
    <3>. QED  BY <1>2, <3>3, <3>4 DEF StreamInv
  <2>4. Ending' = "open"
    BY <1>1, <1>2, <1>5, <2>2 DEF Ending, Tally
  <2>5. Said' = Said + 1
    BY <1>2, <2>2 DEF Said
  <2>. QED  BY <1>6, <2>3, <2>4, <2>5 DEF PromisedStep, Promise!Next, Promise!Say
<1>9. queue # <<Part("done")>>
  BY <1>2, <1>3
<1>. QED  BY <1>1, <1>5, <1>7, <1>8, <1>9 DEF Held

(* _attempt: the estimate, where the provider sent no usage.               *)
LEMMA HandOwedKeeps ==
  ASSUME StreamInv, ask = "chat", HandOwed
  PROVE  StreamInv' /\ PromisedStep
<1>1. StreamTypes /\ Held /\ Tally(IF counted THEN 1 ELSE 0, 0, 0)
  BY DEF StreamInv, StreamPhases, HandOwed
<1>2. /\ phase = "flush" /\ UNCHANGED <<ask, phase, at, queue>> /\ Head(queue).kind = "done"
      /\ Owed # <<>> /\ out' = out \o Owed /\ counted' = TRUE
  BY DEF HandOwed
<1>3. \A k \in {"tool", "usage", "done"} : Part(k) \in Pieces /\ Part(k).kind = k
  BY <1>1, PartType
<1>4. \A k : Part(k)' = Part(k)
  BY <1>2 DEF Part
<1>5. ~counted /\ Owed = <<Part("usage")>>
  BY <1>2 DEF Owed
<1>6. out' = Append(out, Part("usage"))
  BY <1>1, <1>2, <1>3, <1>5 DEF StreamTypes
<1>7. queue = <<Part("done")>>
  BY <1>1, <1>2, <1>3, <1>5 DEF Held
<1>8. /\ out' \in Seq(Pieces)
      /\ \A k : CountOf(k) \in Nat
      /\ \A k : CountOf(k)' = IF "usage" = k THEN CountOf(k) + 1 ELSE CountOf(k)
  BY <1>1, <1>3, <1>6, HandedOver
<1>9. StreamInv'
  BY <1>1, <1>2, <1>4, <1>5, <1>7, <1>8 DEF StreamInv, StreamTypes, StreamPhases, Tally, Held
<1>10. Ending = "open" /\ Ending' = "counted"
  BY <1>1, <1>2, <1>5, <1>8 DEF Ending, Tally
<1>11. Said' = Said
  BY <1>2, <1>8 DEF Said
<1>. QED  BY <1>9, <1>10, <1>11 DEF PromisedStep, Promise!Next, Promise!Count

(* _attempt: the end, which is the last piece.                             *)
LEMMA HandDoneKeeps ==
  ASSUME StreamInv, ask = "chat", HandDone
  PROVE  StreamInv' /\ PromisedStep
<1>1. StreamTypes /\ Held /\ Tally(IF counted THEN 1 ELSE 0, 0, 0)
  BY DEF StreamInv, StreamPhases, HandDone
<1>2. /\ phase = "flush" /\ phase' = "done" /\ UNCHANGED <<ask, at, counted>>
      /\ Owed = <<>> /\ out' = Append(out, Head(queue))
  BY DEF HandDone
<1>3. Part("done") \in Pieces /\ Part("done").kind = "done"
  BY <1>1, PartType
<1>4. counted
  BY <1>2 DEF Owed
<1>5. Head(queue) = Part("done")
  BY <1>1, <1>4 DEF Held
<1>6. /\ out' \in Seq(Pieces)
      /\ \A k : CountOf(k) \in Nat
      /\ \A k : CountOf(k)' = IF "done" = k THEN CountOf(k) + 1 ELSE CountOf(k)
  BY <1>1, <1>2, <1>3, <1>5, HandedOver
<1>7. StreamInv'
  BY <1>1, <1>2, <1>4, <1>6 DEF StreamInv, StreamTypes, StreamPhases, Tally
<1>8. Ending = "counted" /\ Ending' = "complete"
  BY <1>1, <1>2, <1>4, <1>6 DEF Ending, Tally
<1>9. Said' = Said
  BY <1>2, <1>6 DEF Said
<1>. QED  BY <1>7, <1>8, <1>9 DEF PromisedStep, Promise!Next, Promise!Finish

(* _StreamState.interrupted: the usage that is missing, then the error.    *)
LEMMA HandTailKeeps ==
  ASSUME StreamInv, ask = "chat", HandTail
  PROVE  StreamInv' /\ PromisedStep
<1>1. /\ StreamTypes
      /\ \/ queue = <<Part("usage"), Part("error")>> /\ Tally(0, 0, 0)
         \/ queue = <<Part("error")>> /\ Tally(1, 0, 0)
  BY DEF StreamInv, StreamPhases, HandTail
<1>2. /\ phase = "tail" /\ UNCHANGED <<ask, at, counted>>
      /\ phase' = IF Len(queue) = 1 THEN "done" ELSE "tail"
      /\ out' = Append(out, Head(queue)) /\ queue' = Tail(queue)
  BY DEF HandTail
<1>3. \A k \in {"usage", "error"} : Part(k) \in Pieces /\ Part(k).kind = k
  BY <1>1, PartType
<1>4. \A k : Part(k)' = Part(k)
  BY <1>2 DEF Part
<1>5. CASE queue = <<Part("usage"), Part("error")>> /\ Tally(0, 0, 0)
  <2>1. Head(queue) = Part("usage") /\ queue' = <<Part("error")>> /\ phase' = "tail"
    BY <1>2, <1>5
  <2>2. /\ out' \in Seq(Pieces)
        /\ \A k : CountOf(k) \in Nat
        /\ \A k : CountOf(k)' = IF "usage" = k THEN CountOf(k) + 1 ELSE CountOf(k)
    BY <1>1, <1>2, <1>3, <2>1, HandedOver
  <2>3. StreamInv'
    BY <1>1, <1>2, <1>4, <1>5, <2>1, <2>2 DEF StreamInv, StreamTypes, StreamPhases, Tally
  <2>4. Ending = "open" /\ Ending' = "counted"
    BY <1>2, <1>5, <2>1, <2>2 DEF Ending, Tally
  <2>5. Said' = Said
    BY <1>2, <2>2 DEF Said
  <2>. QED  BY <2>3, <2>4, <2>5 DEF PromisedStep, Promise!Next, Promise!Count
<1>6. CASE queue = <<Part("error")>> /\ Tally(1, 0, 0)
  <2>1. Head(queue) = Part("error") /\ phase' = "done"
    BY <1>2, <1>6
  <2>2. /\ out' \in Seq(Pieces)
        /\ \A k : CountOf(k) \in Nat
        /\ \A k : CountOf(k)' = IF "error" = k THEN CountOf(k) + 1 ELSE CountOf(k)
    BY <1>1, <1>2, <1>3, <2>1, HandedOver
  <2>3. StreamInv'
    BY <1>1, <1>2, <1>6, <2>1, <2>2 DEF StreamInv, StreamTypes, StreamPhases, Tally
  <2>4. Ending = "counted" /\ Ending' = "interrupted"
    BY <1>2, <1>6, <2>1, <2>2 DEF Ending, Tally
  <2>5. Said' = Said
    BY <1>2, <2>2 DEF Said
  <2>. QED  BY <2>3, <2>4, <2>5 DEF PromisedStep, Promise!Next, Promise!Break
<1>. QED  BY <1>1, <1>5, <1>6

(* The caller stops reading.                                               *)
LEMMA LeaveKeeps ==
  ASSUME StreamInv, ask = "chat", Leave
  PROVE  StreamInv' /\ PromisedStep
<1>1. StreamTypes /\ StreamPhases
  BY DEF StreamInv
<1>2. /\ phase \in {"try", "read", "flush", "tail"} /\ phase' = "left"
      /\ UNCHANGED <<ask, at, counted, out>>
  BY DEF Leave
<1>3. StreamInv'
  BY <1>1, <1>2 DEF StreamInv, StreamTypes, StreamPhases
<1>4. \A k : CountOf(k)' = CountOf(k)
  BY <1>2, NothingNew
<1>5. CountOf("done") = 0 /\ CountOf("error") = 0
  <2>1. CASE phase = "try"
    BY <1>1, <2>1, NothingYet DEF StreamPhases
  <2>2. CASE phase \in {"read", "flush", "tail"}
    BY <1>1, <2>2 DEF StreamPhases, Tally
  <2>. QED  BY <1>2, <2>1, <2>2
<1>6. Ending \in {"open", "counted"} /\ Ending' = "left" /\ Said' = Said
  BY <1>2, <1>4, <1>5 DEF Ending, Said
<1>. QED  BY <1>3, <1>6 DEF PromisedStep, Promise!Next, Promise!Leave

-----------------------------------------------------------------------------
(* A call starts with nothing said.                                        *)
LEMMA GatewayBegins ==
  ASSUME GatewayInit
  PROVE  StreamInv /\ Said = 0 /\ Ending = "open"
<1>1. out = <<>> /\ phase = "build" /\ ask \in {"chat", "embed"} /\ ~counted
  BY DEF GatewayInit, GatewayBegin
<1>2. \A k : CountOf(k) = 0
  BY <1>1, NothingYet
<1>3. at \in Places /\ counted \in BOOLEAN
  BY DEF GatewayInit, GatewayBegin, Places
<1>4. out \in Seq(Pieces)
  BY <1>1
<1>. QED  BY <1>1, <1>2, <1>3, <1>4 DEF StreamInv, StreamTypes, StreamPhases, Said, Ending

(* Every action of the gateway keeps the invariant and the promise.        *)
LEMMA GatewayStep ==
  ASSUME StreamInv, [GatewayNext]_gatewayVars
  PROVE  StreamInv' /\ PromisedStep
<1>1. CASE UNCHANGED gatewayVars
  BY <1>1 DEF gatewayVars, StreamInv, StreamTypes, StreamPhases, Tally, Held, Part, CountOf,
              PromisedStep, Said, Ending
<1>2. CASE GatewayNext /\ ask = "embed"
  <2>1. ask' = "embed"
    BY <1>2 DEF GatewayNext, Build, Open, Rejected, Text, Line, End, Expire, Drop, Hand,
                HandOwed, HandDone, HandTail, Leave, Embedded, NotEmbedded
  <2>. QED  BY <1>2, <2>1 DEF StreamInv, PromisedStep, Said, Ending
<1>3. CASE GatewayNext /\ ask = "chat"
  <2>1. CASE Rejected
    BY <1>3, <2>1, FailureKeeps DEF Rejected
  <2>2. CASE Expire
    BY <1>3, <2>2, FailureKeeps DEF Expire, MayExpire
  <2>3. CASE Drop
    BY <1>3, <2>3, FailureKeeps DEF Drop
  <2>4. CASE Build
    BY <1>3, <2>4, BuildKeeps
  <2>5. CASE Open
    BY <1>3, <2>5, OpenKeeps
  <2>6. CASE Text
    BY <1>3, <2>6, TextKeeps
  <2>7. CASE Line
    BY <1>3, <2>7, LineKeeps
  <2>8. CASE End
    BY <1>3, <2>8, EndKeeps
  <2>9. CASE Hand
    BY <1>3, <2>9, HandKeeps
  <2>10. CASE HandOwed
    BY <1>3, <2>10, HandOwedKeeps
  <2>11. CASE HandDone
    BY <1>3, <2>11, HandDoneKeeps
  <2>12. CASE HandTail
    BY <1>3, <2>12, HandTailKeeps
  <2>13. CASE Leave
    BY <1>3, <2>13, LeaveKeeps
  <2>14. ~Embedded /\ ~NotEmbedded
    BY <1>3 DEF Embedded, NotEmbedded
  <2>. QED  BY <1>3, <2>1, <2>2, <2>3, <2>4, <2>5, <2>6, <2>7, <2>8, <2>9, <2>10, <2>11,
               <2>12, <2>13, <2>14 DEF GatewayNext
<1>. QED  BY <1>1, <1>2, <1>3 DEF StreamInv

(* What the caller has got fits the phase of the call, and what is still   *)
(* to be handed over brings the one usage and the one end that are missing. *)
THEOREM StreamInvHolds == GatewaySpec => []StreamInv
<1>1. GatewayInit => StreamInv
  BY GatewayBegins
<1>2. StreamInv /\ [GatewayNext]_gatewayVars => StreamInv'
  BY GatewayStep
<1>. QED  BY <1>1, <1>2, PTL DEF GatewaySpec

(* stream_chat implements the promise of DeltaStream: one usage and before *)
(* the end, the end last and once, an exception only before the first      *)
(* piece, for every number of models, attempts and pieces.                 *)
THEOREM GatewayKeepsItsPromise == GatewaySpec => StreamKeepsItsPromise
<1>1. GatewayInit => Promise!Init
  BY GatewayBegins DEF Promise!Init
<1>2. StreamInv /\ [GatewayNext]_gatewayVars => [Promise!Next]_<<Said, Ending>>
  BY GatewayStep DEF PromisedStep
<1>. QED  BY <1>1, <1>2, StreamInvHolds, PTL
             DEF GatewaySpec, StreamKeepsItsPromise, Promise!Spec

-----------------------------------------------------------------------------
(***************************************************************************)
(* What a caller of stream_chat reads is one whole answer, and no          *)
(* connection stays behind: StreamsAreWhole, for every number of models,   *)
(* attempts and pieces of text.                                            *)
(***************************************************************************)

Wires == [texts : Nat, tool : BOOLEAN, finish : BOOLEAN, usage : BOOLEAN, done : BOOLEAN]

EndSeen == wire.finish \/ wire.done
AllHanded == CountOf("text") = wire.texts

(* What the adapter has read is what the caller has got.                   *)
AnswerPhases ==
  /\ phase \in {"read", "flush"} => AllHanded
  /\ phase = "flush" => EndSeen
  /\ phase = "left" => CountOf("done") = 0
  /\ phase = "done" /\ CountOf("done") > 0 => EndSeen /\ AllHanded

AnswerInv == ask = "chat" => OneVoice /\ wire \in Wires /\ AnswerPhases

(* A connection is open only while an answer is read or handed over.       *)
ConnectionInv == conn => phase \in {"read", "flush"}

WholeInv == StreamInv /\ AnswerInv /\ ConnectionInv

-----------------------------------------------------------------------------
(* The voice of an answer                                                  *)

(* One more piece of the current attempt.                                  *)
LEMMA SameVoice ==
  ASSUME StreamTypes, OneVoice, ask = "chat", NEW p \in Pieces, p.from = at,
         out' = Append(out, p), UNCHANGED at
  PROVE  OneVoice'
<1>1. out \in Seq(Pieces) /\ \A i \in 1 .. Len(out) : out[i].from = at
  BY DEF StreamTypes, OneVoice
<1>2. \A i \in 1 .. Len(out') : out'[i].from = at'
  BY <1>1
<1>. QED  BY <1>2 DEF OneVoice

(* Pieces that were handed over keep their attempt.                        *)
LEMMA VoiceStays ==
  ASSUME OneVoice, UNCHANGED <<ask, out, at>>
  PROVE  OneVoice'
BY DEF OneVoice

(* Before the first piece there is no voice.                               *)
LEMMA NoVoice ==
  ASSUME out' = <<>>
  PROVE  OneVoice'
BY DEF OneVoice

(* A piece made now is of the current attempt.                             *)
LEMMA PartFrom ==
  ASSUME StreamTypes, NEW k \in {"text", "tool", "usage", "done", "error"}
  PROVE  Part(k) \in Pieces /\ Part(k).kind = k /\ Part(k).from = at
BY DEF StreamTypes, Part, Pieces

-----------------------------------------------------------------------------
(* The steps of a call of stream_chat                                      *)

(* A failure leaves nothing open; the answer that began keeps its voice.   *)
LEMMA RaiseKeepsAnswer ==
  ASSUME StreamInv, AnswerInv, ask = "chat", phase \in {"try", "read", "flush"},
         NEW e, Raise(e), UNCHANGED <<ask, out, counted>>
  PROVE  AnswerInv'
<1>1. OneVoice /\ StreamTypes /\ (out # <<>> => at' = at)
  BY DEF AnswerInv, StreamInv, Raise, Over, Started
<1>2. OneVoice'
  <2>1. CASE out = <<>>
    BY <2>1, NoVoice
  <2>2. CASE out # <<>>
    BY <1>1, <2>2, VoiceStays
  <2>. QED  BY <2>1, <2>2
<1>3. wire' \in Wires
  BY DEF Raise, Quiet, Wires
<1>4. phase' \in {"tail", "raised", "try"}
  BY DEF Raise
<1>. QED  BY <1>2, <1>3, <1>4 DEF AnswerInv, AnswerPhases

(* build_gateway: nothing was said.                                        *)
LEMMA BuildKeepsAnswer ==
  ASSUME StreamInv, AnswerInv, ask = "chat", Build
  PROVE  AnswerInv'
<1>1. OneVoice'
  BY VoiceStays DEF AnswerInv, Build
<1>2. phase' \in {"try", "misconfigured"} /\ wire' = wire /\ wire \in Wires
  BY DEF AnswerInv, Build
<1>. QED  BY <1>1, <1>2 DEF AnswerInv, AnswerPhases

(* stream_chat: an attempt starts with nothing read and nothing said.      *)
LEMMA OpenKeepsAnswer ==
  ASSUME StreamInv, AnswerInv, ask = "chat", Open
  PROVE  AnswerInv'
<1>1. out' = <<>>
  BY DEF StreamInv, StreamPhases, Open
<1>2. CountOf("text")' = 0
  BY <1>1, NumberOfNone DEF CountOf, Number
<1>3. phase' = "read" /\ wire' = Quiet
  BY DEF Open
<1>4. wire' \in Wires /\ wire'.texts = 0
  BY <1>3 DEF Quiet, Wires
<1>. QED  BY <1>1, <1>2, <1>3, <1>4, NoVoice DEF AnswerInv, AnswerPhases, AllHanded

(* _parse_stream: a piece of text is read and handed over.                 *)
LEMMA TextKeepsAnswer ==
  ASSUME StreamInv, AnswerInv, ask = "chat", Text
  PROVE  AnswerInv'
<1>1. StreamTypes /\ OneVoice /\ wire \in Wires /\ AllHanded
  BY DEF StreamInv, AnswerInv, AnswerPhases, Text
<1>2. /\ phase' = "read" /\ UNCHANGED <<ask, at>> /\ out' = Append(out, Part("text"))
      /\ wire' = [wire EXCEPT !.texts = @ + 1]
  BY DEF Text
<1>3. Part("text") \in Pieces /\ Part("text").kind = "text" /\ Part("text").from = at
  BY <1>1, PartFrom
<1>4. CountOf("text")' = CountOf("text") + 1
  BY <1>1, <1>2, <1>3, HandedOver
<1>5. wire' \in Wires /\ wire'.texts = wire.texts + 1
  BY <1>1, <1>2 DEF Wires
<1>6. OneVoice'
  BY <1>1, <1>2, <1>3, SameVoice
<1>7. AllHanded'
  BY <1>1, <1>4, <1>5 DEF AllHanded
<1>. QED  BY <1>2, <1>5, <1>6, <1>7 DEF AnswerInv, AnswerPhases

(* _parse_stream: what is kept is no text.                                 *)
LEMMA LineKeepsAnswer ==
  ASSUME StreamInv, AnswerInv, ask = "chat", Line
  PROVE  AnswerInv'
<1>1. OneVoice /\ wire \in Wires /\ AllHanded
  BY DEF AnswerInv, AnswerPhases, Line
<1>2. phase' = "read" /\ UNCHANGED <<ask, at, out>>
  BY DEF Line
<1>3. wire' \in Wires /\ wire'.texts = wire.texts
  BY <1>1 DEF Line, Wires
<1>4. CountOf("text")' = CountOf("text")
  BY <1>2, NothingNew
<1>5. OneVoice'
  BY <1>1, <1>2, VoiceStays
<1>6. AllHanded'
  BY <1>1, <1>3, <1>4 DEF AllHanded
<1>. QED  BY <1>2, <1>3, <1>5, <1>6 DEF AnswerInv, AnswerPhases

(* _parse_stream: only an answer that said it is whole is handed over.     *)
LEMMA EndKeepsAnswer ==
  ASSUME StreamInv, AnswerInv, ask = "chat", End
  PROVE  AnswerInv'
<1>1. OneVoice /\ wire \in Wires /\ AllHanded
  BY DEF AnswerInv, AnswerPhases, End
<1>2. phase = "read" /\ UNCHANGED <<ask, out, counted>>
  BY DEF End
<1>3. CASE Raise("unavailable")
  BY <1>2, <1>3, RaiseKeepsAnswer
<1>4. ASSUME NEW done \in BOOLEAN, Whole(done), phase' = "flush", at' = at,
             wire' = [wire EXCEPT !.done = done]
      PROVE  AnswerInv'
  <2>1. /\ wire' \in Wires /\ wire'.texts = wire.texts
        /\ wire'.finish = wire.finish /\ wire'.done = done
    BY <1>1, <1>4 DEF Wires
  <2>2. EndSeen'
    BY <1>4, <2>1 DEF EndSeen, Whole
  <2>3. AllHanded'
    BY <1>1, <1>2, <2>1, NothingNew DEF AllHanded
  <2>4. OneVoice'
    BY <1>1, <1>2, <1>4, VoiceStays
  <2>. QED  BY <1>4, <2>1, <2>2, <2>3, <2>4 DEF AnswerInv, AnswerPhases
<1>. QED  BY <1>3, <1>4 DEF End

(* _attempt: a tool call or the usage is no text.                          *)
LEMMA HandKeepsAnswer ==
  ASSUME StreamInv, AnswerInv, ask = "chat", Hand
  PROVE  AnswerInv'
<1>1. StreamTypes /\ Held /\ OneVoice /\ wire \in Wires /\ AllHanded /\ EndSeen
  BY DEF StreamInv, StreamPhases, AnswerInv, AnswerPhases, Hand
<1>2. /\ phase' = "flush" /\ UNCHANGED <<ask, at, wire>> /\ out' = Append(out, Head(queue))
      /\ Head(queue).kind # "done"
  BY DEF Hand
<1>3. \A k \in {"tool", "usage", "done"} :
        Part(k) \in Pieces /\ Part(k).kind = k /\ Part(k).from = at
  BY <1>1, PartFrom
<1>4. Head(queue) \in {Part("tool"), Part("usage"), Part("done")}
  <2>1. CASE queue = <<Part("done")>>
    BY <1>3, <2>1
  <2>2. CASE queue = <<Part("usage"), Part("done")>>
    BY <1>3, <2>2, FirstOfTwo
  <2>3. CASE queue = <<Part("tool"), Part("done")>>
    BY <1>3, <2>3, FirstOfTwo
  <2>4. CASE queue = <<Part("tool"), Part("usage"), Part("done")>>
    BY <1>3, <2>4, FirstOfThree
  <2>. QED  BY <1>1, <2>1, <2>2, <2>3, <2>4 DEF Held
<1>5. Head(queue) \in Pieces /\ Head(queue).from = at /\ Head(queue).kind # "text"
  BY <1>3, <1>4
<1>6. CountOf("text")' = CountOf("text")
  BY <1>1, <1>2, <1>5, HandedOver
<1>7. OneVoice'
  BY <1>1, <1>2, <1>5, SameVoice
<1>8. AllHanded' /\ EndSeen'
  BY <1>1, <1>2, <1>6 DEF AllHanded, EndSeen
<1>. QED  BY <1>1, <1>2, <1>7, <1>8 DEF AnswerInv, AnswerPhases

(* _attempt: the estimate is no text.                                      *)
LEMMA HandOwedKeepsAnswer ==
  ASSUME StreamInv, AnswerInv, ask = "chat", HandOwed
  PROVE  AnswerInv'
<1>1. StreamTypes /\ OneVoice /\ wire \in Wires /\ AllHanded /\ EndSeen
  BY DEF StreamInv, AnswerInv, AnswerPhases, HandOwed
<1>2. /\ phase' = "flush" /\ UNCHANGED <<ask, at, wire>>
      /\ Owed # <<>> /\ out' = out \o Owed
  BY DEF HandOwed
<1>3. Part("usage") \in Pieces /\ Part("usage").kind = "usage" /\ Part("usage").from = at
  BY <1>1, PartFrom
<1>4. Owed = <<Part("usage")>>
  BY <1>2 DEF Owed
<1>5. out' = Append(out, Part("usage"))
  BY <1>1, <1>2, <1>3, <1>4 DEF StreamTypes
<1>6. CountOf("text")' = CountOf("text")
  BY <1>1, <1>3, <1>5, HandedOver
<1>7. OneVoice'
  BY <1>1, <1>2, <1>3, <1>5, SameVoice
<1>8. AllHanded' /\ EndSeen'
  BY <1>1, <1>2, <1>6 DEF AllHanded, EndSeen
<1>. QED  BY <1>1, <1>2, <1>7, <1>8 DEF AnswerInv, AnswerPhases

(* _attempt: the end is handed over after all the text.                    *)
LEMMA HandDoneKeepsAnswer ==
  ASSUME StreamInv, AnswerInv, ask = "chat", HandDone
  PROVE  AnswerInv'
<1>1. StreamTypes /\ Held /\ OneVoice /\ wire \in Wires /\ AllHanded /\ EndSeen
  BY DEF StreamInv, StreamPhases, AnswerInv, AnswerPhases, HandDone
<1>2. /\ phase' = "done" /\ UNCHANGED <<ask, at, wire>> /\ Owed = <<>>
      /\ out' = Append(out, Head(queue))
  BY DEF HandDone
<1>3. Part("done") \in Pieces /\ Part("done").kind = "done" /\ Part("done").from = at
  BY <1>1, PartFrom
<1>4. Head(queue) = Part("done")
  BY <1>1, <1>2 DEF Held, Owed
<1>5. CountOf("text")' = CountOf("text")
  BY <1>1, <1>2, <1>3, <1>4, HandedOver
<1>6. OneVoice'
  BY <1>1, <1>2, <1>3, <1>4, SameVoice
<1>7. AllHanded' /\ EndSeen'
  BY <1>1, <1>2, <1>5 DEF AllHanded, EndSeen
<1>. QED  BY <1>1, <1>2, <1>6, <1>7 DEF AnswerInv, AnswerPhases

(* _StreamState.interrupted: a broken stream does not end in done.         *)
LEMMA HandTailKeepsAnswer ==
  ASSUME StreamInv, AnswerInv, ask = "chat", HandTail
  PROVE  AnswerInv'
<1>1. /\ StreamTypes /\ OneVoice /\ wire \in Wires /\ CountOf("done") = 0
      /\ queue \in {<<Part("usage"), Part("error")>>, <<Part("error")>>}
  BY DEF StreamInv, StreamPhases, AnswerInv, HandTail, Tally
<1>2. /\ phase' \in {"tail", "done"} /\ UNCHANGED <<ask, at, wire>>
      /\ out' = Append(out, Head(queue))
  BY DEF HandTail
<1>3. \A k \in {"usage", "error"} :
        Part(k) \in Pieces /\ Part(k).kind = k /\ Part(k).from = at
  BY <1>1, PartFrom
<1>4. Head(queue) \in {Part("usage"), Part("error")}
  <2>1. CASE queue = <<Part("usage"), Part("error")>>
    BY <1>3, <2>1, FirstOfTwo
  <2>2. CASE queue = <<Part("error")>>
    BY <1>3, <2>2
  <2>. QED  BY <1>1, <2>1, <2>2
<1>5. Head(queue) \in Pieces /\ Head(queue).from = at /\ Head(queue).kind # "done"
  BY <1>3, <1>4
<1>6. CountOf("done")' = 0
  BY <1>1, <1>2, <1>5, HandedOver
<1>7. OneVoice'
  BY <1>1, <1>2, <1>5, SameVoice
<1>. QED  BY <1>1, <1>2, <1>6, <1>7 DEF AnswerInv, AnswerPhases

(* A caller that leaves has not got the end.                               *)
LEMMA LeaveKeepsAnswer ==
  ASSUME StreamInv, AnswerInv, ask = "chat", Leave
  PROVE  AnswerInv'
<1>1. OneVoice /\ wire \in Wires
  BY DEF AnswerInv
<1>2. CountOf("done") = 0
  <2>1. CASE phase = "try"
    BY <2>1, NothingYet DEF StreamInv, StreamPhases
  <2>2. CASE phase \in {"read", "flush", "tail"}
    BY <2>2 DEF StreamInv, StreamPhases, Tally
  <2>. QED  BY <2>1, <2>2 DEF Leave
<1>3. phase' = "left" /\ UNCHANGED <<ask, at, out, wire>>
  BY DEF Leave
<1>4. CountOf("done")' = 0
  BY <1>2, <1>3, NothingNew
<1>5. OneVoice'
  BY <1>1, <1>3, VoiceStays
<1>. QED  BY <1>1, <1>3, <1>4, <1>5 DEF AnswerInv, AnswerPhases

-----------------------------------------------------------------------------
(* The invariant of a call                                                 *)

(* A new call has read nothing and opened nothing.                         *)
LEMMA AnswerBegins ==
  ASSUME GatewayInit
  PROVE  AnswerInv /\ ConnectionInv
<1>1. out = <<>> /\ wire = Quiet /\ phase = "build" /\ conn = FALSE
  BY DEF GatewayInit, GatewayBegin
<1>2. OneVoice
  BY <1>1 DEF OneVoice
<1>3. wire \in Wires
  BY <1>1 DEF Quiet, Wires
<1>. QED  BY <1>1, <1>2, <1>3 DEF AnswerInv, AnswerPhases, ConnectionInv

(* aclosing: every way out of an answer closes its connection.             *)
LEMMA ConnectionStep ==
  ASSUME ConnectionInv, [GatewayNext]_gatewayVars
  PROVE  ConnectionInv'
<1>1. CASE UNCHANGED gatewayVars
  BY <1>1 DEF gatewayVars, ConnectionInv
<1>2. ASSUME NEW e, Raise(e) PROVE ConnectionInv'
  BY <1>2 DEF Raise, ConnectionInv
<1>3. CASE Rejected \/ Expire \/ Drop \/ NotEmbedded
  BY <1>2, <1>3 DEF Rejected, Expire, Drop, NotEmbedded
<1>4. CASE Build \/ Open \/ Text \/ Line
  BY <1>4 DEF Build, Open, Text, Line, ConnectionInv
<1>5. CASE End
  BY <1>2, <1>5 DEF End, ConnectionInv
<1>6. CASE Hand \/ HandOwed \/ HandDone
  BY <1>6 DEF Hand, HandOwed, HandDone, ConnectionInv
<1>7. CASE HandTail \/ Leave
  BY <1>7 DEF HandTail, Leave, AfterLeave, ConnectionInv
<1>8. CASE Embedded
  <2>1. ~conn
    BY <1>8 DEF Embedded, ConnectionInv
  <2>2. (\E e : Raise(e)) \/ conn' = conn
    BY <1>8 DEF Embedded
  <2>. QED  BY <1>2, <2>1, <2>2 DEF ConnectionInv
<1>. QED  BY <1>1, <1>3, <1>4, <1>5, <1>6, <1>7, <1>8 DEF GatewayNext

(* Every action of the gateway keeps the answer whole.                     *)
LEMMA AnswerStep ==
  ASSUME StreamInv, AnswerInv, [GatewayNext]_gatewayVars
  PROVE  AnswerInv'
<1>1. CASE UNCHANGED gatewayVars
  BY <1>1 DEF gatewayVars, AnswerInv, AnswerPhases, OneVoice, EndSeen, AllHanded, CountOf
<1>2. CASE GatewayNext /\ ask = "embed"
  <2>1. ask' = "embed"
    BY <1>2 DEF GatewayNext, Build, Open, Rejected, Text, Line, End, Expire, Drop, Hand,
                HandOwed, HandDone, HandTail, Leave, Embedded, NotEmbedded
  <2>. QED  BY <2>1 DEF AnswerInv
<1>3. CASE GatewayNext /\ ask = "chat"
  <2>1. CASE Rejected
    BY <1>3, <2>1, RaiseKeepsAnswer DEF Rejected
  <2>2. CASE Expire
    BY <1>3, <2>2, RaiseKeepsAnswer DEF Expire, MayExpire
  <2>3. CASE Drop
    BY <1>3, <2>3, RaiseKeepsAnswer DEF Drop
  <2>4. CASE Build \/ Open \/ Text \/ Line
    BY <1>3, <2>4, BuildKeepsAnswer, OpenKeepsAnswer, TextKeepsAnswer, LineKeepsAnswer
  <2>5. CASE End \/ Hand \/ HandOwed \/ HandDone
    BY <1>3, <2>5, EndKeepsAnswer, HandKeepsAnswer, HandOwedKeepsAnswer, HandDoneKeepsAnswer
  <2>6. CASE HandTail \/ Leave
    BY <1>3, <2>6, HandTailKeepsAnswer, LeaveKeepsAnswer
  <2>7. ~Embedded /\ ~NotEmbedded
    BY <1>3 DEF Embedded, NotEmbedded
  <2>. QED  BY <1>3, <2>1, <2>2, <2>3, <2>4, <2>5, <2>6, <2>7 DEF GatewayNext
<1>. QED  BY <1>1, <1>2, <1>3 DEF StreamInv

(* The invariant says that the streams are whole.                          *)
LEMMA WholeInvSuffices ==
  ASSUME WholeInv
  PROVE  StreamsAreWhole
<1>. StreamInv /\ AnswerInv /\ ConnectionInv
  BY DEF WholeInv
<1>1. OneVoice
  BY DEF AnswerInv, OneVoice
<1>2. NothingStaysOpen
  BY DEF ConnectionInv, NothingStaysOpen, Closed
<1>3. DoneIsWhole
  <2>1. SUFFICES ASSUME ask = "chat", CountOf("done") > 0
                 PROVE  EndSeen /\ AllHanded
    BY DEF DoneIsWhole, EndSeen, AllHanded
  <2>. StreamTypes /\ StreamPhases /\ AnswerPhases
    BY <2>1 DEF StreamInv, AnswerInv
  <2>2. phase \notin {"build", "misconfigured", "try", "raised"}
    BY <2>1, NothingYet DEF StreamPhases
  <2>3. phase \notin {"read", "flush", "tail"}
    BY <2>1 DEF StreamPhases, Tally
  <2>4. phase # "left"
    BY <2>1 DEF AnswerPhases
  <2>5. phase = "done"
    BY <2>2, <2>3, <2>4 DEF StreamTypes
  <2>. QED  BY <2>1, <2>5 DEF AnswerPhases
<1>. QED  BY <1>1, <1>2, <1>3 DEF StreamsAreWhole

(* What a caller reads comes from one attempt with one model; a stream     *)
(* that ends in done is the whole answer of the provider; and a call that  *)
(* is over, however it ended, has left no connection open.                 *)
THEOREM StreamsHoldTogether == GatewaySpec => []StreamsAreWhole
<1>1. GatewayInit => WholeInv
  BY GatewayBegins, AnswerBegins DEF WholeInv
<1>2. WholeInv /\ [GatewayNext]_gatewayVars => WholeInv'
  BY GatewayStep, AnswerStep, ConnectionStep DEF WholeInv
<1>3. WholeInv => StreamsAreWhole
  BY WholeInvSuffices
<1>. QED  BY <1>1, <1>2, <1>3, PTL DEF GatewaySpec

-----------------------------------------------------------------------------
(***************************************************************************)
(* A call of the gateway carries the key it needs, an embedding that was   *)
(* paid for is not bought again, and each vector is the one of its text:   *)
(* CallsAreSound, for every number of texts, models and attempts.          *)
(***************************************************************************)

Bills == [good : Nat, wide : Nat, garbled : Nat]

(* A call that is under way was built from settings that can be used.      *)
KeyInv == phase \notin Closed \union {"build"} => Buildable(provider)

(* An embedding is out only when the call is done, and then it is right.   *)
EmbedInv == ask = "embed" =>
  /\ phase \in {"build", "misconfigured", "try", "done", "raised"}
  /\ phase # "done" => out = <<>>
  /\ phase = "done" => out = [i \in 1 .. Batch |-> i]

(* What was bought and cannot be bought once more ends the call.           *)
BillInv ==
  /\ paid \in Bills /\ paid.good + paid.wide <= 1
  /\ ask = "chat" => paid.good + paid.wide = 0
  /\ phase \in {"build", "try"} => paid.good + paid.wide = 0

CallInv == ask \in {"chat", "embed"} /\ KeyInv /\ EmbedInv /\ BillInv

-----------------------------------------------------------------------------
(* The order of the rows                                                   *)

(* Rows that are named by position, or by nothing when there is one, come  *)
(* out in the order of the texts.                                          *)
LEMMA OrderedByIndex ==
  ASSUME NEW rows, Len(rows) = Batch,
         {IndexOf(rows[i]) : i \in 1 .. Batch} = 0 .. (Batch - 1),
         \A i \in 1 .. Batch : IndexOf(rows[i]) = rows[i].of - 1 /\ rows[i].of \in 1 .. Batch
  PROVE  Len(Ordered(rows)) = Batch /\ \A k \in 1 .. Batch : Ordered(rows)[k].of = k
<1>. Batch \in Nat \ {0}
  BY GatewayAssumption
<1>. DEFINE Where(k) == CHOOSE i \in 1 .. Batch : IndexOf(rows[i]) = k - 1
<1>1. Ordered(rows) = [k \in 1 .. Batch |-> rows[Where(k)]]
  BY DEF Ordered, OneEach
<1>2. ASSUME NEW k \in 1 .. Batch
      PROVE  rows[Where(k)].of = k
  <2>1. k - 1 \in 0 .. (Batch - 1)
    OBVIOUS
  <2>2. k - 1 \in {IndexOf(rows[i]) : i \in 1 .. Batch}
    BY <2>1
  <2>3. \E i \in 1 .. Batch : IndexOf(rows[i]) = k - 1
    BY <2>2
  <2>4. Where(k) \in 1 .. Batch /\ IndexOf(rows[Where(k)]) = k - 1
    BY <2>3
  <2>. QED  BY <2>4
<1>. QED
  <2>. HIDE DEF Where
  <2>. QED  BY <1>1, <1>2

(* A list in which a row is named either comes out by its names or is      *)
(* refused.                                                                *)
LEMMA NamedOrRefused ==
  ASSUME NEW rows, Len(rows) = Batch, Ordered(rows) # <<>>,
         NEW j \in 1 .. Batch, rows[j].named
  PROVE  {IndexOf(rows[i]) : i \in 1 .. Batch} = 0 .. (Batch - 1)
BY DEF Ordered, OneEach

(* A list without any name is taken in the order in which it came.         *)
LEMMA UnnamedAsIs ==
  ASSUME NEW rows, Len(rows) = Batch, \A i \in 1 .. Batch : ~rows[i].named,
         {IndexOf(rows[i]) : i \in 1 .. Batch} # 0 .. (Batch - 1)
  PROVE  Ordered(rows) = rows
BY DEF Ordered, OneEach

(* Rows in an order p of the texts, some of them named.                    *)
LEMMA RowsType ==
  ASSUME NEW p \in [1 .. Batch -> 1 .. Batch], NEW named
  PROVE  /\ Len(Rows(p, named)) = Batch
         /\ \A i \in 1 .. Batch :
              /\ Rows(p, named)[i].of = p[i] /\ Rows(p, named)[i].of \in 1 .. Batch
              /\ Rows(p, named)[i].named = named[i] /\ Rows(p, named)[i].index = p[i] - 1
<1>. Batch \in Nat \ {0}
  BY GatewayAssumption
<1>. QED  BY DEF Rows

(* A provider that follows its protocol names every row, all but the row   *)
(* of the first text, or none: what is accepted is in the order of the     *)
(* texts.                                                                  *)
LEMMA VectorsInOrder ==
  ASSUME NEW rows \in Answers, Ordered(rows) # <<>>
  PROVE  Len(Ordered(rows)) = Batch /\ \A k \in 1 .. Batch : Ordered(rows)[k].of = k
<1>. Batch \in Nat \ {0}
  BY GatewayAssumption
<1>1. ASSUME NEW p \in Orders, rows = Rows(p, [i \in 1 .. Batch |-> TRUE])
      PROVE  Len(Ordered(rows)) = Batch /\ \A k \in 1 .. Batch : Ordered(rows)[k].of = k
  <2>1. /\ Len(rows) = Batch
        /\ \A i \in 1 .. Batch : /\ rows[i].of \in 1 .. Batch /\ rows[i].named
                                 /\ rows[i].index = rows[i].of - 1
    BY <1>1, RowsType DEF Orders
  <2>2. \A i \in 1 .. Batch : IndexOf(rows[i]) = rows[i].of - 1
    BY <2>1 DEF IndexOf
  <2>3. {IndexOf(rows[i]) : i \in 1 .. Batch} = 0 .. (Batch - 1)
    <3>. 1 \in 1 .. Batch
      OBVIOUS
    <3>. QED  BY <2>1, NamedOrRefused
  <2>. QED  BY <2>1, <2>2, <2>3, OrderedByIndex
<1>2. ASSUME NEW p \in Orders, rows = Rows(p, [i \in 1 .. Batch |-> p[i] # 1])
      PROVE  Len(Ordered(rows)) = Batch /\ \A k \in 1 .. Batch : Ordered(rows)[k].of = k
  <2>. DEFINE named == [i \in 1 .. Batch |-> p[i] # 1]
  <2>1. /\ Len(rows) = Batch
        /\ \A i \in 1 .. Batch : /\ rows[i].of = p[i] /\ rows[i].of \in 1 .. Batch
                                 /\ rows[i].named = named[i] /\ rows[i].index = p[i] - 1
    <3>. HIDE DEF named
    <3>1. rows = Rows(p, named)
      BY <1>2 DEF named
    <3>. QED  BY <3>1, RowsType DEF Orders
  <2>2. \A i \in 1 .. Batch : IndexOf(rows[i]) = rows[i].of - 1
    <3>1. SUFFICES ASSUME NEW i \in 1 .. Batch
                   PROVE  IndexOf(rows[i]) = rows[i].of - 1
      OBVIOUS
    <3>2. CASE p[i] = 1
      BY <2>1, <3>2 DEF IndexOf
    <3>3. CASE p[i] # 1
      <4>1. named[i]
        BY <3>3
      <4>. QED  BY <2>1, <4>1 DEF IndexOf
    <3>. QED  BY <3>2, <3>3
  <2>3. {IndexOf(rows[i]) : i \in 1 .. Batch} = 0 .. (Batch - 1)
    <3>1. CASE Batch = 1
      <4>1. 1 .. Batch = {1} /\ 0 .. (Batch - 1) = {0}
        BY <3>1
      <4>2. IndexOf(rows[1]) = 0
        BY <2>1, <2>2, <4>1
      <4>. QED  BY <4>1, <4>2
    <3>2. CASE Batch # 1
      <4>1. 1 \in 1 .. Batch /\ 2 \in 1 .. Batch
        BY <3>2
      <4>2. p[1] # p[2]
        BY <4>1 DEF Orders
      <4>3. \E j \in 1 .. Batch : rows[j].named
        BY <2>1, <4>1, <4>2
      <4>. QED  BY <2>1, <4>3, NamedOrRefused
    <3>. QED  BY <3>1, <3>2
  <2>. HIDE DEF named
  <2>. QED  BY <2>1, <2>2, <2>3, OrderedByIndex
<1>3. ASSUME rows = Rows([i \in 1 .. Batch |-> i], [i \in 1 .. Batch |-> FALSE])
      PROVE  Len(Ordered(rows)) = Batch /\ \A k \in 1 .. Batch : Ordered(rows)[k].of = k
  <2>1. /\ Len(rows) = Batch
        /\ \A i \in 1 .. Batch : rows[i].of = i /\ rows[i].of \in 1 .. Batch /\ ~rows[i].named
    <3>1. [i \in 1 .. Batch |-> i] \in [1 .. Batch -> 1 .. Batch]
      OBVIOUS
    <3>. QED  BY <1>3, <3>1, RowsType
  <2>2. \A i \in 1 .. Batch : IndexOf(rows[i]) = 0
    BY <2>1 DEF IndexOf
  <2>3. CASE {IndexOf(rows[i]) : i \in 1 .. Batch} = 0 .. (Batch - 1)
    <3>1. Batch = 1
      <4>1. Batch - 1 \in 0 .. (Batch - 1)
        OBVIOUS
      <4>2. Batch - 1 \in {IndexOf(rows[i]) : i \in 1 .. Batch}
        BY <2>3, <4>1
      <4>. QED  BY <2>2, <4>2
    <3>2. \A i \in 1 .. Batch : IndexOf(rows[i]) = rows[i].of - 1
      BY <2>1, <2>2, <3>1
    <3>. QED  BY <2>1, <2>3, <3>2, OrderedByIndex
  <2>4. CASE {IndexOf(rows[i]) : i \in 1 .. Batch} # 0 .. (Batch - 1)
    BY <2>1, <2>4, UnnamedAsIs
  <2>. QED  BY <2>3, <2>4
<1>4. \/ \E p \in Orders : rows = Rows(p, [i \in 1 .. Batch |-> TRUE])
      \/ \E p \in Orders : rows = Rows(p, [i \in 1 .. Batch |-> p[i] # 1])
      \/ rows = Rows([i \in 1 .. Batch |-> i], [i \in 1 .. Batch |-> FALSE])
  BY DEF Answers
<1>. QED  BY <1>1, <1>2, <1>3, <1>4

(* What breaks the protocol, a list that is too short or one name for all  *)
(* its rows, is refused.                                                   *)
LEMMA GarbledIsRefused ==
  ASSUME NEW rows \in Garbled
  PROVE  Ordered(rows) = <<>>
<1>. Batch \in Nat \ {0}
  BY GatewayAssumption
<1>1. PICK n \in {Batch - 1, Batch} :
        rows = [i \in 1 .. n |-> [of |-> i, named |-> TRUE, index |-> 1]]
  BY DEF Garbled
<1>2. Len(rows) = n
  BY <1>1
<1>3. CASE n = Batch
  <2>1. \A i \in 1 .. Batch : IndexOf(rows[i]) = 1 /\ rows[i].named
    BY <1>1, <1>3 DEF IndexOf
  <2>2. {IndexOf(rows[i]) : i \in 1 .. Batch} # 0 .. (Batch - 1)
    <3>1. 0 \in 0 .. (Batch - 1) /\ 0 \notin {IndexOf(rows[i]) : i \in 1 .. Batch}
      BY <2>1
    <3>. QED  BY <3>1
  <2>3. 1 \in 1 .. Batch
    OBVIOUS
  <2>. QED  BY <1>2, <1>3, <2>1, <2>2, <2>3 DEF Ordered, OneEach
<1>4. CASE n = Batch - 1
  BY <1>2, <1>4 DEF Ordered, OneEach
<1>. QED  BY <1>3, <1>4

-----------------------------------------------------------------------------
(* The steps of a call                                                     *)

(* Every action of stream_chat leaves the settings, the kind of the call   *)
(* and what an embedding costs alone.                                      *)
ChatStep ==
  \/ Open \/ Rejected \/ Text \/ Line \/ End \/ Expire \/ Drop
  \/ Hand \/ HandOwed \/ HandDone \/ HandTail \/ Leave

(* Nothing of a stream concerns the key, the vectors or their price.       *)
LEMMA ChatStepKeeps ==
  ASSUME CallInv, ChatStep
  PROVE  CallInv'
<1>1. UNCHANGED <<provider, ask, paid>>
  BY DEF ChatStep, Open, Rejected, Text, Line, End, Expire, Drop, Hand, HandOwed, HandDone,
         HandTail, Leave
<1>2. phase \in {"try", "read", "flush", "tail"}
  BY DEF ChatStep, Open, Rejected, Text, Line, End, Expire, MayExpire, Drop, Hand, HandOwed,
         HandDone, HandTail, Leave
<1>3. ask = "chat"
  BY <1>2 DEF CallInv, EmbedInv, ChatStep, Open, Rejected, Text, Line, End, Expire, MayExpire,
              Drop, Hand, HandOwed, HandDone, HandTail, Leave
<1>4. Buildable(provider) /\ paid \in Bills /\ paid.good + paid.wide = 0
  BY <1>2, <1>3 DEF CallInv, KeyInv, BillInv, Closed
<1>5. KeyInv'
  BY <1>1, <1>4 DEF KeyInv, Buildable, NeedsKey
<1>6. EmbedInv'
  BY <1>1, <1>3 DEF EmbedInv
<1>7. BillInv'
  BY <1>1, <1>3, <1>4 DEF BillInv
<1>. QED  BY <1>1, <1>3, <1>5, <1>6, <1>7 DEF CallInv

(* build_gateway: only settings that can be used lead to a call.           *)
LEMMA BuildKeepsCall ==
  ASSUME CallInv, Build
  PROVE  CallInv'
<1>1. /\ phase = "build" /\ UNCHANGED <<provider, ask, out, paid>>
      /\ phase' = IF Buildable(provider) THEN "try" ELSE "misconfigured"
  BY DEF Build
<1>2. KeyInv'
  BY <1>1 DEF KeyInv, Closed, Buildable, NeedsKey
<1>3. EmbedInv'
  BY <1>1 DEF CallInv, EmbedInv
<1>4. BillInv'
  BY <1>1 DEF CallInv, BillInv
<1>. QED  BY <1>1, <1>2, <1>3, <1>4 DEF CallInv

(* embed: a failure before any vector is out ends the call or the attempt. *)
LEMMA EmbedFails ==
  ASSUME CallInv, phase = "try", ask = "embed", NEW e, Raise(e), UNCHANGED <<provider, ask, out>>
  PROVE  /\ ask' \in {"chat", "embed"} /\ KeyInv' /\ EmbedInv'
         /\ phase' \in {"raised", "try"} /\ (~Retryable(e) => phase' = "raised")
<1>1. out = <<>> /\ Buildable(provider)
  BY DEF CallInv, EmbedInv, KeyInv, Closed
<1>2. phase' \in {"raised", "try"} /\ (~Retryable(e) => phase' = "raised")
  BY <1>1 DEF Raise, Over, Started
<1>3. KeyInv'
  BY <1>1 DEF KeyInv, Buildable, NeedsKey
<1>4. EmbedInv'
  BY <1>1, <1>2 DEF EmbedInv
<1>. QED  BY <1>2, <1>3, <1>4

(* embed: the answer is refused, of a wrong width, or the vectors.         *)
LEMMA EmbeddedKeeps ==
  ASSUME CallInv, Embedded
  PROVE  CallInv'
<1>. phase = "try" /\ ask = "embed" /\ UNCHANGED <<provider, ask>>
  BY DEF Embedded
<1>1. paid \in Bills /\ paid.good + paid.wide = 0 /\ paid.good = 0 /\ paid.wide = 0
  BY DEF CallInv, BillInv, Bills
<1>2. CASE Raise("unavailable") /\ paid' = [paid EXCEPT !.garbled = @ + 1] /\ UNCHANGED out
  <2>1. paid' \in Bills /\ paid'.good = 0 /\ paid'.wide = 0
    BY <1>1, <1>2 DEF Bills
  <2>2. BillInv'
    BY <2>1 DEF BillInv
  <2>. QED  BY <1>2, <2>2, EmbedFails DEF CallInv
<1>3. CASE Raise("width") /\ paid' = [paid EXCEPT !.wide = @ + 1] /\ UNCHANGED out
  <2>1. paid' \in Bills /\ paid'.good = 0 /\ paid'.wide = 1
    BY <1>1, <1>3 DEF Bills
  <2>2. phase' = "raised" /\ KeyInv' /\ EmbedInv'
    BY <1>3, EmbedFails DEF Retryable
  <2>3. BillInv'
    BY <2>1, <2>2 DEF BillInv
  <2>. QED  BY <2>2, <2>3 DEF CallInv
<1>4. ASSUME NEW rows \in Answers \union Garbled, Ordered(rows) # <<>>, phase' = "done",
             out' = [i \in 1 .. Len(Ordered(rows)) |-> Ordered(rows)[i].of],
             paid' = [paid EXCEPT !.good = @ + 1]
      PROVE  CallInv'
  <2>1. rows \in Answers
    BY <1>4, GarbledIsRefused
  <2>2. out' = [i \in 1 .. Batch |-> i]
    BY <1>4, <2>1, VectorsInOrder
  <2>3. paid' \in Bills /\ paid'.good = 1 /\ paid'.wide = 0
    BY <1>1, <1>4 DEF Bills
  <2>4. BillInv'
    BY <1>4, <2>3 DEF BillInv
  <2>5. KeyInv' /\ EmbedInv'
    BY <1>4, <2>2 DEF KeyInv, Closed, EmbedInv
  <2>. QED  BY <2>4, <2>5 DEF CallInv
<1>. QED  BY <1>2, <1>3, <1>4 DEF Embedded

(* _call_once: the provider refuses, nothing was computed.                 *)
LEMMA NotEmbeddedKeeps ==
  ASSUME CallInv, NotEmbedded
  PROVE  CallInv'
<1>1. phase = "try" /\ ask = "embed" /\ UNCHANGED <<provider, ask, out, paid>> /\ \E e : Raise(e)
  BY DEF NotEmbedded
<1>2. BillInv'
  BY <1>1 DEF CallInv, BillInv
<1>. QED  BY <1>1, <1>2, EmbedFails DEF CallInv

(* A new call has bought nothing.                                          *)
LEMMA CallBegins ==
  ASSUME GatewayInit
  PROVE  CallInv
<1>1. phase = "build" /\ ask \in {"chat", "embed"} /\ out = <<>> /\ paid = Unpaid
  BY DEF GatewayInit, GatewayBegin
<1>2. paid \in Bills /\ paid.good = 0 /\ paid.wide = 0
  BY <1>1 DEF Unpaid, Bills
<1>. QED  BY <1>1, <1>2 DEF CallInv, KeyInv, EmbedInv, BillInv

(* Every action of the gateway keeps the calls sound.                      *)
LEMMA CallStep ==
  ASSUME CallInv, [GatewayNext]_gatewayVars
  PROVE  CallInv'
<1>1. CASE UNCHANGED gatewayVars
  BY <1>1 DEF gatewayVars, CallInv, KeyInv, EmbedInv, BillInv, Buildable, NeedsKey
<1>2. CASE ChatStep
  BY <1>2, ChatStepKeeps
<1>3. CASE Build \/ Embedded \/ NotEmbedded
  BY <1>3, BuildKeepsCall, EmbeddedKeeps, NotEmbeddedKeeps
<1>. QED  BY <1>1, <1>2, <1>3 DEF GatewayNext, ChatStep

(* The invariant says that calls are sound.                                *)
LEMMA CallInvSuffices ==
  ASSUME CallInv
  PROVE  CallsAreSound
<1>1. CallsCarryAKey
  BY DEF CallInv, KeyInv, Buildable, CallsCarryAKey
<1>2. VectorsMatch
  BY DEF CallInv, EmbedInv, VectorsMatch
<1>3. BoughtOnce
  BY DEF CallInv, BillInv, BoughtOnce
<1>. QED  BY <1>1, <1>2, <1>3 DEF CallsAreSound

(* A call carries the key its provider needs; the vector of a text is the  *)
(* one the provider made for it, however the answer orders or names its    *)
(* rows; and vectors that were paid for are not bought again.              *)
THEOREM CallsHold == GatewaySpec => []CallsAreSound
<1>1. GatewayInit => CallInv
  BY CallBegins
<1>2. CallInv /\ [GatewayNext]_gatewayVars => CallInv'
  BY CallStep
<1>3. CallInv => CallsAreSound
  BY CallInvSuffices
<1>. QED  BY <1>1, <1>2, <1>3, PTL DEF GatewaySpec
=============================================================================
