--------------------------- MODULE SessionsProofs ---------------------------
(***************************************************************************)
(* Proofs about Sessions: no refresh is taken for a replay and no request  *)
(* fails unless something was lost, late or overtaken, and a revocation is *)
(* immediate, for any number of tabs, requests, tokens and log-ins.        *)
(***************************************************************************)
EXTENDS Sessions, FiniteSetTheorems, TLAPS

-----------------------------------------------------------------------------
(* The values of the variables.                                            *)
Flight == [st : {"none", "sent", "user", "rotate", "reply", "refused"}, boot : BOOLEAN,
           sent : Ids \union {0}, ver : 0 .. 2, mine : Ids \union {0}, out : Ids \union {0}]
Leaving == [st : {"none", "sent", "reply", "done", "lost"}, used : Ids \union {0},
            ref : Ids \union {0}, ok : BOOLEAN]
Request == [st : {"idle", "sent", "wait", "again", "ok", "failed"}, used : Ids \union {0}]
Locks ==
  {l \in [fails : Nat, ttl : 0 .. LockTime, trying : 0 .. MaxTries] :
     l.fails + l.trying < MaxAttempts + MaxTries}
Row == [tok : Ids \union {0}, booted : BOOLEAN, fly : Flight, out : Leaving]
Shape ==
  /\ db \in [ver : 1 .. 2, status : {"active", "inactive"}]
  /\ family \in [Families -> Ids \union {0}] /\ newest \in [Families -> Ids \union {0}]
  /\ handed \in [Ids -> Ids \union {0}]
  /\ issued \in [Ids -> [fam : Families \union {0}, ver : 0 .. 2]]
  /\ minimum \in 0 .. 2 /\ scene \in Scenes /\ faults \in Nat
  /\ tab \in [Tabs -> Row]
  /\ req \in [Reqs -> Request]
  /\ revoke \in {"off", "changed", "bumped", "marked", "done"}
  /\ sign \in [ver : 0 .. 2, for : Tabs \union {0}]
  /\ lock \in Locks

(* Tokens are numbered as they are made, and whatever speaks of a token    *)
(* speaks of one that was made, in its family.                             *)
Made(i) == i = 0 \/ i \in Minted
Of(i, f) == i = 0 \/ (i \in Minted /\ issued[i].fam = f)
FlightLinked(x) ==
  /\ Made(x.sent)
  /\ x.st \in {"user", "rotate", "reply"} => x.sent # 0
  /\ x.st = "rotate" => x.ver \in 1 .. 2
  /\ x.st = "reply" => x.mine \in Minted /\ x.out \in Minted /\ issued[x.out].fam = issued[x.sent].fam
TabLinked(x) ==
  /\ Made(x.tok) /\ FlightLinked(x.fly)
  /\ (x.out.st = "sent" => x.out.used \in Minted) /\ Made(x.out.ref)
ReqLinked(x) == x.st \in {"sent", "again"} => x.used \in Minted
Numbered ==
  /\ Minted = 1 .. Cardinality(Minted)
  /\ \A i \in Minted : issued[i].fam \in Families /\ issued[i].ver \in 1 .. 2
Linked ==
  /\ denied \subseteq Minted /\ expired \subseteq Minted /\ Made(jar)
  /\ \A f \in Families : Of(family[f], f) /\ Of(newest[f], f)
  /\ \A i \in Ids : handed[i] # 0 => i \in Minted /\ Of(handed[i], issued[i].fam)
  /\ \A t \in Tabs : TabLinked(tab[t])
  /\ \A r \in Reqs : ReqLinked(req[r])
  /\ sign.for # 0 => sign.ver \in 1 .. 2

(* Versions, and what a revocation has done so far.                        *)
Versions ==
  /\ \A i \in Minted : issued[i].ver <= db.ver
  /\ \A t \in Tabs : Fly(t).st = "rotate" => Fly(t).ver <= db.ver
  /\ sign.ver <= db.ver
  /\ revoke \in {"off", "changed"} => db.ver = 1
  /\ revoke = "off" => db.status = "active"
  /\ minimum \in IF revoke \in {"marked", "done"} THEN {0, db.ver} ELSE {0}
(* A user who is not active gets no token of the version after.            *)
Excluded ==
  revoke # "off" /\ scene.does = "deactivate" =>
    /\ db.status = "inactive"
    /\ \A i \in Minted : issued[i].ver <= 1
    /\ \A t \in Tabs : Fly(t).st = "rotate" => Fly(t).ver <= 1
    /\ sign.ver <= 1
    /\ revoke \in {"bumped", "marked", "done"} => db.ver = 2

(* Nothing was lost, slow or overtaken: the browser has the latest cookie  *)
(* of a family, and every cookie under way is either the one in force or   *)
(* within its grace.                                                       *)
Quiet == faults = 0 /\ ~overtaken
Exchanging == {"sent", "user", "rotate"}
Known(i) ==
  family[issued[i].fam] # 0 => i <= newest[issued[i].fam] \/ i = family[issued[i].fam]
Carries(t, f) == Fly(t).st = "reply" /\ Fly(t).sent = newest[f] /\ Fly(t).out = family[f]
FamilyQuiet(f) ==
  family[f] # 0 =>
    \/ newest[f] = family[f]
    \/ /\ newest[f] # 0 /\ newest[f] < family[f] /\ handed[newest[f]] = family[f]
       /\ \E t \in Tabs : Carries(t, f)
FlightQuiet(x) ==
  /\ x.sent # 0 => x.sent <= newest[issued[x.sent].fam]
  /\ x.st \in Exchanging /\ x.sent # 0 =>
       family[issued[x.sent].fam] \in {0, x.sent} \/ handed[x.sent] # 0
  /\ x.st = "reply" => Known(x.out)
QuietInv ==
  Quiet =>
    /\ ~replayed
    /\ jar # 0 => jar = newest[issued[jar].fam]
    /\ \A f \in Families : FamilyQuiet(f)
    /\ \A i \in Ids : handed[i] # 0 => Known(handed[i])
    /\ \A t \in Tabs : FlightQuiet(Fly(t))

(* Besides, nobody has signed out and nothing is being revoked: every      *)
(* family is alive, a new token is not expired when it comes.              *)
Calm == Quiet /\ revoke = "off" /\ \A t \in Tabs : Out(t).st = "none"
TabCalm(t) ==
  LET x == Fly(t) IN
  /\ x.st = "refused" => x.boot
  /\ x.st = "sent" /\ ~x.boot => x.sent # 0
  /\ x.st \in {"user", "rotate"} => x.sent # 0
  /\ x.st = "reply" => x.mine \notin expired /\ x.mine > tab[t].tok /\ x.mine > x.sent
  /\ sign.for = t => tab[t].tok = 0 /\ tab[t].booted /\ x.st = "none"
ReqCalm(r) ==
  LET tok == tab[Owner[r]].tok IN
  /\ req[r].st # "failed"
  /\ req[r].st = "sent" => req[r].used <= tok /\ (req[r].used < tok => tok \notin expired)
  /\ req[r].st = "again" => req[r].used \notin expired
CalmInv ==
  Calm =>
    /\ denied = {}
    /\ \A i \in Minted : family[issued[i].fam] # 0
    /\ jar = 0 => Minted = {}
    /\ \A t \in Tabs : TabCalm(t)
    /\ \A r \in Reqs : ReqCalm(r)

(* When the key of a revocation is gone, what it was to outlive is too.    *)
Lapsed ==
  /\ lasting \in Nat /\ lasting <= Fresh
  /\ revoke \in {"marked", "done"} /\ minimum = 0 => \A i \in Minted : i < lasting => i \in expired

Well == Shape /\ Numbered /\ Linked
SessionInv == Well /\ Versions /\ Excluded /\ Lapsed /\ QuietInv /\ CalmInv

-----------------------------------------------------------------------------
(* New tokens, and what stays true of the old ones.                        *)
Grows == Minted \subseteq Minted' /\ \A i \in Minted : issued'[i] = issued[i]

LEMMA IdsAre == Ids \subseteq Nat \ {0} /\ IsFiniteSet(Ids) /\ Families \subseteq Nat \ {0} /\ 1 \in Families
<1>1. MaxTokens \in Nat /\ MaxLogins \in Nat
  BY SessionsAssumption
<1>2. IsFiniteSet(1 .. MaxTokens)
  BY <1>1, FS_Interval
<1>. QED  BY <1>1, <1>2 DEF Ids, Families

LEMMA FreshIsNew ==
  ASSUME Shape, Numbered
  PROVE  /\ Minted \subseteq Ids /\ Cardinality(Minted) \in Nat /\ Fresh \in Nat
         /\ Fresh \notin Minted /\ \A i \in Minted : i < Fresh
<1>1. Minted \subseteq Ids /\ IsFiniteSet(Minted)
  BY IdsAre, FS_Subset DEF Minted
<1>2. Cardinality(Minted) \in Nat
  BY <1>1, FS_CardinalityType
<1>. QED  BY <1>1, <1>2 DEF Numbered, Fresh

LEMMA Minting ==
  ASSUME Shape, Numbered, NEW f \in Families, NEW v \in 1 .. 2, Fresh \in Ids,
         issued' = [issued EXCEPT ![Fresh] = [fam |-> f, ver |-> v]]
  PROVE  /\ Grows /\ Numbered' /\ Minted' = Minted \union {Fresh}
         /\ issued'[Fresh].fam = f /\ issued'[Fresh].ver = v
         /\ issued' \in [Ids -> [fam : Families \union {0}, ver : 0 .. 2]]
<1>. DEFINE n == Cardinality(Minted)
            k == Fresh
            new == [fam |-> f, ver |-> v]
<1>1. Minted \subseteq Ids /\ n \in Nat /\ k = n + 1 /\ k \notin Minted /\ k \in Ids
  BY FreshIsNew DEF Fresh
<1>2. f # 0 /\ new # Blank /\ new.fam = f /\ new.ver = v /\ new \in [fam : Families \union {0}, ver : 0 .. 2]
  BY IdsAre DEF Blank
<1>3. issued \in [Ids -> [fam : Families \union {0}, ver : 0 .. 2]] /\ issued' = [issued EXCEPT ![k] = new]
  BY DEF Shape
<1>. HIDE DEF k, new
<1>4. /\ issued' \in [Ids -> [fam : Families \union {0}, ver : 0 .. 2]] /\ issued'[k] = new
      /\ \A i \in Ids : i # k => issued'[i] = issued[i]
  BY <1>1, <1>2, <1>3
<1>5. Minted' = Minted \union {k}
  BY <1>1, <1>2, <1>4 DEF Minted
<1>6. Cardinality(Minted') = n + 1
  <2>1. IsFiniteSet(Minted)
    BY <1>1, IdsAre, FS_Subset
  <2>. QED  BY <1>1, <1>5, <2>1, FS_AddElement
<1>7. Numbered'
  <2>1. Minted = 1 .. n
    BY DEF Numbered
  <2>2. Minted' = 1 .. Cardinality(Minted')
    BY <1>1, <1>5, <1>6, <2>1
  <2>3. \A i \in Minted' : issued'[i].fam \in Families /\ issued'[i].ver \in 1 .. 2
    BY <1>1, <1>2, <1>4, <1>5 DEF Numbered
  <2>. QED  BY <2>2, <2>3 DEF Numbered
<1>. QED  BY <1>1, <1>2, <1>4, <1>5, <1>7 DEF Grows, k

LEMMA NothingMinted ==
  ASSUME UNCHANGED issued
  PROVE  Grows /\ Minted' = Minted /\ (Numbered => Numbered')
BY DEF Grows, Minted, Numbered

LEMMA LinksStay ==
  ASSUME Grows
  PROVE  /\ \A i : Made(i) => Made(i)'
         /\ \A i, f : Of(i, f) => Of(i, f)'
         /\ \A x : FlightLinked(x) /\ Made(x.sent) => FlightLinked(x)'
         /\ \A x : TabLinked(x) => TabLinked(x)'
         /\ \A x : ReqLinked(x) => ReqLinked(x)'
BY DEF Grows, Made, Of, FlightLinked, TabLinked, ReqLinked

-----------------------------------------------------------------------------
(* What a step does to the tabs.                                           *)
Others(t) == tab' \in [Tabs -> Row] /\ \A s \in Tabs : s # t => tab'[s] = tab[s]
OnlyFly(t) == Others(t) /\ tab'[t].tok = tab[t].tok /\ tab'[t].booted = tab[t].booted /\ Out(t)' = Out(t)
OnlyOut(t) == Others(t) /\ tab'[t].booted = tab[t].booted /\ Fly(t)' = Fly(t)

LEMMA RowOf ==
  ASSUME Shape, NEW t \in Tabs
  PROVE  /\ tab[t] \in Row /\ Fly(t) \in Flight /\ Out(t) \in Leaving
         /\ Fly(t).sent \in Ids \union {0} /\ Fly(t).ver \in 0 .. 2 /\ Fly(t).boot \in BOOLEAN
         /\ Fly(t).mine \in Ids \union {0} /\ Fly(t).out \in Ids \union {0} /\ tab[t].tok \in Ids \union {0}
BY DEF Shape, Row, Flight, Leaving, Fly, Out

LEMMA OneTab ==
  ASSUME Shape, NEW t \in Tabs, NEW y \in Row, tab' = [tab EXCEPT ![t] = y]
  PROVE  Others(t) /\ tab'[t] = y
BY DEF Shape, Others

LEMMA NewFlight ==
  ASSUME Shape, NEW t \in Tabs, NEW f \in Flight, SetFly(t, f)
  PROVE  OnlyFly(t) /\ Fly(t)' = f
<1>. DEFINE y == [tab[t] EXCEPT !.fly = f]
<1>1. tab[t] \in Row /\ y \in Row /\ y.tok = tab[t].tok /\ y.booted = tab[t].booted /\ y.out = tab[t].out /\ y.fly = f
  BY RowOf DEF Row
<1>2. tab' = [tab EXCEPT ![t] = y]
  BY DEF SetFly, Shape
<1>. HIDE DEF y
<1>. QED  BY <1>1, <1>2, OneTab DEF OnlyFly, Fly, Out

LEMMA TakeoffIs ==
  ASSUME Shape, jar \in Ids \union {0}, NEW b \in BOOLEAN
  PROVE  /\ Takeoff(b) \in Flight /\ Takeoff(b).st = "sent" /\ Takeoff(b).sent = jar
         /\ Takeoff(b).boot = b /\ Takeoff(b).out = 0
<1>. DEFINE sent == "sent"
            none == "none"
            zero == 0
            no == FALSE
            x == [st |-> none, boot |-> no, sent |-> zero, ver |-> zero, mine |-> zero, out |-> zero]
            y == [x EXCEPT !.st = sent, !.boot = b, !.sent = jar]
<1>1. Takeoff(b) = y
  BY DEF Takeoff, NoFlight
<1>2. /\ none \in {"none", "sent", "user", "rotate", "reply", "refused"} /\ no \in BOOLEAN
      /\ sent \in {"none", "sent", "user", "rotate", "reply", "refused"}
      /\ zero \in Ids \union {0} /\ zero \in 0 .. 2
  OBVIOUS
<1>. HIDE DEF sent, none, zero, no
<1>3. x \in Flight /\ x.out = zero
  BY <1>2 DEF Flight
<1>. HIDE DEF x
<1>4. y \in Flight /\ y.st = sent /\ y.sent = jar /\ y.boot = b /\ y.out = zero
  BY <1>2, <1>3 DEF Flight
<1>. QED  BY <1>1, <1>4 DEF sent, zero

LEMMA NoFlightIs ==
  /\ NoFlight \in Flight /\ NoFlight.st = "none" /\ NoFlight.sent = 0 /\ ~NoFlight.boot
  /\ NoFlight.mine = 0 /\ NoFlight.out = 0 /\ NoFlight.ver = 0
BY DEF NoFlight, Flight

LEMMA CheckFamilyTab ==
  ASSUME Shape, NEW t \in Tabs, CheckFamily(t)
  PROVE  /\ OnlyFly(t) /\ Fly(t).st = "sent"
         /\ Fly(t)'.sent = Fly(t).sent /\ Fly(t)'.boot = Fly(t).boot
         /\ \/ Fly(t)'.st = "user" /\ Fly(t).sent # 0 /\ family[issued[Fly(t).sent].fam] # 0
            \/ Fly(t)'.st = "refused" /\ (Fly(t).sent = 0 \/ family[issued[Fly(t).sent].fam] = 0)
<1>. DEFINE known == Fly(t).sent # 0 /\ family[FamilyOf(Fly(t).sent)] # 0
            st == IF known THEN "user" ELSE "refused"
            f == [Fly(t) EXCEPT !.st = st]
<1>1. Fly(t) \in Flight /\ Fly(t).st = "sent" /\ SetFly(t, f)
  BY RowOf DEF CheckFamily
<1>2. st \in {"user", "refused"} /\ (st = "user" <=> known)
  OBVIOUS
<1>. HIDE DEF st, known
<1>3. f \in Flight /\ f.st = st /\ f.sent = Fly(t).sent /\ f.boot = Fly(t).boot
  BY <1>1, <1>2 DEF Flight
<1>. HIDE DEF f
<1>4. OnlyFly(t) /\ Fly(t)' = f
  BY <1>1, <1>3, NewFlight
<1>. QED  BY <1>1, <1>2, <1>3, <1>4 DEF known, FamilyOf

LEMMA ReadUserTab ==
  ASSUME Shape, NEW t \in Tabs, ReadUser(t)
  PROVE  /\ OnlyFly(t) /\ Fly(t).st = "user"
         /\ Fly(t)'.sent = Fly(t).sent /\ Fly(t)'.boot = Fly(t).boot /\ Fly(t)'.ver = db.ver
         /\ \/ Fly(t)'.st = "rotate" /\ db.status = "active" /\ issued[Fly(t).sent].ver = db.ver
            \/ Fly(t)'.st = "refused" /\ (db.status # "active" \/ issued[Fly(t).sent].ver # db.ver)
<1>. DEFINE known == db.status = "active" /\ ~(issued[Fly(t).sent].ver # db.ver)
            st == IF known THEN "rotate" ELSE "refused"
            f == [Fly(t) EXCEPT !.st = st, !.ver = db.ver]
<1>1. Fly(t) \in Flight /\ Fly(t).st = "user" /\ SetFly(t, f) /\ db.ver \in 0 .. 2
  BY RowOf DEF ReadUser, Shape
<1>2. st \in {"rotate", "refused"} /\ (st = "rotate" <=> known)
  OBVIOUS
<1>. HIDE DEF st, known
<1>3. f \in Flight /\ f.st = st /\ f.sent = Fly(t).sent /\ f.boot = Fly(t).boot /\ f.ver = db.ver
  BY <1>1, <1>2 DEF Flight
<1>. HIDE DEF f
<1>4. OnlyFly(t) /\ Fly(t)' = f
  BY <1>1, <1>3, NewFlight
<1>. QED  BY <1>1, <1>2, <1>3, <1>4 DEF known

LEMMA RotateTab ==
  ASSUME Shape, Numbered, Linked, NEW t \in Tabs, Rotate(t)
  PROVE  LET sent == Fly(t).sent  f == issued[sent].fam  out == HandedOut(sent, Fresh) IN
         /\ OnlyFly(t) /\ Fly(t).st = "rotate" /\ sent \in Minted /\ f \in Families
         /\ Fresh \in Ids /\ Fly(t).ver \in 1 .. 2 /\ out \in Ids \union {0}
         /\ Fly(t)'.sent = sent /\ Fly(t)'.boot = Fly(t).boot
         /\ Fly(t)'.mine = Fresh /\ Fly(t)'.out = out
         /\ Fly(t)'.st = IF out = 0 THEN "refused" ELSE "reply"
         /\ issued' = [issued EXCEPT ![Fresh] = [fam |-> f, ver |-> Fly(t).ver]]
         /\ \/ family[f] = 0 /\ out = 0
            \/ family[f] # 0 /\ family[f] = sent /\ out = Fresh
            \/ family[f] # 0 /\ family[f] # sent /\ out = handed[sent]
<1>. DEFINE sent == Fly(t).sent
            f == issued[sent].fam
            out == HandedOut(sent, Fresh)
            st == IF out = 0 THEN "refused" ELSE "reply"
            g == [Fly(t) EXCEPT !.st = st, !.mine = Fresh, !.out = out]
<1>1. /\ Fly(t) \in Flight /\ Fly(t).st = "rotate" /\ SetFly(t, g) /\ Fresh \in Ids
      /\ issued' = [issued EXCEPT ![Fresh] = [fam |-> f, ver |-> Fly(t).ver]]
  BY RowOf DEF Rotate, FamilyOf
<1>2. sent \in Minted /\ Fly(t).ver \in 1 .. 2 /\ sent # 0 /\ sent \in Ids
  BY <1>1, FreshIsNew, IdsAre DEF Linked, TabLinked, FlightLinked, Made, Fly
<1>3. f \in Families
  BY <1>2 DEF Numbered
<1>4. /\ \/ family[f] = 0 /\ out = 0
         \/ family[f] # 0 /\ family[f] = sent /\ out = Fresh
         \/ family[f] # 0 /\ family[f] # sent /\ out = handed[sent]
      /\ out \in Ids \union {0}
  <2>1. handed[sent] \in Ids \union {0}
    BY <1>2 DEF Shape
  <2>2. family[f] = 0 => out = 0
    BY DEF HandedOut, FamilyOf
  <2>3. family[f] # 0 /\ family[f] = sent => out = Fresh
    BY DEF HandedOut, FamilyOf
  <2>4. family[f] # 0 /\ family[f] # sent => out = handed[sent]
    BY DEF HandedOut, FamilyOf
  <2>. HIDE DEF out, f
  <2>. QED  BY <1>1, <2>1, <2>2, <2>3, <2>4
<1>5. st \in {"refused", "reply"}
  OBVIOUS
<1>. HIDE DEF st, out
<1>6. g \in Flight /\ g.st = st /\ g.sent = sent /\ g.boot = Fly(t).boot /\ g.mine = Fresh /\ g.out = out
  BY <1>1, <1>4, <1>5 DEF Flight
<1>. HIDE DEF g
<1>7. OnlyFly(t) /\ Fly(t)' = g
  BY <1>1, <1>6, NewFlight
<1>. QED  BY <1>1, <1>2, <1>3, <1>4, <1>6, <1>7 DEF st, out

LEMMA DeliverTab ==
  ASSUME Shape, NEW t \in Tabs, Deliver(t)
  PROVE  /\ Others(t) /\ Fly(t).st = "reply" /\ Fly(t)' = NoFlight /\ Out(t)' = Out(t)
         /\ tab'[t].tok = Fly(t).mine /\ tab'[t].booted = tab[t].booted /\ jar' = Fly(t).out
<1>. DEFINE y == [tab[t] EXCEPT !.tok = Fly(t).mine, !.fly = NoFlight]
<1>1. tab[t] \in Row /\ Fly(t).mine \in Ids \union {0} /\ NoFlight \in Flight
  BY RowOf, NoFlightIs
<1>2. /\ y \in Row /\ y.tok = Fly(t).mine /\ y.fly = NoFlight /\ y.out = tab[t].out /\ y.booted = tab[t].booted
  BY <1>1 DEF Row
<1>3. tab' = [tab EXCEPT ![t] = y] /\ Fly(t).st = "reply" /\ jar' = Fly(t).out
  BY DEF Deliver, Shape
<1>. HIDE DEF y
<1>. QED  BY <1>2, <1>3, OneTab DEF Fly, Out

LEMMA FailTab ==
  ASSUME Shape, NEW t \in Tabs, Fail(t)
  PROVE  /\ Others(t) /\ Fly(t)' = NoFlight /\ Out(t)' = Out(t) /\ tab'[t].booted = tab[t].booted
         /\ tab'[t].tok = IF Fly(t).boot THEN tab[t].tok ELSE 0
<1>. DEFINE tok == IF Fly(t).boot THEN tab[t].tok ELSE 0
            y == [tab[t] EXCEPT !.tok = tok, !.fly = NoFlight]
<1>1. tab[t] \in Row /\ tok \in Ids \union {0} /\ NoFlight \in Flight
  BY RowOf, NoFlightIs
<1>2. tab' = [tab EXCEPT ![t] = y]
  BY DEF Fail, Shape
<1>. HIDE DEF tok
<1>3. /\ y \in Row /\ y.tok = tok /\ y.fly = NoFlight /\ y.out = tab[t].out /\ y.booted = tab[t].booted
  BY <1>1 DEF Row
<1>. HIDE DEF y
<1>. QED  BY <1>2, <1>3, OneTab DEF Fly, Out, tok

LEMMA BootstrapTab ==
  ASSUME Shape, Made(jar), Minted \subseteq Ids, NEW t \in Tabs, Bootstrap(t)
  PROVE  /\ Others(t) /\ Fly(t).st = "none" /\ Out(t)' = Out(t)
         /\ tab'[t].tok = tab[t].tok /\ tab'[t].booted /\ ~tab[t].booted
         /\ \/ Fly(t)' = Fly(t)
            \/ Fly(t)' = Takeoff(TRUE)
<1>. DEFINE fly == IF tab[t].fly.st = "none" /\ tab[t].tok = 0 THEN Takeoff(TRUE) ELSE tab[t].fly
            yes == TRUE
            y == [tab[t] EXCEPT !.booted = yes, !.fly = fly]
<1>1. tab[t] \in Row /\ fly \in Flight /\ yes \in BOOLEAN /\ (fly = Fly(t) \/ fly = Takeoff(TRUE))
  BY RowOf, TakeoffIs DEF Made, Fly
<1>2. tab' = [tab EXCEPT ![t] = y] /\ Fly(t).st = "none" /\ ~tab[t].booted
  BY DEF Bootstrap, Shape
<1>. HIDE DEF fly, yes
<1>3. /\ y \in Row /\ y.tok = tab[t].tok /\ y.fly = fly /\ y.out = tab[t].out /\ y.booted = yes
  BY <1>1 DEF Row
<1>. HIDE DEF y
<1>4. Others(t) /\ tab'[t] = y
  BY <1>2, <1>3, OneTab
<1>. QED  BY <1>1, <1>2, <1>3, <1>4 DEF Fly, Out, yes

LEMMA LogoutTab ==
  ASSUME Shape, Made(jar), Minted \subseteq Ids, NEW t \in Tabs, Logout(t)
  PROVE  /\ OnlyOut(t) /\ tab'[t].tok = tab[t].tok /\ tab[t].tok # 0
         /\ Out(t)'.st = "sent" /\ Out(t)'.used = tab[t].tok /\ Out(t)'.ref = jar
<1>. DEFINE st == "sent"
            no == FALSE
            o == [st |-> st, used |-> tab[t].tok, ref |-> jar, ok |-> no]
            y == [tab[t] EXCEPT !.out = o]
<1>1. tab[t] \in Row /\ tab[t].tok \in Ids \union {0} /\ jar \in Ids \union {0} /\ no \in BOOLEAN
      /\ st \in {"none", "sent", "reply", "done", "lost"}
  BY RowOf DEF Made
<1>2. tab' = [tab EXCEPT ![t] = y] /\ tab[t].tok # 0
  BY DEF Logout, Shape
<1>. HIDE DEF st, no
<1>3. o \in Leaving /\ o.st = st /\ o.used = tab[t].tok /\ o.ref = jar
  BY <1>1 DEF Leaving
<1>. HIDE DEF o
<1>4. /\ y \in Row /\ y.tok = tab[t].tok /\ y.fly = tab[t].fly /\ y.out = o /\ y.booted = tab[t].booted
  BY <1>1, <1>3 DEF Row
<1>. HIDE DEF y
<1>5. Others(t) /\ tab'[t] = y
  BY <1>2, <1>4, OneTab
<1>. QED  BY <1>2, <1>3, <1>4, <1>5 DEF Fly, Out, OnlyOut, st

LEMMA ServeLogoutTab ==
  ASSUME Shape, NEW t \in Tabs, ServeLogout(t)
  PROVE  /\ OnlyOut(t) /\ tab'[t].tok = tab[t].tok /\ Out(t).st = "sent"
         /\ Out(t)'.st = "reply" /\ Out(t)'.ref = Out(t).ref
<1>. DEFINE ok == Accepted(Out(t).used)
            st == "reply"
            o == [Out(t) EXCEPT !.st = st, !.ok = ok]
            y == [tab[t] EXCEPT !.out = o]
<1>1. tab[t] \in Row /\ Out(t) \in Leaving /\ ok \in BOOLEAN /\ st \in {"none", "sent", "reply", "done", "lost"}
  BY RowOf DEF Accepted
<1>2. tab' = [tab EXCEPT ![t] = y] /\ Out(t).st = "sent"
  BY DEF ServeLogout, Shape, Out
<1>. HIDE DEF st, ok
<1>3. o \in Leaving /\ o.st = st /\ o.ref = Out(t).ref
  BY <1>1 DEF Leaving
<1>. HIDE DEF o
<1>4. /\ y \in Row /\ y.tok = tab[t].tok /\ y.fly = tab[t].fly /\ y.out = o /\ y.booted = tab[t].booted
  BY <1>1, <1>3 DEF Row
<1>. HIDE DEF y
<1>5. Others(t) /\ tab'[t] = y
  BY <1>2, <1>4, OneTab
<1>. QED  BY <1>2, <1>3, <1>4, <1>5 DEF Fly, Out, OnlyOut, st

LEMMA LeaveTab ==
  ASSUME Shape, NEW t \in Tabs, EndLogout(t) \/ LoseLogout(t)
  PROVE  /\ OnlyOut(t) /\ tab'[t].tok = 0 /\ Out(t).st \in {"sent", "reply"}
         /\ Out(t)'.st \in {"done", "lost"} /\ Out(t)'.ref = Out(t).ref
<1>1. PICK st \in {"done", "lost"} : tab' = [tab EXCEPT ![t].tok = 0, ![t].out = [Out(t) EXCEPT !.st = st]]
  BY DEF EndLogout, LoseLogout
<1>2. Out(t).st \in {"sent", "reply"}
  BY DEF EndLogout, LoseLogout
<1>. DEFINE zero == 0
            o == [Out(t) EXCEPT !.st = st]
            y == [tab[t] EXCEPT !.tok = zero, !.out = o]
<1>3. tab[t] \in Row /\ Out(t) \in Leaving /\ zero \in Ids \union {0} /\ st \in {"none", "sent", "reply", "done", "lost"}
  BY RowOf
<1>4. tab' = [tab EXCEPT ![t] = y]
  BY <1>1 DEF Shape, Out
<1>. HIDE DEF zero
<1>5. o \in Leaving /\ o.st = st /\ o.ref = Out(t).ref
  BY <1>3 DEF Leaving
<1>. HIDE DEF o
<1>6. /\ y \in Row /\ y.tok = zero /\ y.fly = tab[t].fly /\ y.out = o /\ y.booted = tab[t].booted
  BY <1>3, <1>5 DEF Row
<1>. HIDE DEF y
<1>7. Others(t) /\ tab'[t] = y
  BY <1>4, <1>6, OneTab
<1>. QED  BY <1>2, <1>5, <1>6, <1>7 DEF Fly, Out, OnlyOut, zero

LEMMA IssueTab ==
  ASSUME Shape, NEW t \in Tabs, Issue(t)
  PROVE  /\ Others(t) /\ tab'[t].tok = Fresh /\ tab'[t].booted = tab[t].booted
         /\ Fly(t)' = Fly(t) /\ Out(t)' = Out(t)
<1>. DEFINE y == [tab[t] EXCEPT !.tok = Fresh]
<1>1. tab[t] \in Row /\ Fresh \in Ids \union {0} /\ tab' = [tab EXCEPT ![t] = y]
  BY RowOf DEF Issue, Shape
<1>2. /\ y \in Row /\ y.tok = Fresh /\ y.fly = tab[t].fly /\ y.out = tab[t].out /\ y.booted = tab[t].booted
  BY <1>1 DEF Row
<1>. HIDE DEF y
<1>. QED  BY <1>1, <1>2, OneTab DEF Fly, Out

-----------------------------------------------------------------------------
(* What a step does to the requests.                                       *)
OtherReqs(r) == req' \in [Reqs -> Request] /\ \A q \in Reqs : q # r => req'[q] = req[q]

LEMMA OneRequest ==
  ASSUME Shape, NEW r \in Reqs, NEW y \in Request, req' = [req EXCEPT ![r] = y]
  PROVE  OtherReqs(r) /\ req'[r] = y
BY DEF Shape, OtherReqs

LEMMA RequestIs ==
  ASSUME NEW st \in {"idle", "sent", "wait", "again", "ok", "failed"}, NEW used \in Ids \union {0}
  PROVE  /\ [st |-> st, used |-> used] \in Request
         /\ [st |-> st, used |-> used].st = st /\ [st |-> st, used |-> used].used = used
BY DEF Request

LEMMA RequestTurns ==
  ASSUME Shape, NEW r \in Reqs, NEW st \in {"idle", "sent", "wait", "again", "ok", "failed"},
         req' = [req EXCEPT ![r].st = st]
  PROVE  OtherReqs(r) /\ req'[r].st = st /\ req'[r].used = req[r].used
<1>. DEFINE y == [req[r] EXCEPT !.st = st]
<1>1. y \in Request /\ y.st = st /\ y.used = req[r].used /\ req' = [req EXCEPT ![r] = y]
  BY DEF Shape, Request
<1>. HIDE DEF y
<1>. QED  BY <1>1, OneRequest

LEMMA SendReq ==
  ASSUME Shape, NEW r \in Reqs, Send(r)
  PROVE  /\ OtherReqs(r) /\ req[r].st = "idle" /\ req'[r].st = "sent"
         /\ req'[r].used = tab[Owner[r]].tok /\ tab[Owner[r]].tok # 0 /\ Owner[r] \in Tabs
<1>. DEFINE st == "sent"
            used == tab[Owner[r]].tok
            y == [st |-> st, used |-> used]
<1>1. Owner[r] \in Tabs /\ used \in Ids \union {0} /\ st \in {"idle", "sent", "wait", "again", "ok", "failed"}
  BY SessionsAssumption, RowOf
<1>2. req' = [req EXCEPT ![r] = y] /\ req[r].st = "idle" /\ used # 0
  BY DEF Send
<1>. HIDE DEF st, used
<1>3. y \in Request /\ y.st = st /\ y.used = used
  BY <1>1, RequestIs
<1>. HIDE DEF y
<1>. QED  BY <1>1, <1>2, <1>3, OneRequest DEF st, used

LEMMA AnswerMoves ==
  ASSUME Shape, Made(jar), Minted \subseteq Ids, NEW r \in Reqs, Answer(r)
  PROVE  LET t == Owner[r]  used == req[r].used  now == tab[t].tok IN
         /\ OtherReqs(r) /\ req[r].st = "sent" /\ t \in Tabs
         /\ \/ UNCHANGED tab /\ req'[r].st = "ok"
            \/ UNCHANGED tab /\ req'[r].st = "failed" /\ Revoked(used)
            \/ UNCHANGED tab /\ req'[r].st = "again" /\ req'[r].used = now /\ now # 0 /\ now # used
            \/ /\ req'[r].st = "wait" /\ OnlyFly(t)
               /\ Fly(t)' = Fly(t) \/ (Fly(t).st = "none" /\ Fly(t)' = Takeoff(FALSE))
<1>. DEFINE t == Owner[r]
            used == req[r].used
            now == tab[t].tok
            again == "again"
            y == [st |-> again, used |-> now]
<1>1. t \in Tabs /\ now \in Ids \union {0} /\ again \in {"idle", "sent", "wait", "again", "ok", "failed"}
  BY SessionsAssumption, RowOf
<1>2. req[r].st = "sent"
  BY DEF Answer
<1>3. CASE Accepted(used)
  <2>1. UNCHANGED tab /\ req' = [req EXCEPT ![r].st = "ok"]
    BY <1>3 DEF Answer
  <2>2. OtherReqs(r) /\ req'[r].st = "ok"
    BY <2>1, RequestTurns
  <2>. QED  BY <1>1, <1>2, <2>1, <2>2
<1>4. CASE ~Accepted(used) /\ ~Expired(used)
  <2>1. UNCHANGED tab /\ req' = [req EXCEPT ![r].st = "failed"] /\ Revoked(used)
    BY <1>4 DEF Answer, Accepted
  <2>2. OtherReqs(r) /\ req'[r].st = "failed"
    BY <2>1, RequestTurns
  <2>. QED  BY <1>1, <1>2, <2>1, <2>2
<1>5. CASE ~Accepted(used) /\ Expired(used) /\ now \notin {0, used}
  <2>1. UNCHANGED tab /\ req' = [req EXCEPT ![r] = y]
    BY <1>5 DEF Answer
  <2>. HIDE DEF again, now
  <2>2. y \in Request /\ y.st = again /\ y.used = now
    BY <1>1, RequestIs
  <2>. HIDE DEF y
  <2>3. OtherReqs(r) /\ req'[r] = y
    BY <2>1, <2>2, OneRequest
  <2>. QED  BY <1>1, <1>2, <1>5, <2>1, <2>2, <2>3 DEF again, now
<1>6. CASE ~Accepted(used) /\ Expired(used) /\ now \in {0, used}
  <2>1. req' = [req EXCEPT ![r].st = "wait"] /\ SetFly(t, Ask(t))
    BY <1>6 DEF Answer
  <2>2. OtherReqs(r) /\ req'[r].st = "wait"
    BY <2>1, RequestTurns
  <2>3. Ask(t) \in Flight /\ (Ask(t) = Fly(t) \/ (Fly(t).st = "none" /\ Ask(t) = Takeoff(FALSE)))
    BY <1>1, RowOf, TakeoffIs DEF Ask, Made
  <2>4. OnlyFly(t) /\ Fly(t)' = Ask(t)
    BY <1>1, <2>1, <2>3, NewFlight
  <2>. QED  BY <1>1, <1>2, <2>2, <2>3, <2>4
<1>. QED  BY <1>3, <1>4, <1>5, <1>6

LEMMA AgainReq ==
  ASSUME Shape, NEW r \in Reqs, Again(r)
  PROVE  /\ OtherReqs(r) /\ req[r].st = "again"
         /\ req'[r].st \in {"ok", "failed"} /\ (req'[r].st = "failed" => ~Accepted(req[r].used))
<1>. DEFINE st == IF Accepted(req[r].used) THEN "ok" ELSE "failed"
<1>1. st \in {"idle", "sent", "wait", "again", "ok", "failed"} /\ st \in {"ok", "failed"}
      /\ (st = "failed" => ~Accepted(req[r].used))
  OBVIOUS
<1>2. req' = [req EXCEPT ![r].st = st] /\ req[r].st = "again"
  BY DEF Again
<1>. HIDE DEF st
<1>. QED  BY <1>1, <1>2, RequestTurns

LEMMA WakeIs ==
  ASSUME Shape, NEW t \in Tabs, NEW st \in {"again", "failed"}, NEW used \in Ids \union {0},
         req' = Wake(t, st, used)
  PROVE  /\ req' \in [Reqs -> Request]
         /\ \A q \in Reqs : \/ req'[q] = req[q]
                            \/ ~Fly(t).boot /\ Owner[q] = t /\ req'[q].st = st /\ req'[q].used = used
<1>1. st \in {"idle", "sent", "wait", "again", "ok", "failed"}
  OBVIOUS
<1>. DEFINE y == [st |-> st, used |-> used]
<1>2. y \in Request /\ y.st = st /\ y.used = used
  BY <1>1, RequestIs
<1>3. req' = [q \in Reqs |-> IF q \in Waiting(t) /\ ~Fly(t).boot THEN y ELSE req[q]]
  BY DEF Wake
<1>. HIDE DEF y
<1>. QED  BY <1>2, <1>3 DEF Shape, Waiting

-----------------------------------------------------------------------------
(* The values and the links are kept by every step.                        *)
Named(x) ==
  /\ Made(x.tok) /\ Made(x.out.ref) /\ (x.out.st = "sent" => x.out.used \in Minted)

LEMMA TabsLinked ==
  ASSUME Linked, Grows, NEW t \in Tabs, Others(t), FlightLinked(Fly(t))', Named(tab[t])'
  PROVE  (\A s \in Tabs : TabLinked(tab[s]))'
<1>1. ASSUME NEW s \in Tabs, s # t PROVE TabLinked(tab[s])'
  <2>1. tab'[s] = tab[s] /\ TabLinked(tab[s])
    BY <1>1 DEF Linked, Others
  <2>. QED  BY <2>1 DEF TabLinked, FlightLinked, Made, Grows
<1>2. TabLinked(tab[t])'
  BY DEF TabLinked, Named, Fly
<1>. QED  BY <1>1, <1>2

LEMMA FaultIs == Shape /\ (Fault \/ NoFault) => faults' \in Nat
BY DEF Shape, Fault, NoFault

LEMMA ReqsLinked ==
  ASSUME Linked, Grows
  PROVE  \A q \in Reqs : req'[q] = req[q] => ReqLinked(req[q])'
BY DEF Linked, ReqLinked, Grows

(* Steps of a browser change neither the server nor the cookie.            *)
LEMMA BrowserWell ==
  ASSUME Well, ServerSame, RestSame, UNCHANGED jar, faults' \in Nat, tab' \in [Tabs -> Row],
         (\A s \in Tabs : TabLinked(tab[s]))', req' \in [Reqs -> Request], (\A r \in Reqs : ReqLinked(req[r]))'
  PROVE  Well'
<1>0. Shape /\ Numbered /\ Linked
  BY DEF Well
<1>1. UNCHANGED <<db, family, handed, denied, minimum, issued, expired, scene, revoke, sign, lock, newest, jar>>
  BY DEF ServerSame, RestSame, OthersSame, CourseSame
<1>2. Grows /\ Numbered' /\ Minted' = Minted
  BY <1>0, <1>1, NothingMinted
<1>3. Linked'
  BY <1>0, <1>1, <1>2 DEF Linked, Of, Made
<1>4. Shape'
  BY <1>0, <1>1 DEF Shape
<1>. QED  BY <1>2, <1>3, <1>4 DEF Well

LEMMA WellBasics ==
  ASSUME Well
  PROVE  /\ Shape /\ Numbered /\ Linked /\ Made(jar) /\ Minted \subseteq Ids
         /\ (UNCHANGED issued => Grows /\ Numbered' /\ Minted' = Minted)
         /\ \A t \in Tabs : FlightLinked(Fly(t)) /\ Named(tab[t]) /\ TabLinked(tab[t])
         /\ \A r \in Reqs : ReqLinked(req[r])
BY NothingMinted DEF Well, Linked, TabLinked, Named, Minted, Fly

LEMMA SentWell ==
  ASSUME Well, Grows, NEW t \in Tabs, OnlyFly(t),
         \/ Fly(t)' = Fly(t)
         \/ Fly(t)'.st \in {"sent", "user", "refused"} /\ Made(Fly(t)'.sent)
                        /\ (Fly(t)'.st = "user" => Fly(t)'.sent # 0)
  PROVE  (\A s \in Tabs : TabLinked(tab[s]))' /\ tab' \in [Tabs -> Row]
<1>1. FlightLinked(Fly(t))'
  BY WellBasics DEF FlightLinked, Made, Grows
<1>2. Named(tab[t])' /\ Others(t)
  BY WellBasics DEF Named, OnlyFly, Made, Out, Grows
<1>. QED  BY <1>1, <1>2, TabsLinked, WellBasics DEF Others

LEMMA SendWell == ASSUME Well, NEW r \in Reqs, Send(r) PROVE Well'
<1>1. UNCHANGED <<jar, tab, faults>> /\ ServerSame /\ RestSame /\ Grows /\ Minted' = Minted
  BY WellBasics DEF Send, ServerSame
<1>2. OtherReqs(r) /\ req'[r].used = tab[Owner[r]].tok /\ tab[Owner[r]].tok # 0 /\ Owner[r] \in Tabs
  BY SendReq, WellBasics
<1>3. ReqLinked(req[r])'
  BY <1>1, <1>2, WellBasics DEF ReqLinked, Named, Made
<1>4. (\A q \in Reqs : ReqLinked(req[q]))' /\ req' \in [Reqs -> Request]
  BY <1>1, <1>2, <1>3, ReqsLinked, WellBasics DEF OtherReqs
<1>5. (\A s \in Tabs : TabLinked(tab[s]))' /\ tab' \in [Tabs -> Row] /\ faults' \in Nat
  BY <1>1, WellBasics DEF TabLinked, FlightLinked, Made, Grows, Shape
<1>. QED  BY <1>1, <1>4, <1>5, BrowserWell

LEMMA AnswerWell == ASSUME Well, NEW r \in Reqs, Answer(r) PROVE Well'
<1>. DEFINE t == Owner[r]
<1>1. UNCHANGED <<jar, faults>> /\ ServerSame /\ RestSame /\ Grows /\ Minted' = Minted
  BY WellBasics DEF Answer, ServerSame
<1>2. /\ OtherReqs(r) /\ t \in Tabs
      /\ req'[r].st = "again" => req'[r].used = tab[t].tok /\ tab[t].tok # 0
      /\ req'[r].st # "sent"
      /\ UNCHANGED tab \/ (OnlyFly(t) /\ (Fly(t)' = Fly(t) \/ Fly(t)' = Takeoff(FALSE)))
  BY AnswerMoves, WellBasics
<1>3. ReqLinked(req[r])'
  BY <1>1, <1>2, WellBasics DEF ReqLinked, Named, Made
<1>4. (\A q \in Reqs : ReqLinked(req[q]))' /\ req' \in [Reqs -> Request] /\ faults' \in Nat
  BY <1>1, <1>2, <1>3, ReqsLinked, WellBasics DEF OtherReqs, Shape
<1>5. (\A s \in Tabs : TabLinked(tab[s]))' /\ tab' \in [Tabs -> Row]
  <2>1. CASE UNCHANGED tab
    BY <1>1, <2>1, WellBasics DEF TabLinked, FlightLinked, Made, Grows, Shape
  <2>2. CASE OnlyFly(t) /\ (Fly(t)' = Fly(t) \/ Fly(t)' = Takeoff(FALSE))
    <3>1. Takeoff(FALSE).st = "sent" /\ Takeoff(FALSE).sent = jar /\ Made(jar)
      BY TakeoffIs, WellBasics DEF Made
    <3>. QED  BY <1>1, <1>2, <2>2, <3>1, SentWell
  <2>. QED  BY <1>2, <2>1, <2>2
<1>. QED  BY <1>1, <1>4, <1>5, BrowserWell

LEMMA AgainWell == ASSUME Well, NEW r \in Reqs, Again(r) PROVE Well'
<1>1. UNCHANGED <<jar, tab, faults>> /\ ServerSame /\ RestSame /\ Grows /\ Minted' = Minted
  BY WellBasics DEF Again, ServerSame
<1>2. OtherReqs(r) /\ req'[r].st \in {"ok", "failed"}
  BY AgainReq, WellBasics
<1>3. ReqLinked(req[r])'
  BY <1>2 DEF ReqLinked
<1>4. (\A q \in Reqs : ReqLinked(req[q]))' /\ req' \in [Reqs -> Request]
  BY <1>1, <1>2, <1>3, ReqsLinked, WellBasics DEF OtherReqs
<1>5. (\A s \in Tabs : TabLinked(tab[s]))' /\ tab' \in [Tabs -> Row] /\ faults' \in Nat
  BY <1>1, WellBasics DEF TabLinked, FlightLinked, Made, Grows, Shape
<1>. QED  BY <1>1, <1>4, <1>5, BrowserWell

LEMMA BootstrapWell == ASSUME Well, NEW t \in Tabs, Bootstrap(t) PROVE Well'
<1>1. UNCHANGED <<jar, req, faults>> /\ ServerSame /\ RestSame /\ Grows /\ Minted' = Minted
  BY WellBasics DEF Bootstrap, ServerSame
<1>2. /\ Others(t) /\ tab'[t].tok = tab[t].tok /\ Out(t)' = Out(t)
      /\ Fly(t)' = Fly(t) \/ Fly(t)' = Takeoff(TRUE)
  BY BootstrapTab, WellBasics
<1>3. Takeoff(TRUE).st = "sent" /\ Takeoff(TRUE).sent = jar /\ Made(jar)
  BY TakeoffIs, WellBasics DEF Made
<1>4. FlightLinked(Fly(t))' /\ Named(tab[t])'
  BY <1>1, <1>2, <1>3, WellBasics DEF FlightLinked, Named, Made, Out, Grows
<1>5. (\A s \in Tabs : TabLinked(tab[s]))' /\ tab' \in [Tabs -> Row]
  BY <1>1, <1>2, <1>4, TabsLinked, WellBasics DEF Others
<1>6. (\A q \in Reqs : ReqLinked(req[q]))' /\ req' \in [Reqs -> Request] /\ faults' \in Nat
  BY <1>1, ReqsLinked, WellBasics DEF Shape
<1>. QED  BY <1>1, <1>5, <1>6, BrowserWell

LEMMA CheckFamilyWell == ASSUME Well, NEW t \in Tabs, CheckFamily(t) PROVE Well'
<1>1. UNCHANGED <<jar, req, faults>> /\ ServerSame /\ RestSame /\ Grows
  BY WellBasics DEF CheckFamily, ServerSame
<1>2. OnlyFly(t) /\ Fly(t)'.sent = Fly(t).sent /\ Fly(t)'.st \in {"user", "refused"}
      /\ (Fly(t)'.st = "user" => Fly(t).sent # 0)
  BY CheckFamilyTab, WellBasics
<1>3. (\A s \in Tabs : TabLinked(tab[s]))' /\ tab' \in [Tabs -> Row]
  BY <1>1, <1>2, SentWell, WellBasics DEF FlightLinked
<1>4. (\A q \in Reqs : ReqLinked(req[q]))' /\ req' \in [Reqs -> Request] /\ faults' \in Nat
  BY <1>1, ReqsLinked, WellBasics DEF Shape
<1>. QED  BY <1>1, <1>3, <1>4, BrowserWell

LEMMA FailWell == ASSUME Well, NEW t \in Tabs, Fail(t), Fault \/ NoFault PROVE Well'
<1>1. UNCHANGED jar /\ ServerSame /\ RestSame /\ Grows /\ Minted' = Minted
  BY WellBasics DEF Fail, ServerSame
<1>2. /\ Others(t) /\ Fly(t)' = NoFlight /\ Out(t)' = Out(t) /\ tab'[t].tok \in {tab[t].tok, 0}
  BY FailTab, WellBasics
<1>3. FlightLinked(Fly(t))' /\ Named(tab[t])'
  BY <1>1, <1>2, NoFlightIs, WellBasics DEF FlightLinked, Named, Made, Out, Grows
<1>4. (\A s \in Tabs : TabLinked(tab[s]))' /\ tab' \in [Tabs -> Row]
  BY <1>1, <1>2, <1>3, TabsLinked, WellBasics DEF Others
<1>5. /\ req' \in [Reqs -> Request]
      /\ \A q \in Reqs : req'[q] = req[q] \/ req'[q].st = "failed"
  BY WakeIs, WellBasics DEF Fail
<1>6. (\A q \in Reqs : ReqLinked(req[q]))'
  BY <1>1, <1>5, ReqsLinked, WellBasics DEF ReqLinked
<1>. QED  BY <1>1, <1>4, <1>5, <1>6, BrowserWell, FaultIs, WellBasics

LEMMA LogoutWell == ASSUME Well, NEW t \in Tabs, Logout(t) PROVE Well'
<1>1. UNCHANGED <<jar, req, faults>> /\ ServerSame /\ RestSame /\ Grows /\ Minted' = Minted
  BY WellBasics DEF Logout, ServerSame
<1>2. /\ OnlyOut(t) /\ tab'[t].tok = tab[t].tok /\ tab[t].tok # 0
      /\ Out(t)'.used = tab[t].tok /\ Out(t)'.ref = jar
  BY LogoutTab, WellBasics
<1>3. FlightLinked(Fly(t))' /\ Named(tab[t])' /\ Others(t)
  BY <1>1, <1>2, WellBasics DEF FlightLinked, Named, Made, Out, Grows, OnlyOut
<1>4. (\A s \in Tabs : TabLinked(tab[s]))' /\ tab' \in [Tabs -> Row]
  BY <1>1, <1>3, TabsLinked, WellBasics DEF Others
<1>5. (\A q \in Reqs : ReqLinked(req[q]))' /\ req' \in [Reqs -> Request] /\ faults' \in Nat
  BY <1>1, ReqsLinked, WellBasics DEF Shape
<1>. QED  BY <1>1, <1>4, <1>5, BrowserWell

LEMMA LoseLogoutWell == ASSUME Well, NEW t \in Tabs, LoseLogout(t) PROVE Well'
<1>1. UNCHANGED <<jar, req>> /\ Fault /\ ServerSame /\ RestSame /\ Grows /\ Minted' = Minted
  BY WellBasics DEF LoseLogout, ServerSame
<1>2. OnlyOut(t) /\ tab'[t].tok = 0 /\ Out(t)'.st # "sent" /\ Out(t)'.ref = Out(t).ref
  BY LeaveTab, WellBasics
<1>3. FlightLinked(Fly(t))' /\ Named(tab[t])' /\ Others(t)
  BY <1>1, <1>2, WellBasics DEF FlightLinked, Named, Made, Out, Grows, OnlyOut
<1>4. (\A s \in Tabs : TabLinked(tab[s]))' /\ tab' \in [Tabs -> Row]
  BY <1>1, <1>3, TabsLinked, WellBasics DEF Others
<1>5. (\A q \in Reqs : ReqLinked(req[q]))' /\ req' \in [Reqs -> Request]
  BY <1>1, ReqsLinked, WellBasics DEF Shape
<1>. QED  BY <1>1, <1>4, <1>5, BrowserWell, FaultIs, WellBasics

(* The steps of the server, of the cookie and of time.                     *)
LEMMA ReadUserWell == ASSUME Well, NEW t \in Tabs, ReadUser(t) PROVE Well'
<1>1. /\ UNCHANGED <<db, handed, denied, minimum, issued, replayed, jar, req, faults>> /\ RestSame
      /\ Grows /\ Numbered' /\ Minted' = Minted
  BY WellBasics DEF ReadUser
<1>2. OnlyFly(t) /\ Fly(t)'.sent = Fly(t).sent /\ Fly(t)'.st \in {"rotate", "refused"} /\ Fly(t)'.ver = db.ver
      /\ Fly(t).st = "user"
  BY ReadUserTab, WellBasics
<1>3. FlightLinked(Fly(t))' /\ Named(tab[t])'
  BY <1>1, <1>2, WellBasics DEF FlightLinked, Named, Made, Out, Grows, OnlyFly, Shape
<1>4. (\A s \in Tabs : TabLinked(tab[s]))' /\ tab' \in [Tabs -> Row]
  BY <1>1, <1>2, <1>3, TabsLinked, WellBasics DEF Others, OnlyFly
<1>5. family' \in [Families -> Ids \union {0}] /\ \A f \in Families : family'[f] \in {family[f], 0}
  BY WellBasics DEF ReadUser, Shape
<1>6. UNCHANGED <<expired, scene, revoke, sign, lock, newest>>
  BY <1>1 DEF RestSame, OthersSame, CourseSame
<1>7. Shape'
  BY <1>1, <1>4, <1>5, <1>6, WellBasics DEF Shape
<1>8. Linked'
  BY <1>1, <1>4, <1>5, <1>6, WellBasics, ReqsLinked DEF Linked, Of, Made
<1>. QED  BY <1>1, <1>7, <1>8 DEF Well

LEMMA RotateWell == ASSUME Well, NEW t \in Tabs, Rotate(t) PROVE Well'
<1>. DEFINE sent == Fly(t).sent
            f == issued[sent].fam
            out == HandedOut(sent, Fresh)
            k == Fresh
<1>1. UNCHANGED <<db, denied, minimum, jar, req, faults, expired, scene, revoke, sign, lock, newest>>
  BY DEF Rotate, RestSame, OthersSame, CourseSame
<1>2. /\ OnlyFly(t) /\ sent \in Minted /\ f \in Families /\ k \in Ids /\ Fly(t).ver \in 1 .. 2
      /\ Fly(t)'.sent = sent /\ Fly(t)'.mine = k /\ Fly(t)'.out = out /\ out \in Ids \union {0}
      /\ Fly(t)'.st = (IF out = 0 THEN "refused" ELSE "reply")
      /\ issued' = [issued EXCEPT ![Fresh] = [fam |-> f, ver |-> Fly(t).ver]]
      /\ out \in {0, k, handed[sent]}
  BY RotateTab, WellBasics
<1>3. Grows /\ Numbered' /\ Minted' = Minted \union {k} /\ issued'[k].fam = f
      /\ issued' \in [Ids -> [fam : Families \union {0}, ver : 0 .. 2]]
  BY <1>2, Minting, WellBasics
<1>4. sent \in Ids /\ Of(handed[sent], f)
  BY <1>2, WellBasics DEF Linked, Of
<1>5. FlightLinked(Fly(t))' /\ Named(tab[t])'
  <2>1. out # 0 => out \in Minted' /\ issued'[out].fam = f
    BY <1>2, <1>3, <1>4 DEF Of, Grows
  <2>2. issued'[sent].fam = f /\ sent \in Minted' /\ sent # 0
    BY <1>2, <1>3, IdsAre, WellBasics DEF Grows
  <2>3. FlightLinked(Fly(t))'
    BY <1>2, <1>3, <2>1, <2>2 DEF FlightLinked, Made
  <2>. QED  BY <2>3, <1>2, <1>3, WellBasics DEF Named, Made, Out, Grows, OnlyFly
<1>6. (\A s \in Tabs : TabLinked(tab[s]))' /\ tab' \in [Tabs -> Row]
  BY <1>2, <1>3, <1>5, TabsLinked, WellBasics DEF Others, OnlyFly
<1>7. /\ family' \in [Families -> Ids \union {0}]
      /\ \A g \in Families : family'[g] \in {family[g], 0} \/ (g = f /\ family'[g] = k)
  <2>1. \/ family' = [family EXCEPT ![f] = k] \/ family' = [family EXCEPT ![f] = 0] \/ family' = family
    BY DEF Rotate, FamilyOf
  <2>. HIDE DEF k, f
  <2>. QED  BY <1>2, <2>1, WellBasics DEF Shape
<1>8. /\ handed' \in [Ids -> Ids \union {0}]
      /\ \A i \in Ids : handed'[i] = handed[i] \/ (i = sent /\ handed'[i] = k)
  <2>1. handed' = [handed EXCEPT ![sent] = k] \/ handed' = handed
    BY DEF Rotate
  <2>. HIDE DEF k, sent
  <2>. QED  BY <1>2, <2>1, WellBasics DEF Shape
<1>. HIDE DEF k, f
<1>9. Shape'
  BY <1>1, <1>3, <1>6, <1>7, <1>8, WellBasics DEF Shape
<1>10. Linked'
  <2>1. denied' \subseteq Minted' /\ expired' \subseteq Minted' /\ Made(jar)' /\ (sign.for # 0 => sign.ver \in 1 .. 2)'
    BY <1>1, <1>3, WellBasics DEF Linked, Made, Grows
  <2>2. \A g \in Families : Of(family[g], g)' /\ Of(newest[g], g)'
    BY <1>1, <1>3, <1>7, WellBasics DEF Linked, Of, Grows
  <2>3. ASSUME NEW i \in Ids, handed'[i] # 0 PROVE i \in Minted' /\ Of(handed[i], issued[i].fam)'
    <3>1. CASE handed'[i] = handed[i]
      BY <1>3, <2>3, <3>1, WellBasics DEF Linked, Of, Grows
    <3>2. CASE i = sent /\ handed'[i] = k
      <4>1. issued'[i].fam = f /\ issued'[k].fam = f
        BY <1>2, <1>3, <3>2 DEF Grows, f
      <4>. QED  BY <1>2, <1>3, <3>2, <4>1 DEF Of
    <3>. QED  BY <1>8, <3>1, <3>2
  <2>4. (\A q \in Reqs : ReqLinked(req[q]))'
    BY <1>1, <1>3, ReqsLinked, WellBasics
  <2>. QED  BY <1>6, <2>1, <2>2, <2>3, <2>4 DEF Linked
<1>. QED  BY <1>3, <1>9, <1>10 DEF Well

LEMMA DeliverWell == ASSUME Well, NEW t \in Tabs, Deliver(t) PROVE Well'
<1>1. /\ UNCHANGED <<faults, db, family, handed, denied, minimum, issued, replayed, expired, scene, revoke, sign, lock>>
      /\ Grows /\ Numbered' /\ Minted' = Minted
  BY WellBasics DEF Deliver, ServerSame, OthersSame
<1>2. /\ Others(t) /\ Fly(t).st = "reply" /\ Fly(t)' = NoFlight /\ Out(t)' = Out(t)
      /\ tab'[t].tok = Fly(t).mine /\ jar' = Fly(t).out
  BY DeliverTab, WellBasics
<1>3. Fly(t).mine \in Minted /\ Fly(t).out \in Minted
  BY <1>2, WellBasics DEF FlightLinked
<1>4. FlightLinked(Fly(t))' /\ Named(tab[t])' /\ Made(jar)'
  BY <1>1, <1>2, <1>3, NoFlightIs, WellBasics DEF FlightLinked, Named, Made, Out, Grows
<1>5. (\A s \in Tabs : TabLinked(tab[s]))' /\ tab' \in [Tabs -> Row]
  BY <1>1, <1>2, <1>4, TabsLinked, WellBasics DEF Others
<1>6. /\ req' \in [Reqs -> Request]
      /\ \A q \in Reqs : req'[q] = req[q] \/ req'[q].used = Fly(t).mine
  <2>1. req' = Wake(t, "again", Fly(t).mine) /\ Fly(t).mine \in Ids \union {0}
    BY <1>3, WellBasics DEF Deliver
  <2>. QED  BY <2>1, WakeIs, WellBasics
<1>7. (\A q \in Reqs : ReqLinked(req[q]))'
  BY <1>1, <1>3, <1>6, ReqsLinked, WellBasics DEF ReqLinked
<1>8. /\ newest' \in [Families -> Ids \union {0}]
      /\ \A f \in Families : newest'[f] = newest[f] \/ (f = issued[Fly(t).out].fam /\ newest'[f] = Fly(t).out)
  <2>. DEFINE f == issued[Fly(t).out].fam
              n == IF newest[f] > Fly(t).out THEN newest[f] ELSE Fly(t).out
  <2>1. f \in Families /\ Fly(t).out \in Ids
    BY <1>3, WellBasics DEF Numbered
  <2>2. newest' = [newest EXCEPT ![f] = n]
    BY DEF Deliver, FamilyOf
  <2>3. n \in {newest[f], Fly(t).out} /\ n \in Ids \union {0}
    BY <2>1, WellBasics DEF Shape
  <2>. HIDE DEF n
  <2>. QED  BY <2>1, <2>2, <2>3, WellBasics DEF Shape
<1>9. Shape'
  BY <1>1, <1>5, <1>6, <1>8, WellBasics DEF Shape
<1>10. Linked'
  <2>1. \A f \in Families : Of(family[f], f)' /\ Of(newest[f], f)'
    BY <1>1, <1>3, <1>8, WellBasics DEF Linked, Of
  <2>. QED  BY <1>1, <1>4, <1>5, <1>7, <2>1, WellBasics DEF Linked, Of
<1>. QED  BY <1>1, <1>9, <1>10 DEF Well

LEMMA ServeLogoutWell == ASSUME Well, NEW t \in Tabs, ServeLogout(t) PROVE Well'
<1>1. /\ UNCHANGED <<db, handed, minimum, issued, replayed, jar, req, faults, expired, scene, revoke, sign, lock, newest>>
      /\ Grows /\ Numbered' /\ Minted' = Minted
  BY WellBasics DEF ServeLogout, RestSame, OthersSame, CourseSame
<1>2. OnlyOut(t) /\ tab'[t].tok = tab[t].tok /\ Out(t).st = "sent" /\ Out(t)'.st = "reply" /\ Out(t)'.ref = Out(t).ref
  BY ServeLogoutTab, WellBasics
<1>3. FlightLinked(Fly(t))' /\ Named(tab[t])' /\ Others(t) /\ Out(t).used \in Minted
  BY <1>1, <1>2, WellBasics DEF FlightLinked, Named, Made, Out, Grows, OnlyOut
<1>4. (\A s \in Tabs : TabLinked(tab[s]))' /\ tab' \in [Tabs -> Row]
  BY <1>1, <1>3, TabsLinked, WellBasics DEF Others
<1>5. /\ family' \in [Families -> Ids \union {0}] /\ \A f \in Families : family'[f] \in {family[f], 0}
      /\ denied' \subseteq denied \union {Out(t).used}
  BY WellBasics DEF ServeLogout, Shape
<1>6. Shape'
  BY <1>1, <1>4, <1>5, WellBasics DEF Shape
<1>7. Linked'
  BY <1>1, <1>3, <1>4, <1>5, WellBasics, ReqsLinked DEF Linked, Of, Made
<1>. QED  BY <1>1, <1>6, <1>7 DEF Well

LEMMA EndLogoutWell == ASSUME Well, NEW t \in Tabs, EndLogout(t) PROVE Well'
<1>1. /\ UNCHANGED <<db, family, denied, handed, minimum, issued, replayed, req, faults, expired, scene, revoke, sign,
                     lock, newest>>
      /\ Grows /\ Numbered' /\ Minted' = Minted /\ jar' \in {0, jar}
  BY WellBasics DEF EndLogout, RestSame, OthersSame, CourseSame, ServerSame
<1>2. OnlyOut(t) /\ tab'[t].tok = 0 /\ Out(t)'.st # "sent" /\ Out(t)'.ref = Out(t).ref
  BY LeaveTab, WellBasics
<1>3. FlightLinked(Fly(t))' /\ Named(tab[t])' /\ Others(t)
  BY <1>1, <1>2, WellBasics DEF FlightLinked, Named, Made, Out, Grows, OnlyOut
<1>4. (\A s \in Tabs : TabLinked(tab[s]))' /\ tab' \in [Tabs -> Row]
  BY <1>1, <1>3, TabsLinked, WellBasics DEF Others
<1>6. Shape'
  BY <1>1, <1>4, WellBasics DEF Shape
<1>7. Linked'
  BY <1>1, <1>3, <1>4, WellBasics, ReqsLinked DEF Linked, Of, Made
<1>. QED  BY <1>1, <1>6, <1>7 DEF Well

LEMMA IssueMints ==
  ASSUME Well, NEW t \in Tabs, Issue(t)
  PROVE  \E f \in Families :
           /\ \A i \in Ids : issued[i].fam # f
           /\ Fresh \in Ids /\ sign.for = t /\ sign.ver \in 1 .. 2
           /\ issued' = [issued EXCEPT ![Fresh] = [fam |-> f, ver |-> sign.ver]]
           /\ Grows /\ Numbered' /\ Minted' = Minted \union {Fresh} /\ issued'[Fresh].fam = f
           /\ issued'[Fresh].ver = sign.ver
           /\ issued' \in [Ids -> [fam : Families \union {0}, ver : 0 .. 2]]
           /\ family' = [family EXCEPT ![f] = Fresh] /\ newest' = [newest EXCEPT ![f] = Fresh]
           /\ jar' = Fresh /\ sign' = [ver |-> 0, for |-> 0]
<1>1. PICK f \in Families :
           /\ \A i \in Ids : issued[i].fam # f
           /\ issued' = [issued EXCEPT ![Fresh] = [fam |-> f, ver |-> sign.ver]]
           /\ family' = [family EXCEPT ![f] = Fresh] /\ newest' = [newest EXCEPT ![f] = Fresh]
  BY DEF Issue
<1>2. Fresh \in Ids /\ sign.for = t /\ jar' = Fresh /\ sign' = [ver |-> 0, for |-> 0]
  BY DEF Issue
<1>3. sign.ver \in 1 .. 2
  BY <1>2, SessionsAssumption, WellBasics DEF Linked
<1>4. /\ Grows /\ Numbered' /\ Minted' = Minted \union {Fresh} /\ issued'[Fresh].fam = f
      /\ issued'[Fresh].ver = sign.ver
      /\ issued' \in [Ids -> [fam : Families \union {0}, ver : 0 .. 2]]
  BY <1>1, <1>2, <1>3, Minting, WellBasics
<1>. QED  BY <1>1, <1>2, <1>3, <1>4

LEMMA IssueWell == ASSUME Well, NEW t \in Tabs, Issue(t) PROVE Well'
<1>. DEFINE k == Fresh
<1>1. UNCHANGED <<db, handed, denied, minimum, replayed, req, expired, scene, revoke, lock, overtaken, faults>>
  BY DEF Issue
<1>2. PICK f \in Families :
           /\ k \in Ids /\ Grows /\ Numbered' /\ Minted' = Minted \union {k} /\ issued'[k].fam = f
           /\ issued' \in [Ids -> [fam : Families \union {0}, ver : 0 .. 2]]
           /\ family' = [family EXCEPT ![f] = k] /\ newest' = [newest EXCEPT ![f] = k]
           /\ jar' = k /\ sign' = [ver |-> 0, for |-> 0]
  BY IssueMints
<1>3. Others(t) /\ tab'[t].tok = k /\ Fly(t)' = Fly(t) /\ Out(t)' = Out(t)
  BY IssueTab, WellBasics
<1>. HIDE DEF k
<1>4. FlightLinked(Fly(t))' /\ Named(tab[t])'
  BY <1>2, <1>3, WellBasics DEF FlightLinked, Named, Made, Out, Grows
<1>5. (\A s \in Tabs : TabLinked(tab[s]))' /\ tab' \in [Tabs -> Row]
  BY <1>2, <1>3, <1>4, TabsLinked, WellBasics DEF Others
<1>6. /\ family' \in [Families -> Ids \union {0}] /\ newest' \in [Families -> Ids \union {0}]
      /\ \A g \in Families : family'[g] = family[g] \/ (g = f /\ family'[g] = k)
      /\ \A g \in Families : newest'[g] = newest[g] \/ (g = f /\ newest'[g] = k)
  BY <1>2, WellBasics DEF Shape
<1>7. Shape'
  <2>1. sign' \in [ver : 0 .. 2, for : Tabs \union {0}] /\ sign'.for = 0
    BY <1>2
  <2>. QED  BY <1>1, <1>2, <1>5, <1>6, <2>1, WellBasics DEF Shape
<1>8. Linked'
  <2>1. denied' \subseteq Minted' /\ expired' \subseteq Minted' /\ Made(jar)' /\ (sign.for # 0 => sign.ver \in 1 .. 2)'
    BY <1>1, <1>2, WellBasics DEF Linked, Made, Grows
  <2>2. \A g \in Families : Of(family[g], g)' /\ Of(newest[g], g)'
    BY <1>2, <1>6, WellBasics DEF Linked, Of, Grows
  <2>3. ASSUME NEW i \in Ids, handed'[i] # 0 PROVE i \in Minted' /\ Of(handed[i], issued[i].fam)'
    BY <1>1, <1>2, <2>3, WellBasics DEF Linked, Of, Grows
  <2>4. (\A q \in Reqs : ReqLinked(req[q]))'
    BY <1>1, <1>2, ReqsLinked, WellBasics
  <2>. QED  BY <1>5, <2>1, <2>2, <2>3, <2>4 DEF Linked
<1>. QED  BY <1>2, <1>7, <1>8 DEF Well

(* Steps that leave the tabs, the requests and the tokens alone.           *)
LEMMA AsideWell ==
  ASSUME Well, UNCHANGED <<tab, req, issued, family, newest, denied, scene>>,
         db' \in [ver : 1 .. 2, status : {"active", "inactive"}], minimum' \in 0 .. 2,
         revoke' \in {"off", "changed", "bumped", "marked", "done"}, faults' \in Nat,
         lock' \in Locks,
         sign' \in [ver : 0 .. 2, for : Tabs \union {0}], (sign.for # 0 => sign.ver \in 1 .. 2)',
         expired' \subseteq Minted, jar' \in {0, jar},
         handed' \in [Ids -> Ids \union {0}], \A i \in Ids : handed'[i] \in {0, handed[i]}
  PROVE  Well'
<1>1. Grows /\ Numbered' /\ Minted' = Minted
  BY WellBasics
<1>2. Shape'
  BY WellBasics DEF Shape
<1>3. (\A s \in Tabs : TabLinked(tab[s]))' /\ (\A q \in Reqs : ReqLinked(req[q]))'
  BY <1>1, WellBasics DEF TabLinked, FlightLinked, ReqLinked, Made
<1>4. Linked'
  BY <1>1, <1>3, WellBasics DEF Linked, Of, Made
<1>. QED  BY <1>1, <1>2, <1>4 DEF Well

LEMMA LockIs ==
  ASSUME Shape
  PROVE  /\ lock \in Locks /\ lock.fails \in Nat /\ lock.ttl \in 0 .. LockTime
         /\ lock.trying \in 0 .. MaxTries /\ lock.fails + lock.trying < MaxAttempts + MaxTries
         /\ MaxAttempts \in Nat \ {0} /\ MaxTries \in Nat \ {0} /\ LockTime = 2
BY SessionsAssumption DEF Shape, Locks, LockTime

LEMMA LockOf ==
  ASSUME NEW f \in Nat, NEW l \in 0 .. LockTime, NEW n \in 0 .. MaxTries, f + n < MaxAttempts + MaxTries
  PROVE  [fails |-> f, ttl |-> l, trying |-> n] \in Locks
BY DEF Locks

(* No password is verified once the lock is there, so those that fail then *)
(* were let in before: the counter passes its limit by them at most.       *)
LEMMA LockMoves ==
  ASSUME Shape
  PROVE  /\ lock.trying < MaxTries => Admitted \in Locks
         /\ lock.trying > 0 =>
              [fails |-> lock.fails + 1, ttl |-> LockTime, trying |-> lock.trying - 1] \in Locks
         /\ lock.trying > 0 => Cleared \in Locks
         /\ lock.ttl > 0 =>
              [lock EXCEPT !.fails = IF lock.ttl = 1 THEN 0 ELSE lock.fails, !.ttl = lock.ttl - 1] \in Locks
<1>. DEFINE f == lock.fails
            n == lock.trying
            l == lock.ttl
            more == n + 1
            less == n - 1
            counted == f + 1
            some == IF l = 1 THEN 0 ELSE f
            left == l - 1
<1>1. /\ lock \in Locks /\ f \in Nat /\ l \in 0 .. LockTime /\ n \in 0 .. MaxTries
      /\ f + n < MaxAttempts + MaxTries
      /\ MaxAttempts \in Nat \ {0} /\ MaxTries \in Nat \ {0} /\ LockTime = 2
  BY LockIs
<1>2. lock = [fails |-> f, ttl |-> l, trying |-> n]
  BY <1>1 DEF Locks
<1>3. n < MaxTries => Admitted \in Locks
  <2>1. CASE Locked
    BY <1>1, <2>1 DEF Admitted
  <2>2. CASE ~Locked /\ n < MaxTries
    <3>1. f < MaxAttempts
      BY <1>1, <2>2 DEF Locked
    <3>2. more \in 0 .. MaxTries /\ f + more < MaxAttempts + MaxTries
      BY <1>1, <2>2, <3>1
    <3>3. Admitted = [fails |-> f, ttl |-> l, trying |-> more]
      <4>1. Admitted = [lock EXCEPT !.trying = more]
        BY <2>2 DEF Admitted
      <4>. QED  BY <1>1, <4>1 DEF Locks
    <3>. HIDE DEF more, f, l
    <3>. QED  BY <1>1, <3>2, <3>3, LockOf
  <2>. QED  BY <2>1, <2>2
<1>4. n > 0 => less \in 0 .. MaxTries /\ counted \in Nat /\ counted + less = f + n /\ 0 + less < MaxAttempts + MaxTries
  BY <1>1
<1>5. n > 0 => [fails |-> counted, ttl |-> LockTime, trying |-> less] \in Locks
  <2>1. LockTime \in 0 .. LockTime
    BY <1>1
  <2>. HIDE DEF less, counted, f, n
  <2>. QED  BY <1>1, <1>4, <2>1, LockOf
<1>6. n > 0 => Cleared \in Locks
  <2>1. Cleared = [fails |-> 0, ttl |-> 0, trying |-> less]
    BY DEF Cleared
  <2>2. 0 \in Nat /\ 0 \in 0 .. LockTime
    BY <1>1
  <2>. HIDE DEF less
  <2>. QED  BY <1>4, <2>1, <2>2, LockOf
<1>7. l > 0 => [lock EXCEPT !.fails = some, !.ttl = left] \in Locks
  <2>1. l > 0 => some \in Nat /\ left \in 0 .. LockTime /\ some + n < MaxAttempts + MaxTries
    BY <1>1
  <2>. HIDE DEF some, left
  <2>2. lock \in [fails : Nat, ttl : 0 .. LockTime, trying : 0 .. MaxTries]
    BY <1>1 DEF Locks
  <2>. DEFINE r == [lock EXCEPT !.fails = some, !.ttl = left]
  <2>3. l > 0 => /\ r \in [fails : Nat, ttl : 0 .. LockTime, trying : 0 .. MaxTries]
                 /\ r.fails = some /\ r.trying = n
    BY <2>1, <2>2
  <2>. HIDE DEF r
  <2>4. l > 0 => r \in Locks
    BY <2>1, <2>3 DEF Locks
  <2>. QED  BY <2>4 DEF r
<1>. QED  BY <1>3, <1>5, <1>6, <1>7

LEMMA LockWell == ASSUME Well, Try \/ Miss \/ LockTick PROVE Well'
<1>1. UNCHANGED <<expired, scene, revoke, sign, newest, overtaken, faults>> /\ ServerSame /\ ClientSame
  BY DEF Try, Miss, LockTick
<1>2. lock' \in Locks
  BY LockMoves, WellBasics DEF Try, Miss, LockTick
<1>3. UNCHANGED <<tab, req, jar, db, family, handed, denied, minimum, issued>>
  BY <1>1 DEF ServerSame, ClientSame
<1>. QED  BY <1>1, <1>2, <1>3, AsideWell, WellBasics DEF Shape, Linked

LEMMA LoginWell == ASSUME Well, NEW t \in Tabs, Login(t) PROVE Well'
<1>1. /\ UNCHANGED <<expired, scene, revoke, newest, overtaken, faults>> /\ ServerSame /\ ClientSame
      /\ sign' = [ver |-> db.ver, for |-> t] /\ lock' = Cleared /\ lock.trying > 0
  BY DEF Login
<1>2. lock' \in Locks
  BY <1>1, LockMoves, WellBasics
<1>3. UNCHANGED <<tab, req, jar, db, family, handed, denied, minimum, issued>>
  BY <1>1 DEF ServerSame, ClientSame
<1>4. db.ver \in 1 .. 2
  BY WellBasics DEF Shape
<1>5. sign' \in [ver : 0 .. 2, for : Tabs \union {0}] /\ sign'.ver \in 1 .. 2
  BY <1>1, <1>4
<1>. QED  BY <1>1, <1>2, <1>3, <1>5, AsideWell, WellBasics DEF Shape, Linked

LEMMA RevokeWell ==
  ASSUME Well, Versions, ChangePassword \/ Deactivate \/ Bump \/ Mark \/ Told
  PROVE  Well'
<1>1. db.ver \in 1 .. 2 /\ db \in [ver : 1 .. 2, status : {"active", "inactive"}]
  BY WellBasics DEF Shape
<1>2. /\ UNCHANGED <<tab, req, expired, scene, sign, newest, faults, family, handed, denied, issued>>
      /\ jar' \in {0, jar} /\ revoke' \in {"off", "changed", "bumped", "marked", "done"}
  BY DEF ChangePassword, Deactivate, Bump, Mark, Told, RevokeRest, ClientSame, ServerSame
<1>3. lock' \in Locks
  <2>1. lock' = lock \/ (lock' = Cleared /\ lock.trying > 0)
    BY DEF ChangePassword, Deactivate, Bump, Mark, Told
  <2>. QED  BY <2>1, LockIs, LockMoves, WellBasics
<1>4. minimum' \in 0 .. 2
  <2>1. minimum' \in {minimum, db.ver}
    BY DEF ChangePassword, Deactivate, Bump, Mark, Marked, Told, ServerSame
  <2>. QED  BY <1>1, <2>1, WellBasics DEF Shape
<1>5. db' \in [ver : 1 .. 2, status : {"active", "inactive"}]
  <2>1. CASE ChangePassword \/ Mark \/ Told
    BY <1>1, <2>1 DEF ChangePassword, Mark, Told, ServerSame
  <2>2. CASE Deactivate
    BY <1>1, <2>2 DEF Deactivate
  <2>3. CASE Bump
    <3>1. db.ver = 1 /\ db' = [db EXCEPT !.ver = db.ver + 1]
      BY <2>3 DEF Bump, Versions
    <3>2. db.ver + 1 \in 1 .. 2
      BY <3>1
    <3>. QED  BY <1>1, <3>1, <3>2
  <2>. QED  BY <2>1, <2>2, <2>3
<1>. QED  BY <1>2, <1>3, <1>4, <1>5, AsideWell, WellBasics DEF Shape, Linked

LEMMA MarkExpireWell == ASSUME Well, MarkExpire PROVE Well'
<1>1. /\ UNCHANGED <<tab, req, jar, scene, revoke, sign, lock, newest, db, family, handed, denied, issued, faults>>
      /\ minimum' = 0
  BY DEF MarkExpire, ClientSame, CourseSame
<1>2. expired' \subseteq Minted
  BY WellBasics DEF MarkExpire, Linked
<1>. QED  BY <1>1, <1>2, AsideWell, WellBasics DEF Shape, Linked

LEMMA ExpireWell == ASSUME Well, NEW i \in Ids, AccessExpire(i) \/ GraceExpire(i) PROVE Well'
<1>1. /\ UNCHANGED <<tab, req, jar, scene, revoke, sign, lock, newest, db, family, denied, minimum, issued>>
      /\ faults' \in Nat
  BY FaultIs, WellBasics DEF AccessExpire, GraceExpire, ServerSame, ClientSame, RestSame, OthersSame, CourseSame, Shape
<1>2. expired' \subseteq Minted
  BY WellBasics DEF AccessExpire, GraceExpire, RestSame, OthersSame, Linked
<1>3. handed' \in [Ids -> Ids \union {0}] /\ \A j \in Ids : handed'[j] \in {0, handed[j]}
  <2>1. handed' = handed \/ handed' = [handed EXCEPT ![i] = 0]
    BY DEF AccessExpire, GraceExpire, ServerSame
  <2>. QED  BY <2>1, WellBasics DEF Shape
<1>. QED  BY <1>1, <1>2, <1>3, AsideWell, WellBasics DEF Shape, Linked

LEMMA WellStep ==
  ASSUME Well, Versions, [Next]_vars
  PROVE  Well'
<1>1. ASSUME NEW t \in Tabs, ServerStep(t) \/ TabStep(t) \/ UserStep(t) \/ Lose(t) \/ LoseLogout(t) PROVE Well'
  <2>1. CASE ServerStep(t)
    BY <2>1, CheckFamilyWell, ReadUserWell, RotateWell, ServeLogoutWell, IssueWell DEF ServerStep
  <2>2. CASE TabStep(t)
    BY <2>2, DeliverWell, FailWell, EndLogoutWell DEF TabStep, Refused
  <2>3. CASE UserStep(t)
    BY <2>3, BootstrapWell, LogoutWell, LoginWell DEF UserStep
  <2>4. CASE Lose(t) \/ LoseLogout(t)
    BY <2>4, FailWell, LoseLogoutWell DEF Lose
  <2>. QED  BY <1>1, <2>1, <2>2, <2>3, <2>4
<1>2. ASSUME NEW r \in Reqs, Send(r) \/ RequestStep(r) PROVE Well'
  BY <1>2, SendWell, AnswerWell, AgainWell DEF RequestStep
<1>3. CASE UNCHANGED vars
  <2>1. UNCHANGED <<db, family, handed, denied, minimum, issued, expired, jar, tab, req, scene, revoke, sign, lock,
                    newest, faults>>
    BY <1>3 DEF vars
  <2>. QED  BY <2>1, AsideWell, WellBasics DEF Shape, Linked
<1>. QED  BY <1>1, <1>2, <1>3, LockWell, RevokeWell, ExpireWell, MarkExpireWell DEF Next

-----------------------------------------------------------------------------
(* Where the versions of tokens come from.                                 *)
Active == db.status = "active"
FlightSource(t) ==
  Fly(t)'.st = "rotate" =>
    \/ Fly(t).st = "rotate" /\ Fly(t)'.ver = Fly(t).ver
    \/ Fly(t)'.ver = db.ver /\ Active
TokenSource(i) ==
  \/ i \in Minted /\ issued'[i] = issued[i]
  \/ issued'[i].ver = sign.ver
  \/ \E t \in Tabs : Fly(t).st = "rotate" /\ issued'[i].ver = Fly(t).ver
Sources ==
  /\ \A t \in Tabs : FlightSource(t)
  /\ \A i \in Minted' : TokenSource(i)
  /\ sign'.ver \in {0, sign.ver} \/ (sign'.ver = db.ver /\ Active)

LEMMA OneFlight ==
  ASSUME NEW t \in Tabs, Others(t), FlightSource(t)
  PROVE  \A s \in Tabs : FlightSource(s)
BY DEF Others, FlightSource, Fly

LEMMA SourcesHold ==
  ASSUME Well, [Next]_vars
  PROVE  Sources
<1>0. UNCHANGED issued => \A i \in Minted' : TokenSource(i)
  BY WellBasics DEF TokenSource
<1>1. UNCHANGED tab => \A t \in Tabs : FlightSource(t)
  BY DEF FlightSource, Fly
<1>2. ASSUME NEW t \in Tabs, CheckFamily(t) PROVE Sources
  <2>1. UNCHANGED <<issued, sign>>
    BY <1>2 DEF CheckFamily, ServerSame, RestSame, OthersSame
  <2>2. Others(t) /\ FlightSource(t)
    BY <1>2, CheckFamilyTab, WellBasics DEF OnlyFly, FlightSource
  <2>. QED  BY <1>0, <2>1, <2>2, OneFlight DEF Sources
<1>3. ASSUME NEW t \in Tabs, ReadUser(t) PROVE Sources
  <2>1. UNCHANGED <<issued, sign>>
    BY <1>3 DEF ReadUser, RestSame, OthersSame
  <2>2. Others(t) /\ FlightSource(t)
    BY <1>3, ReadUserTab, WellBasics DEF OnlyFly, FlightSource, Active
  <2>. QED  BY <1>0, <2>1, <2>2, OneFlight DEF Sources
<1>4. ASSUME NEW t \in Tabs, Rotate(t) PROVE Sources
  <2>1. UNCHANGED sign
    BY <1>4 DEF Rotate, RestSame, OthersSame
  <2>2. Others(t) /\ FlightSource(t)
    BY <1>4, RotateTab, WellBasics DEF OnlyFly, FlightSource
  <2>3. /\ issued' = [issued EXCEPT ![Fresh] = [fam |-> issued[Fly(t).sent].fam, ver |-> Fly(t).ver]]
        /\ issued[Fly(t).sent].fam \in Families /\ Fly(t).ver \in 1 .. 2 /\ Fresh \in Ids /\ Fly(t).st = "rotate"
    BY <1>4, RotateTab, WellBasics
  <2>4. Grows /\ Minted' = Minted \union {Fresh} /\ issued'[Fresh].ver = Fly(t).ver
    BY <2>3, Minting, WellBasics
  <2>5. \A i \in Minted' : TokenSource(i)
    BY <2>3, <2>4 DEF TokenSource, Grows
  <2>. QED  BY <2>1, <2>2, <2>5, OneFlight DEF Sources
<1>5. ASSUME NEW t \in Tabs, Deliver(t) \/ Fail(t) \/ Bootstrap(t), UNCHANGED <<issued, sign>> PROVE Sources
  <2>1. Takeoff(TRUE).st = "sent" /\ NoFlight.st = "none"
    BY TakeoffIs, NoFlightIs, WellBasics DEF Made
  <2>2. Others(t) /\ (Fly(t)' \in {NoFlight, Takeoff(TRUE), Fly(t)})
    BY <1>5, DeliverTab, FailTab, BootstrapTab, WellBasics
  <2>3. FlightSource(t)
    BY <2>1, <2>2 DEF FlightSource
  <2>. QED  BY <1>0, <1>5, <2>2, <2>3, OneFlight DEF Sources
<1>6. ASSUME NEW t \in Tabs, Logout(t) \/ ServeLogout(t) \/ EndLogout(t) \/ LoseLogout(t) PROVE Sources
  <2>1. UNCHANGED <<issued, sign>>
    BY <1>6 DEF Logout, ServeLogout, EndLogout, LoseLogout, ServerSame, RestSame, OthersSame
  <2>2. OnlyOut(t)
    BY <1>6, LogoutTab, ServeLogoutTab, LeaveTab, WellBasics
  <2>3. Others(t) /\ FlightSource(t)
    BY <2>2 DEF OnlyOut, FlightSource
  <2>. QED  BY <1>0, <2>1, <2>3, OneFlight DEF Sources
<1>7. ASSUME NEW t \in Tabs, Issue(t) PROVE Sources
  <2>1. Fresh \in Ids /\ Grows /\ Minted' = Minted \union {Fresh} /\ issued'[Fresh].ver = sign.ver
        /\ sign' = [ver |-> 0, for |-> 0]
    BY <1>7, IssueMints
  <2>2. Others(t) /\ FlightSource(t)
    BY <1>7, IssueTab, WellBasics DEF FlightSource
  <2>3. \A i \in Minted' : TokenSource(i)
    BY <2>1 DEF TokenSource, Grows
  <2>4. sign'.ver = 0
    BY <2>1
  <2>. QED  BY <2>2, <2>3, <2>4, OneFlight DEF Sources
<1>8. ASSUME NEW r \in Reqs, Answer(r) PROVE Sources
  <2>1. UNCHANGED <<issued, sign>>
    BY <1>8 DEF Answer, ServerSame, RestSame, OthersSame
  <2>2. \/ UNCHANGED tab
        \/ Owner[r] \in Tabs /\ OnlyFly(Owner[r]) /\ Fly(Owner[r])' \in {Fly(Owner[r]), Takeoff(FALSE)}
    BY <1>8, AnswerMoves, WellBasics
  <2>3. Takeoff(FALSE).st = "sent"
    BY TakeoffIs, WellBasics DEF Made
  <2>4. \A t \in Tabs : FlightSource(t)
    <3>1. CASE Owner[r] \in Tabs /\ OnlyFly(Owner[r]) /\ Fly(Owner[r])' \in {Fly(Owner[r]), Takeoff(FALSE)}
      <4>1. Others(Owner[r]) /\ FlightSource(Owner[r])
        BY <2>3, <3>1 DEF OnlyFly, FlightSource
      <4>. QED  BY <3>1, <4>1, OneFlight
    <3>. QED  BY <1>1, <2>2, <3>1
  <2>. QED  BY <1>0, <2>1, <2>4 DEF Sources
<1>9. ASSUME UNCHANGED <<tab, issued>>, sign' = sign \/ (sign'.ver = db.ver /\ Active) PROVE Sources
  BY <1>0, <1>1, <1>9 DEF Sources
<1>10. ASSUME NEW t \in Tabs, Login(t) PROVE Sources
  <2>1. UNCHANGED <<tab, issued>> /\ sign' = [ver |-> db.ver, for |-> t] /\ Active
    BY <1>10 DEF Login, ServerSame, ClientSame, MayLogin, Active
  <2>2. sign'.ver = db.ver
    BY <2>1
  <2>. QED  BY <1>9, <2>1, <2>2
<1>11. ASSUME NEW t \in Tabs, ServerStep(t) \/ TabStep(t) \/ UserStep(t) \/ Lose(t) \/ LoseLogout(t) PROVE Sources
  <2>1. Deliver(t) \/ Refused(t) \/ Lose(t) \/ Bootstrap(t) => UNCHANGED <<issued, sign>>
    BY DEF Deliver, Refused, Lose, Fail, Bootstrap, ServerSame, RestSame, OthersSame
  <2>. QED  BY <1>2, <1>3, <1>4, <1>5, <1>6, <1>7, <1>10, <1>11, <2>1
            DEF ServerStep, TabStep, UserStep, Lose, Refused
<1>12. ASSUME NEW r \in Reqs, Send(r) \/ RequestStep(r) PROVE Sources
  <2>1. Send(r) \/ Again(r) => UNCHANGED <<tab, issued, sign>>
    BY DEF Send, Again, ServerSame, RestSame, OthersSame
  <2>. QED  BY <1>8, <1>9, <1>12, <2>1 DEF RequestStep
<1>13. ASSUME \/ ChangePassword \/ Deactivate \/ Bump \/ Mark \/ Told \/ Try \/ Miss \/ LockTick
              \/ MarkExpire \/ UNCHANGED vars
              \/ \E i \in Ids : AccessExpire(i) \/ GraceExpire(i)
       PROVE  Sources
  <2>1. UNCHANGED <<tab, issued, sign>>
    BY <1>13 DEF ChangePassword, Deactivate, Bump, Mark, Told, Try, Miss, LockTick, MarkExpire, vars, AccessExpire, GraceExpire,
                 RevokeRest, ServerSame, ClientSame, RestSame, OthersSame
  <2>. QED  BY <1>9, <2>1
<1>. QED  BY <1>11, <1>12, <1>13 DEF Next

(* The rest of the system does not take part in a revocation.              *)
LEMMA RevokingSteps ==
  ASSUME Well, [Next]_vars
  PROVE  /\ UNCHANGED scene
         /\ \/ UNCHANGED <<db, revoke>> /\ minimum' \in {0, minimum}
            \/ /\ revoke = "off" /\ revoke' = "changed" /\ UNCHANGED minimum
               /\ \/ scene.does = "password" /\ UNCHANGED db
                  \/ scene.does = "deactivate" /\ db'.ver = db.ver /\ db'.status = "inactive"
            \/ /\ revoke = "changed" /\ revoke' = "bumped" /\ UNCHANGED minimum
               /\ db'.ver = db.ver + 1 /\ db'.status = db.status
            \/ revoke = "bumped" /\ revoke' = "marked" /\ UNCHANGED db /\ minimum' = db.ver
            \/ revoke = "marked" /\ revoke' = "done" /\ UNCHANGED <<db, minimum>>
<1>0. db \in [ver : 1 .. 2, status : {"active", "inactive"}]
  BY WellBasics DEF Shape
<1>1. ASSUME NEW t \in Tabs, ServerStep(t) \/ TabStep(t) \/ UserStep(t) \/ Lose(t) \/ LoseLogout(t)
      PROVE  UNCHANGED <<scene, db, minimum, revoke>>
  BY <1>1 DEF ServerStep, CheckFamily, ReadUser, Rotate, ServeLogout, Issue, TabStep, Deliver, Refused, EndLogout,
              UserStep, Bootstrap, Logout, Login, Lose, Fail, LoseLogout, ServerSame, RestSame, OthersSame
<1>2. ASSUME NEW r \in Reqs, Send(r) \/ RequestStep(r) PROVE UNCHANGED <<scene, db, minimum, revoke>>
  BY <1>2 DEF Send, RequestStep, Answer, Again, ServerSame, RestSame, OthersSame
<1>3. ASSUME Try \/ Miss \/ LockTick \/ (\E i \in Ids : AccessExpire(i) \/ GraceExpire(i)) \/ UNCHANGED vars
      PROVE  UNCHANGED <<scene, db, minimum, revoke>>
  BY <1>3 DEF Try, Miss, LockTick, AccessExpire, GraceExpire, vars, ServerSame, RestSame, OthersSame
<1>4. CASE ChangePassword
  BY <1>4 DEF ChangePassword, RevokeRest
<1>5. CASE Deactivate
  BY <1>0, <1>5 DEF Deactivate, RevokeRest
<1>6. CASE Bump
  BY <1>0, <1>6 DEF Bump, RevokeRest
<1>7. CASE Mark
  BY <1>7 DEF Mark, RevokeRest, Marked
<1>8. CASE Told
  BY <1>8 DEF Told, ServerSame
<1>9. CASE MarkExpire
  BY <1>9 DEF MarkExpire
<1>. QED  BY <1>1, <1>2, <1>3, <1>4, <1>5, <1>6, <1>7, <1>8, <1>9 DEF Next

LEMMA RevocationStep ==
  ASSUME Well, Versions, Excluded, [Next]_vars
  PROVE  Versions' /\ Excluded'
<1>1. Sources /\ Well'
  BY SourcesHold, WellStep
<1>2. db.ver \in 1 .. 2 /\ db'.ver \in 1 .. 2 /\ sign.ver \in 0 .. 2 /\ sign'.ver \in 0 .. 2
  BY <1>1, WellBasics DEF Shape, Well
<1>3. /\ \A i \in Minted : issued[i].ver \in 1 .. 2
      /\ \A i \in Minted' : issued'[i].ver \in 1 .. 2
  BY <1>1 DEF Well, Numbered
<1>4. \A t \in Tabs : Fly(t).ver \in 0 .. 2 /\ Fly(t)'.ver \in 0 .. 2
  BY <1>1, WellBasics DEF Well, Shape, Row, Flight, Fly
<1>5. ASSUME NEW top \in 1 .. 2, \A i \in Minted : issued[i].ver <= top,
             \A t \in Tabs : Fly(t).st = "rotate" => Fly(t).ver <= top, sign.ver <= top,
             ~Active \/ db.ver <= top
      PROVE  /\ \A i \in Minted' : issued'[i].ver <= top
             /\ \A t \in Tabs : Fly(t)'.st = "rotate" => Fly(t)'.ver <= top
             /\ sign'.ver <= top
  <2>1. \A i \in Minted' : issued'[i].ver <= top
    BY <1>1, <1>5 DEF Sources, TokenSource
  <2>2. \A t \in Tabs : Fly(t)'.st = "rotate" => Fly(t)'.ver <= top
    BY <1>1, <1>5 DEF Sources, FlightSource
  <2>3. sign'.ver <= top
    BY <1>1, <1>2, <1>5 DEF Sources
  <2>. QED  BY <2>1, <2>2, <2>3
<1>6. /\ \A i \in Minted' : issued'[i].ver <= db.ver
      /\ \A t \in Tabs : Fly(t)'.st = "rotate" => Fly(t)'.ver <= db.ver
      /\ sign'.ver <= db.ver
  BY <1>2, <1>5 DEF Versions
<1>7. db.ver <= db'.ver
  BY <1>2, RevokingSteps
<1>8. Versions'
  <2>1. /\ \A i \in Minted' : issued'[i].ver <= db'.ver
        /\ \A t \in Tabs : Fly(t)'.st = "rotate" => Fly(t)'.ver <= db'.ver
        /\ sign'.ver <= db'.ver
    BY <1>2, <1>3, <1>4, <1>6, <1>7
  <2>2. /\ revoke' \in {"off", "changed"} => db'.ver = 1
        /\ revoke' = "off" => db'.status = "active"
        /\ minimum' \in IF revoke' \in {"marked", "done"} THEN {0, db'.ver} ELSE {0}
    BY <1>2, RevokingSteps DEF Versions
  <2>. QED  BY <2>1, <2>2 DEF Versions
<1>9. Excluded'
  <2>. SUFFICES ASSUME revoke' # "off", scene'.does = "deactivate"
                PROVE  /\ db'.status = "inactive"
                       /\ \A i \in Minted' : issued'[i].ver <= 1
                       /\ \A t \in Tabs : Fly(t)'.st = "rotate" => Fly(t)'.ver <= 1
                       /\ sign'.ver <= 1
                       /\ revoke' \in {"bumped", "marked", "done"} => db'.ver = 2
    BY DEF Excluded
  <2>1. CASE revoke = "off"
    <3>1. db.ver = 1 /\ db'.status = "inactive" /\ revoke' = "changed"
      BY <2>1, RevokingSteps DEF Versions
    <3>. QED  BY <1>6, <3>1
  <2>2. CASE revoke # "off"
    <3>1. Excluded /\ scene.does = "deactivate" /\ db.status = "inactive"
      BY <2>2, RevokingSteps DEF Excluded
    <3>2. ~Active
      BY <3>1 DEF Active
    <3>3. /\ \A i \in Minted' : issued'[i].ver <= 1
          /\ \A t \in Tabs : Fly(t)'.st = "rotate" => Fly(t)'.ver <= 1
          /\ sign'.ver <= 1
      BY <1>5, <2>2, <3>1, <3>2 DEF Excluded
    <3>4. db'.status = "inactive"
      BY <3>1, RevokingSteps
    <3>5. revoke' \in {"bumped", "marked", "done"} => db'.ver = 2
      BY <2>2, <3>1, RevokingSteps DEF Excluded, Versions
    <3>. QED  BY <3>3, <3>4, <3>5
  <2>. QED  BY <2>1, <2>2
<1>. QED  BY <1>8, <1>9

(* The key of a revocation goes after the tokens it is to outlive, and     *)
(* whatever is made later has a higher number than they.                   *)
LEMMA LapsedStep ==
  ASSUME Well, Versions, Lapsed, [Next]_vars
  PROVE  Lapsed'
<1>1. /\ Minted \subseteq Ids /\ Cardinality(Minted) \in Nat /\ Fresh \in Nat
      /\ Minted = 1 .. Cardinality(Minted)
  BY FreshIsNew, WellBasics DEF Numbered
<1>2. /\ Cardinality(Minted') \in Nat /\ Fresh' \in Nat /\ Minted' = 1 .. Cardinality(Minted')
  <2>1. Numbered' /\ Minted' \subseteq Ids
    BY WellStep DEF Well, Minted
  <2>2. IsFiniteSet(Minted')
    BY <2>1, IdsAre, FS_Subset
  <2>3. Cardinality(Minted') \in Nat
    BY <2>2, FS_CardinalityType
  <2>. QED  BY <2>1, <2>3 DEF Numbered, Fresh
<1>3. \A i \in Minted' : i \in Minted \/ i >= Fresh
  <2>1. \A i \in Nat \ {0} : i \in Minted \/ i >= Fresh
    BY <1>1 DEF Fresh
  <2>. QED  BY <1>2, <2>1
<1>4. Minted \subseteq Minted'
  <2>1. CASE UNCHANGED issued
    BY <2>1, WellBasics
  <2>2. ASSUME NEW t \in Tabs, Rotate(t) PROVE Minted \subseteq Minted'
    <3>1. /\ issued' = [issued EXCEPT ![Fresh] = [fam |-> issued[Fly(t).sent].fam, ver |-> Fly(t).ver]]
          /\ issued[Fly(t).sent].fam \in Families /\ Fly(t).ver \in 1 .. 2 /\ Fresh \in Ids
      BY <2>2, RotateTab, WellBasics
    <3>. QED  BY <3>1, Minting, WellBasics
  <2>3. ASSUME NEW t \in Tabs, Issue(t) PROVE Minted \subseteq Minted'
    BY <2>3, IssueMints
  <2>4. UNCHANGED issued \/ \E t \in Tabs : Rotate(t) \/ Issue(t)
    BY DEF Next, vars, ServerStep, TabStep, UserStep, RequestStep, CheckFamily, ReadUser, ServeLogout, Deliver,
       Refused, EndLogout, Bootstrap, Logout, Login, Lose, LoseLogout, Fail, Send, Answer, Again, ChangePassword,
       Deactivate, Bump, Mark, Told, Try, Miss, LockTick, MarkExpire, AccessExpire, GraceExpire, RevokeRest,
       ServerSame
  <2>. QED  BY <2>1, <2>2, <2>3, <2>4
<1>5. Fresh <= Fresh'
  <2>1. Cardinality(Minted) <= Cardinality(Minted')
    <3>1. 1 .. Cardinality(Minted) \subseteq 1 .. Cardinality(Minted')
      BY <1>1, <1>2, <1>4
    <3>2. \A m, n \in Nat : 1 .. m \subseteq 1 .. n => m <= n
      OBVIOUS
    <3>. QED  BY <1>1, <1>2, <3>1, <3>2
  <2>. QED  BY <1>1, <1>2, <2>1 DEF Fresh
<1>6. CASE Mark
  <2>1. lasting' \in 1 .. Fresh /\ minimum' = db.ver /\ db.ver \in 1 .. 2
    BY <1>6, WellBasics DEF Mark, Marked, Shape
  <2>. QED  BY <1>1, <1>2, <1>5, <2>1 DEF Lapsed
<1>7. CASE MarkExpire
  <2>1. UNCHANGED <<lasting, issued>> /\ expired' = expired \union {i \in Minted : i < lasting}
    BY <1>7 DEF MarkExpire
  <2>2. Minted' = Minted
    BY <2>1, WellBasics
  <2>. QED  BY <1>2, <1>5, <2>1, <2>2, <1>1 DEF Lapsed
<1>8. CASE ~Mark /\ ~MarkExpire
  <2>1. UNCHANGED <<minimum, lasting>> /\ expired \subseteq expired'
    BY <1>8 DEF Next, vars, ServerStep, TabStep, UserStep, RequestStep, CheckFamily, ReadUser, Rotate, ServeLogout,
       Issue, Deliver, Refused, EndLogout, Bootstrap, Logout, Login, Lose, LoseLogout, Fail, Send, Answer, Again,
       ChangePassword, Deactivate, Bump, Told, Try, Miss, LockTick, AccessExpire, GraceExpire, RevokeRest,
       ServerSame, RestSame, OthersSame
  <2>2. revoke' \in {"marked", "done"} => revoke \in {"marked", "done"}
    <3>1. UNCHANGED revoke \/ Told \/ revoke' \in {"changed", "bumped"}
      BY <1>8 DEF Next, vars, ServerStep, TabStep, UserStep, RequestStep, CheckFamily, ReadUser, Rotate, ServeLogout,
         Issue, Deliver, Refused, EndLogout, Bootstrap, Logout, Login, Lose, LoseLogout, Fail, Send, Answer, Again,
         ChangePassword, Deactivate, Bump, Try, Miss, LockTick, AccessExpire, GraceExpire, RestSame, OthersSame
    <3>. QED  BY <3>1 DEF Told
  <2>3. ASSUME revoke' \in {"marked", "done"}, minimum' = 0, NEW i \in Minted', i < lasting'
        PROVE  i \in expired'
    <3>1. i \in Minted
      BY <1>1, <1>2, <1>3, <2>1, <2>3 DEF Lapsed
    <3>. QED  BY <2>1, <2>2, <2>3, <3>1 DEF Lapsed
  <2>. QED  BY <1>1, <1>2, <1>5, <2>1, <2>3 DEF Lapsed
<1>. QED  BY <1>6, <1>7, <1>8

-----------------------------------------------------------------------------
(* While nothing is lost, slow or overtaken.                               *)
HandedQuiet == \A i \in Ids : handed[i] # 0 => Known(handed[i])
CookieQuiet == jar # 0 => jar = newest[issued[jar].fam]

LEMMA QuietParts ==
  QuietInv <=> (Quiet => /\ ~replayed /\ CookieQuiet /\ HandedQuiet
                         /\ \A f \in Families : FamilyQuiet(f)
                         /\ \A t \in Tabs : FlightQuiet(Fly(t)))
BY DEF QuietInv, CookieQuiet, HandedQuiet

(* Families may end, cookies may be given up, and flights may begin or     *)
(* turn, as long as no answer is lost.                                     *)
LEMMA EbbQuiet ==
  ASSUME Well, QuietInv, Quiet, UNCHANGED <<issued, newest, handed>>, ~replayed',
         \A f \in Families : family'[f] \in {family[f], 0}, jar' \in {jar, 0},
         \A t \in Tabs : \/ Fly(t)' = Fly(t)
                         \/ /\ Fly(t).st # "reply"
                            /\ \E x \in Flight : Fly(t)' = x /\ FlightQuiet(x) /\ Made(x.sent) /\ x.st # "reply"
  PROVE  QuietInv'
<1>1. /\ CookieQuiet /\ HandedQuiet /\ \A f \in Families : FamilyQuiet(f)
      /\ \A t \in Tabs : FlightQuiet(Fly(t))
  BY QuietParts
<1>2. \A i \in Minted : issued[i].fam \in Families
  BY WellBasics DEF Numbered
<1>3. CookieQuiet'
  BY <1>1 DEF CookieQuiet
<1>4. ASSUME NEW i \in Minted, Known(i) PROVE Known(i)'
  BY <1>2, <1>4 DEF Known
<1>5. HandedQuiet'
  <2>1. \A i \in Ids : handed[i] # 0 => handed[i] \in Minted
    BY WellBasics DEF Linked, Of
  <2>. SUFFICES ASSUME NEW i \in Ids, handed'[i] # 0 PROVE Known(handed[i])'
    BY DEF HandedQuiet
  <2>2. handed[i] # 0 /\ handed[i] \in Minted /\ Known(handed[i])
    BY <1>1, <2>1 DEF HandedQuiet
  <2>. QED  BY <1>2, <2>2 DEF Known
<1>6. ASSUME NEW f \in Families PROVE FamilyQuiet(f)'
  <2>1. FamilyQuiet(f)
    BY <1>1
  <2>2. ASSUME NEW t \in Tabs, Carries(t, f), family'[f] = family[f] PROVE Carries(t, f)'
    BY <2>2 DEF Carries
  <2>. QED  BY <2>1, <2>2 DEF FamilyQuiet
<1>7. ASSUME NEW x \in Flight, FlightQuiet(x), Made(x.sent), x.st = "reply" => x.out \in Minted
      PROVE  FlightQuiet(x)'
  <2>1. x.sent # 0 => x.sent \in Minted /\ issued[x.sent].fam \in Families
    BY <1>2, <1>7 DEF Made
  <2>. QED  BY <1>2, <1>7, <2>1 DEF FlightQuiet, Known
<1>8. ASSUME NEW t \in Tabs PROVE FlightQuiet(Fly(t))'
  <2>1. PICK x \in Flight : Fly(t)' = x /\ FlightQuiet(x) /\ Made(x.sent) /\ (x.st = "reply" => x.out \in Minted)
    <3>1. Fly(t) \in Flight /\ FlightQuiet(Fly(t)) /\ Made(Fly(t).sent) /\ (Fly(t).st = "reply" => Fly(t).out \in Minted)
      BY <1>1, RowOf, WellBasics DEF FlightLinked
    <3>. QED  BY <3>1
  <2>2. FlightQuiet(x)'
    BY <1>7, <2>1
  <2>. QED  BY <2>1, <2>2 DEF FlightQuiet, Known
<1>. QED  BY <1>3, <1>5, <1>6, <1>8 DEF QuietInv, CookieQuiet, HandedQuiet

LEMMA TakeoffQuiet ==
  ASSUME Well, QuietInv, Quiet, NEW b \in BOOLEAN
  PROVE  LET x == Takeoff(b) IN x \in Flight /\ FlightQuiet(x) /\ Made(x.sent) /\ x.st = "sent"
<1>1. Takeoff(b) \in Flight /\ Takeoff(b).st = "sent" /\ Takeoff(b).sent = jar /\ Made(jar)
  BY TakeoffIs, WellBasics DEF Made
<1>2. ASSUME jar # 0 PROVE jar <= newest[issued[jar].fam]
                        /\ (family[issued[jar].fam] \in {0, jar} \/ handed[jar] # 0)
  <2>1. jar \in Minted /\ issued[jar].fam \in Families /\ jar \in Nat /\ jar = newest[issued[jar].fam]
    BY <1>2, IdsAre, WellBasics DEF Made, Numbered, QuietInv
  <2>2. FamilyQuiet(issued[jar].fam)
    BY <2>1 DEF QuietInv
  <2>. QED  BY <2>1, <2>2 DEF FamilyQuiet
<1>. QED  BY <1>1, <1>2 DEF FlightQuiet, Exchanging

LEMMA GraceQuiet ==
  ASSUME Well, QuietInv, Quiet, Quiet', NEW j \in Ids, GraceExpire(j)
  PROVE  QuietInv'
<1>1. /\ UNCHANGED <<issued, newest, family, jar, tab, replayed>>
      /\ handed' = [handed EXCEPT ![j] = 0] /\ handed[j] # 0
      /\ \A t \in Tabs : Fly(t).st \in {"sent", "user", "rotate", "reply"} => Fly(t).sent # j
  BY DEF GraceExpire, ClientSame, RestSame, OthersSame, CourseSame, Quiet, Fault
<1>2. \A i \in Ids : i # j => handed'[i] = handed[i]
  BY <1>1, WellBasics DEF Shape
<1>3. handed'[j] = 0
  BY <1>1, WellBasics DEF Shape
<1>4. HandedQuiet'
  BY <1>1, <1>2, <1>3 DEF QuietInv, HandedQuiet, Known
<1>5. ASSUME NEW f \in Families PROVE FamilyQuiet(f)'
  <2>1. FamilyQuiet(f) /\ newest[f] \in Ids \union {0}
    BY WellBasics DEF QuietInv, Shape
  <2>2. CASE family[f] = 0 \/ newest[f] = family[f]
    BY <1>1, <2>2 DEF FamilyQuiet
  <2>3. CASE /\ family[f] # 0 /\ newest[f] # 0 /\ newest[f] < family[f] /\ handed[newest[f]] = family[f]
             /\ \E t \in Tabs : Carries(t, f)
    <3>1. PICK t \in Tabs : Carries(t, f)
      BY <2>3
    <3>2. newest[f] # j
      BY <1>1, <3>1 DEF Carries
    <3>3. Carries(t, f)'
      BY <1>1, <3>1 DEF Carries, Fly
    <3>. QED  BY <1>1, <1>2, <2>1, <2>3, <3>2, <3>3 DEF FamilyQuiet
  <2>. QED  BY <2>1, <2>2, <2>3 DEF FamilyQuiet
<1>6. ASSUME NEW t \in Tabs PROVE FlightQuiet(Fly(t))'
  <2>1. FlightQuiet(Fly(t)) /\ Made(Fly(t).sent)
    BY WellBasics DEF QuietInv, FlightLinked
  <2>2. Fly(t).st \in Exchanging => Fly(t).sent # j
    BY <1>1 DEF Exchanging
  <2>3. Fly(t).sent # 0 => Fly(t).sent \in Ids
    BY <2>1, WellBasics DEF Made
  <2>. QED  BY <1>1, <1>2, <2>1, <2>2, <2>3 DEF FlightQuiet, Known, Fly
<1>. QED  BY <1>1, <1>4, <1>5, <1>6 DEF QuietInv, HandedQuiet

LEMMA IssueQuiet ==
  ASSUME Well, QuietInv, Quiet, NEW t \in Tabs, Issue(t)
  PROVE  QuietInv'
<1>. DEFINE k == Fresh
<1>1. UNCHANGED <<handed, replayed>>
  BY DEF Issue
<1>2. PICK f \in Families :
           /\ \A i \in Ids : issued[i].fam # f
           /\ k \in Ids /\ Grows /\ Minted' = Minted \union {k} /\ issued'[k].fam = f
           /\ family' = [family EXCEPT ![f] = k] /\ newest' = [newest EXCEPT ![f] = k] /\ jar' = k
  BY IssueMints
<1>3. \A s \in Tabs : Fly(s)' = Fly(s)
  BY IssueTab, WellBasics DEF Others, Fly
<1>. HIDE DEF k
<1>4. /\ family'[f] = k /\ newest'[f] = k
      /\ \A g \in Families : g # f => family'[g] = family[g] /\ newest'[g] = newest[g]
  BY <1>2, WellBasics DEF Shape
<1>5. \A i \in Minted : issued'[i] = issued[i] /\ issued[i].fam \in Families /\ issued[i].fam # f
  BY <1>2, WellBasics DEF Grows, Numbered
<1>6. \A i \in Minted : Known(i) => Known(i)'
  BY <1>4, <1>5 DEF Known
<1>7. CookieQuiet'
  BY <1>2, <1>4 DEF CookieQuiet
<1>8. HandedQuiet'
  <2>1. \A i \in Ids : handed[i] # 0 => handed[i] \in Minted /\ Known(handed[i])
    BY WellBasics DEF Linked, Of, QuietInv
  <2>. QED  BY <1>1, <1>4, <1>5, <2>1 DEF HandedQuiet, Known
<1>9. ASSUME NEW g \in Families PROVE FamilyQuiet(g)'
  <2>1. CASE g = f
    BY <1>4, <2>1 DEF FamilyQuiet
  <2>2. CASE g # f
    <3>1. FamilyQuiet(g)
      BY DEF QuietInv
    <3>2. \A s \in Tabs : Carries(s, g) => Carries(s, g)'
      BY <1>3, <1>4, <2>2 DEF Carries
    <3>. QED  BY <1>1, <1>4, <2>2, <3>1, <3>2 DEF FamilyQuiet
  <2>. QED  BY <2>1, <2>2
<1>10. ASSUME NEW s \in Tabs PROVE FlightQuiet(Fly(s))'
  <2>1. FlightQuiet(Fly(s)) /\ FlightLinked(Fly(s))
    BY WellBasics DEF QuietInv
  <2>. QED  BY <1>1, <1>3, <1>4, <1>5, <2>1 DEF FlightQuiet, FlightLinked, Made, Known
<1>. QED  BY <1>1, <1>7, <1>8, <1>9, <1>10 DEF QuietInv, CookieQuiet, HandedQuiet

LEMMA NumbersAre == ASSUME NEW i \in Ids \union {0} PROVE i \in Nat
BY IdsAre

LEMMA DeliverQuiet ==
  ASSUME Well, QuietInv, Quiet, Quiet', NEW t \in Tabs, Deliver(t)
  PROVE  QuietInv'
<1>1. UNCHANGED <<family, handed, issued, replayed>>
  BY DEF Deliver, ServerSame
<1>2. Others(t) /\ Fly(t).st = "reply" /\ Fly(t)' = NoFlight /\ jar' = Fly(t).out
  BY DeliverTab, WellBasics
<1>a. Fly(t).out \in Minted /\ issued[Fly(t).out].fam \in Families
  BY <1>2, WellBasics DEF FlightLinked, Numbered
<1>b. PICK out \in Minted, f \in Families : out = Fly(t).out /\ f = issued[out].fam
  BY <1>a
<1>c. overtaken' = (overtaken \/ newest[f] > out)
      /\ newest' = [newest EXCEPT ![f] = IF newest[f] > out THEN newest[f] ELSE out]
  BY <1>b DEF Deliver, FamilyOf
<1>3. out \in Ids /\ out \in Nat /\ newest[f] \in Nat /\ family[f] \in Nat
  BY NumbersAre, WellBasics DEF Shape
<1>d. out # 0
  BY <1>3, IdsAre
<1>e. ~(newest[f] > out)
  BY <1>c DEF Quiet
<1>4. newest[f] <= out
  BY <1>3, <1>e
<1>5. /\ newest'[f] = out /\ \A g \in Families : g # f => newest'[g] = newest[g]
      /\ Minted' = Minted
  <2>1. newest' = [newest EXCEPT ![f] = out]
    BY <1>c, <1>e
  <2>. QED  BY <1>1, <2>1, WellBasics DEF Shape
<1>6. Known(out) /\ FamilyQuiet(f)
  BY <1>2, <1>b DEF QuietInv, FlightQuiet
<1>7. ASSUME NEW g \in Families PROVE newest[g] <= newest'[g] /\ newest[g] \in Nat /\ newest'[g] \in Nat
  <2>1. newest[g] \in Nat
    BY NumbersAre, WellBasics DEF Shape
  <2>. QED  BY <1>3, <1>4, <1>5, <2>1
<1>8. \A i \in Minted : issued[i].fam \in Families /\ i \in Nat
  BY IdsAre, WellBasics DEF Numbered
<1>10. CookieQuiet'
  BY <1>1, <1>2, <1>5, <1>b DEF CookieQuiet
<1>11. HandedQuiet'
  <2>1. \A i \in Ids : handed[i] # 0 => handed[i] \in Minted /\ Known(handed[i])
    BY WellBasics DEF Linked, Of, QuietInv
  <2>. QED  BY <1>1, <1>7, <1>8, <2>1 DEF HandedQuiet, Known
<1>12. ASSUME NEW g \in Families PROVE FamilyQuiet(g)'
  <2>1. CASE g = f
    <3>1. family[f] = 0 \/ out = family[f] \/ out = newest[f]
      BY <1>3, <1>4, <1>6, <1>b DEF Known
    <3>2. CASE family[f] = 0 \/ out = family[f]
      BY <1>1, <1>5, <2>1, <3>2 DEF FamilyQuiet
    <3>3. CASE family[f] # 0 /\ out # family[f] /\ out = newest[f]
      <4>1. /\ newest[f] # 0 /\ newest[f] < family[f] /\ handed[newest[f]] = family[f]
            /\ \E s \in Tabs : Carries(s, f)
        BY <1>6, <3>3 DEF FamilyQuiet
      <4>2. PICK s \in Tabs : Carries(s, f)
        BY <4>1
      <4>3. s # t
        BY <1>b, <3>3, <4>2 DEF Carries
      <4>4. Carries(s, f)'
        BY <1>1, <1>2, <1>5, <3>3, <4>2, <4>3 DEF Carries, Others, Fly
      <4>. QED  BY <1>1, <1>5, <2>1, <3>3, <4>1, <4>4 DEF FamilyQuiet
    <3>. QED  BY <3>1, <3>2, <3>3
  <2>2. CASE g # f
    <3>1. FamilyQuiet(g)
      BY DEF QuietInv
    <3>2. ASSUME NEW s \in Tabs, Carries(s, g), family[g] # 0 PROVE Carries(s, g)'
      <4>1. s # t
        <5>1. CASE s = t
          <6>1. out = family[g] /\ out # 0
            BY <1>b, <1>d, <3>2, <5>1 DEF Carries
          <6>2. issued[out].fam = g
            BY <6>1, WellBasics DEF Linked, Of
          <6>. QED  BY <1>b, <2>2, <6>2
        <5>. QED  BY <5>1
      <4>. QED  BY <1>1, <1>2, <1>5, <2>2, <3>2, <4>1 DEF Carries, Others, Fly
    <3>. QED  BY <1>1, <1>5, <2>2, <3>1, <3>2 DEF FamilyQuiet
  <2>. QED  BY <2>1, <2>2
<1>13. ASSUME NEW s \in Tabs PROVE FlightQuiet(Fly(s))'
  <2>1. FlightQuiet(Fly(s)) /\ FlightLinked(Fly(s))
    BY WellBasics DEF QuietInv
  <2>2. CASE s = t
    BY <1>2, <2>2, NoFlightIs DEF FlightQuiet, Exchanging
  <2>3. CASE s # t
    <3>1. Fly(s)' = Fly(s)
      BY <1>2, <2>3 DEF Others, Fly
    <3>. QED  BY <1>1, <1>7, <1>8, <2>1, <3>1 DEF FlightQuiet, FlightLinked, Made, Known
  <2>. QED  BY <2>2, <2>3
<1>. QED  BY <1>1, <1>10, <1>11, <1>12, <1>13 DEF QuietInv, CookieQuiet, HandedQuiet

(* In a family that is alive an exchange succeeds.                         *)
LEMMA RotateSucceeds ==
  ASSUME Well, QuietInv, Quiet, NEW t \in Tabs, Rotate(t)
  PROVE  ~replayed' /\ (family[issued[Fly(t).sent].fam] # 0 => Fly(t)'.st = "reply")
<1>. DEFINE sent == Fly(t).sent
            f == issued[sent].fam
            out == HandedOut(sent, Fresh)
<1>1. /\ Fly(t).st = "rotate" /\ sent \in Minted /\ f \in Families /\ Fresh \in Ids
      /\ Fly(t)'.st = (IF out = 0 THEN "refused" ELSE "reply")
      /\ \/ family[f] = 0 /\ out = 0
         \/ family[f] # 0 /\ family[f] = sent /\ out = Fresh
         \/ family[f] # 0 /\ family[f] # sent /\ out = handed[sent]
  BY RotateTab, WellBasics
<1>2. sent # 0 /\ Fresh # 0
  BY <1>1, IdsAre, WellBasics
<1>3. family[f] # 0 => out # 0
  BY <1>1, <1>2 DEF QuietInv, FlightQuiet, Exchanging
<1>4. replayed' = (replayed \/ (out = 0 /\ family[f] # 0))
  BY DEF Rotate, FamilyOf
<1>5. ~replayed
  BY DEF QuietInv
<1>. QED  BY <1>1, <1>3, <1>4, <1>5

LEMMA RotateQuiet ==
  ASSUME Well, QuietInv, Quiet, NEW t \in Tabs, Rotate(t)
  PROVE  QuietInv'
<1>1. UNCHANGED <<jar, newest>> /\ ~replayed'
  BY RotateSucceeds DEF Rotate, RestSame, CourseSame
<1>2. /\ OnlyFly(t) /\ Fly(t).st = "rotate" /\ Fly(t).sent \in Minted /\ issued[Fly(t).sent].fam \in Families
      /\ Fresh \in Ids /\ Fly(t).ver \in 1 .. 2
  BY RotateTab, WellBasics
<1>3. PICK sent \in Minted, f \in Families, k \in Ids : sent = Fly(t).sent /\ f = issued[sent].fam /\ k = Fresh
  BY <1>2
<1>4. PICK out \in Ids \union {0} :
        /\ Fly(t)'.sent = sent /\ Fly(t)'.out = out /\ Fly(t)'.st = (IF out = 0 THEN "refused" ELSE "reply")
        /\ \/ family[f] = 0 /\ out = 0
           \/ family[f] # 0 /\ family[f] = sent /\ out = k
           \/ family[f] # 0 /\ family[f] # sent /\ out = handed[sent]
  BY <1>3, RotateTab, WellBasics
<1>5. /\ Grows /\ Minted' = Minted \union {k} /\ issued'[k].fam = f /\ k \notin Minted
      /\ \A i \in Minted : i < k
  <2>1. issued' = [issued EXCEPT ![Fresh] = [fam |-> f, ver |-> Fly(t).ver]]
    BY <1>3, RotateTab, WellBasics
  <2>. QED  BY <1>2, <1>3, <2>1, Minting, FreshIsNew, WellBasics
<1>6. /\ \A i \in Minted : issued'[i] = issued[i] /\ issued[i].fam \in Families /\ i \in Ids /\ i \in Nat \ {0}
      /\ k \in Nat \ {0} /\ \A g \in Families : newest[g] \in Nat /\ family[g] \in Nat
  BY <1>5, IdsAre, NumbersAre, WellBasics DEF Grows, Numbered, Shape
<1>7. family[f] # 0 => out # 0
  BY <1>3, <1>4, RotateSucceeds
<1>8. /\ FamilyQuiet(f) /\ FlightQuiet(Fly(t)) /\ CookieQuiet /\ HandedQuiet /\ ~replayed
  BY DEF QuietInv, CookieQuiet, HandedQuiet
<1>9. sent <= newest[f]
  BY <1>3, <1>6, <1>8 DEF FlightQuiet
<1>10. ASSUME NEW i \in Ids, handed[i] # 0 PROVE i \in Minted /\ handed[i] \in Minted /\ issued[handed[i]].fam = issued[i].fam
  BY <1>10, WellBasics DEF Linked, Of
<1>11. CookieQuiet'
  <2>1. jar # 0 => jar \in Minted
    BY WellBasics DEF Made
  <2>. QED  BY <1>1, <1>6, <1>8, <2>1 DEF CookieQuiet
<1>12. CASE family[f] = 0
  <2>1. out = 0 /\ UNCHANGED <<family, handed>>
    <3>1. family[f] # sent
      BY <1>6, <1>12
    <3>2. out = 0
      BY <1>4, <1>12
    <3>. QED  BY <1>3, <1>12, <3>1, <3>2 DEF Rotate, FamilyOf
  <2>2. HandedQuiet'
    BY <1>1, <1>6, <1>8, <1>10, <2>1 DEF HandedQuiet, Known
  <2>3. ASSUME NEW g \in Families PROVE FamilyQuiet(g)'
    <3>1. FamilyQuiet(g)
      BY DEF QuietInv
    <3>2. \A s \in Tabs : Carries(s, g) => Carries(s, g)'
      BY <1>1, <1>2, <2>1 DEF Carries, OnlyFly, Others, Fly
    <3>. QED  BY <1>1, <2>1, <3>1, <3>2 DEF FamilyQuiet
  <2>4. ASSUME NEW s \in Tabs PROVE FlightQuiet(Fly(s))'
    <3>1. FlightQuiet(Fly(s)) /\ FlightLinked(Fly(s))
      BY WellBasics DEF QuietInv
    <3>2. CASE s = t
      BY <1>1, <1>3, <1>4, <1>6, <1>9, <2>1, <3>2 DEF FlightQuiet, Exchanging
    <3>3. CASE s # t
      <4>1. Fly(s)' = Fly(s)
        BY <1>2, <3>3 DEF OnlyFly, Others, Fly
      <4>. QED  BY <1>1, <1>6, <2>1, <3>1, <4>1 DEF FlightQuiet, FlightLinked, Made, Known
    <3>. QED  BY <3>2, <3>3
  <2>. QED  BY <1>1, <1>11, <2>2, <2>3, <2>4 DEF QuietInv, CookieQuiet, HandedQuiet
<1>13. CASE family[f] # 0 /\ family[f] # sent
  <2>1. out = handed[sent] /\ out # 0 /\ UNCHANGED <<family, handed>>
    <3>1. out = handed[sent] /\ out # 0
      BY <1>4, <1>7, <1>13
    <3>2. HandedOut(sent, Fresh) = handed[sent]
      BY <1>3, <1>13 DEF HandedOut, FamilyOf
    <3>. QED  BY <1>3, <1>13, <3>1, <3>2 DEF Rotate, FamilyOf
  <2>2. HandedQuiet'
    BY <1>1, <1>6, <1>8, <1>10, <2>1 DEF HandedQuiet, Known
  <2>3. ASSUME NEW g \in Families PROVE FamilyQuiet(g)'
    <3>1. FamilyQuiet(g)
      BY DEF QuietInv
    <3>2. \A s \in Tabs : Carries(s, g) => Carries(s, g)'
      BY <1>1, <1>2, <2>1 DEF Carries, OnlyFly, Others, Fly
    <3>. QED  BY <1>1, <2>1, <3>1, <3>2 DEF FamilyQuiet
  <2>4. ASSUME NEW s \in Tabs PROVE FlightQuiet(Fly(s))'
    <3>1. FlightQuiet(Fly(s)) /\ FlightLinked(Fly(s))
      BY WellBasics DEF QuietInv
    <3>2. CASE s = t
      <4>1. Known(out) /\ out \in Minted
        BY <1>6, <1>8, <1>10, <2>1 DEF HandedQuiet
      <4>2. Known(out)'
        BY <1>1, <1>6, <2>1, <4>1 DEF Known
      <4>3. issued'[sent].fam = f
        BY <1>3, <1>6
      <4>. QED  BY <1>1, <1>4, <1>9, <2>1, <3>2, <4>2, <4>3 DEF FlightQuiet, Exchanging, Known
    <3>3. CASE s # t
      <4>1. Fly(s)' = Fly(s)
        BY <1>2, <3>3 DEF OnlyFly, Others, Fly
      <4>. QED  BY <1>1, <1>6, <2>1, <3>1, <4>1 DEF FlightQuiet, FlightLinked, Made, Known
    <3>. QED  BY <3>2, <3>3
  <2>. QED  BY <1>1, <1>11, <2>2, <2>3, <2>4 DEF QuietInv, CookieQuiet, HandedQuiet
<1>14. CASE family[f] # 0 /\ family[f] = sent
  <2>1. out = k /\ family' = [family EXCEPT ![f] = k] /\ handed' = [handed EXCEPT ![sent] = k]
    BY <1>3, <1>4, <1>14 DEF Rotate, FamilyOf
  <2>2. /\ family'[f] = k /\ \A g \in Families : g # f => family'[g] = family[g]
        /\ handed'[sent] = k /\ \A i \in Ids : i # sent => handed'[i] = handed[i]
    BY <1>6, <2>1, WellBasics DEF Shape
  <2>3. newest[f] = sent
    <3>1. ~(newest[f] < family[f])
      BY <1>6, <1>9, <1>14
    <3>. QED  BY <1>8, <1>14, <3>1 DEF FamilyQuiet
  <2>4. ASSUME NEW i \in Minted, Known(i) PROVE Known(i)'
    <3>1. issued[i].fam = f => i <= newest[f]
      BY <1>6, <1>14, <2>3, <2>4 DEF Known
    <3>. QED  BY <1>1, <1>6, <2>2, <2>4, <3>1 DEF Known
  <2>5. Known(k)'
    BY <1>5, <2>2 DEF Known
  <2>6. HandedQuiet'
    <3>. SUFFICES ASSUME NEW i \in Ids, handed'[i] # 0 PROVE Known(handed[i])'
      BY DEF HandedQuiet
    <3>1. CASE i = sent
      BY <2>2, <2>5, <3>1 DEF Known
    <3>2. CASE i # sent
      <4>1. handed'[i] = handed[i] /\ handed[i] \in Minted /\ Known(handed[i])
        BY <1>8, <1>10, <2>2, <3>2 DEF HandedQuiet
      <4>. QED  BY <2>4, <4>1 DEF Known
    <3>. QED  BY <3>1, <3>2
  <2>7. ASSUME NEW g \in Families PROVE FamilyQuiet(g)'
    <3>1. CASE g = f
      <4>1. newest'[f] = sent /\ sent # 0 /\ sent < k /\ handed'[sent] = family'[f]
        BY <1>1, <1>5, <1>6, <2>2, <2>3
      <4>2. Carries(t, f)'
        BY <1>4, <1>6, <2>1, <2>2, <4>1 DEF Carries
      <4>. QED  BY <3>1, <2>2, <4>1, <4>2 DEF FamilyQuiet
    <3>2. CASE g # f
      <4>1. FamilyQuiet(g)
        BY DEF QuietInv
      <4>2. \A s \in Tabs : Carries(s, g) => Carries(s, g)'
        BY <1>1, <1>2, <2>2, <3>2 DEF Carries, OnlyFly, Others, Fly
      <4>3. newest[g] # 0 => newest[g] \in Ids /\ newest[g] # sent
        BY <1>3, <3>2, WellBasics DEF Linked, Of
      <4>. QED  BY <1>1, <2>2, <3>2, <4>1, <4>2, <4>3 DEF FamilyQuiet
    <3>. QED  BY <3>1, <3>2
  <2>8. ASSUME NEW s \in Tabs PROVE FlightQuiet(Fly(s))'
    <3>1. FlightQuiet(Fly(s)) /\ FlightLinked(Fly(s))
      BY WellBasics DEF QuietInv
    <3>2. CASE s = t
      <4>1. Fly(t)'.sent = sent /\ Fly(t)'.out = k /\ Fly(t)'.st = "reply" /\ issued'[sent].fam = f
        BY <1>3, <1>4, <1>6, <2>1
      <4>. QED  BY <1>1, <1>9, <2>5, <3>2, <4>1 DEF FlightQuiet, Exchanging, Known
    <3>3. CASE s # t
      <4>1. Fly(s)' = Fly(s)
        BY <1>2, <3>3 DEF OnlyFly, Others, Fly
      <4>2. PICK x \in Flight : x = Fly(s)
        BY RowOf, WellBasics
      <4>3. x.sent # 0 => x.sent \in Minted
        BY <3>1, <4>2 DEF FlightLinked, Made
      <4>4. x.sent # 0 => x.sent <= newest'[issued'[x.sent].fam]
        BY <1>1, <1>6, <3>1, <4>2, <4>3 DEF FlightQuiet
      <4>5. ASSUME x.st \in Exchanging, x.sent # 0
            PROVE  family'[issued'[x.sent].fam] \in {0, x.sent} \/ handed'[x.sent] # 0
        <5>1. family[issued[x.sent].fam] \in {0, x.sent} \/ handed[x.sent] # 0
          BY <3>1, <4>2, <4>5 DEF FlightQuiet
        <5>2. CASE x.sent = sent
          BY <1>6, <2>2, <5>2
        <5>3. CASE x.sent # sent
          <6>1. issued[x.sent].fam = f => family[f] # x.sent /\ family[f] # 0
            BY <1>14, <5>3
          <6>. QED  BY <1>6, <2>2, <4>3, <4>5, <5>1, <5>3, <6>1
        <5>. QED  BY <5>2, <5>3
      <4>6. x.st = "reply" => Known(x.out)'
        <5>1. x.st = "reply" => x.out \in Minted /\ Known(x.out)
          BY <3>1, <4>2 DEF FlightQuiet, FlightLinked
        <5>. QED  BY <2>4, <5>1
      <4>. QED  BY <4>1, <4>2, <4>4, <4>5, <4>6 DEF FlightQuiet, Known
    <3>. QED  BY <3>2, <3>3
  <2>. QED  BY <1>1, <1>11, <2>6, <2>7, <2>8 DEF QuietInv, CookieQuiet, HandedQuiet
<1>. QED  BY <1>12, <1>13, <1>14

Turns(t) ==
  \/ Fly(t)' = Fly(t)
  \/ /\ Fly(t).st # "reply"
     /\ \E x \in Flight : Fly(t)' = x /\ FlightQuiet(x) /\ Made(x.sent) /\ x.st # "reply"

LEMMA TurnQuiet ==
  ASSUME Well, QuietInv, Quiet, NEW t \in Tabs, Others(t), Fly(t)' = Fly(t) \/ Fly(t).st # "reply",
         \/ Fly(t)' = Fly(t)
         \/ Fly(t)' = NoFlight
         \/ \E b \in BOOLEAN : Fly(t)' = Takeoff(b)
         \/ /\ Fly(t).st \in Exchanging /\ Fly(t)'.st \in {"user", "rotate", "refused"}
            /\ Fly(t)'.sent = Fly(t).sent
  PROVE  \A s \in Tabs : Turns(s)
<1>1. \A s \in Tabs : s # t => Fly(s)' = Fly(s)
  BY DEF Others, Fly
<1>2. Turns(t)
  <2>1. CASE Fly(t)' = Fly(t)
    BY <2>1 DEF Turns
  <2>2. CASE Fly(t).st # "reply" /\ Fly(t)' = NoFlight
    <3>1. NoFlight \in Flight /\ FlightQuiet(NoFlight) /\ Made(NoFlight.sent) /\ NoFlight.st # "reply"
      BY NoFlightIs DEF FlightQuiet, Exchanging, Made
    <3>. QED  BY <2>2, <3>1 DEF Turns
  <2>3. CASE Fly(t).st # "reply" /\ \E b \in BOOLEAN : Fly(t)' = Takeoff(b)
    <3>1. PICK b \in BOOLEAN : Fly(t)' = Takeoff(b)
      BY <2>3
    <3>2. Takeoff(b) \in Flight /\ FlightQuiet(Takeoff(b)) /\ Made(Takeoff(b).sent) /\ Takeoff(b).st # "reply"
      BY TakeoffQuiet
    <3>. QED  BY <2>3, <3>1, <3>2 DEF Turns
  <2>4. CASE /\ Fly(t).st # "reply"
             /\ Fly(t).st \in Exchanging /\ Fly(t)'.st \in {"user", "rotate", "refused"}
             /\ Fly(t)'.sent = Fly(t).sent
    <3>1. Fly(t)' \in Flight
      BY DEF Others, Row, Fly
    <3>2. PICK x \in Flight : x = Fly(t)'
      BY <3>1
    <3>3. x.sent = Fly(t).sent /\ x.st \in {"user", "rotate", "refused"}
      BY <2>4, <3>2
    <3>4. FlightQuiet(Fly(t)) /\ Made(Fly(t).sent)
      BY WellBasics DEF QuietInv, FlightLinked
    <3>5. FlightQuiet(x) /\ Made(x.sent) /\ x.st # "reply"
      BY <2>4, <3>3, <3>4 DEF FlightQuiet
    <3>. QED  BY <2>4, <3>2, <3>5 DEF Turns
  <2>. QED  BY <2>1, <2>2, <2>3, <2>4
<1>. QED  BY <1>1, <1>2 DEF Turns

(* A step of a tab in which no cookie is exchanged.                        *)
LEMMA TabEbbs ==
  ASSUME Well, QuietInv, Quiet, UNCHANGED <<issued, newest, handed, replayed>>,
         \A f \in Families : family'[f] \in {family[f], 0}, jar' \in {jar, 0},
         NEW t \in Tabs, Others(t), Fly(t)' = Fly(t) \/ Fly(t).st # "reply",
         \/ Fly(t)' = Fly(t)
         \/ Fly(t)' = NoFlight
         \/ \E b \in BOOLEAN : Fly(t)' = Takeoff(b)
         \/ /\ Fly(t).st \in Exchanging /\ Fly(t)'.st \in {"user", "rotate", "refused"}
            /\ Fly(t)'.sent = Fly(t).sent
  PROVE  QuietInv'
<1>1. \A s \in Tabs : Turns(s)
  BY TurnQuiet
<1>2. ~replayed'
  BY DEF QuietInv
<1>. QED  BY <1>1, <1>2, EbbQuiet DEF Turns

LEMMA FamilyEnds ==
  ASSUME Shape, NEW g, family' = [family EXCEPT ![g] = 0] \/ UNCHANGED family
  PROVE  \A f \in Families : family'[f] \in {family[f], 0}
BY DEF Shape

LEMMA ServerQuiet ==
  ASSUME Well, QuietInv, Quiet, NEW t \in Tabs, CheckFamily(t) \/ ReadUser(t) \/ ServeLogout(t)
  PROVE  QuietInv'
<1>. USE WellBasics
<1>1. CASE CheckFamily(t)
  <2>1. /\ UNCHANGED <<issued, newest, handed, replayed, family, jar>> /\ Others(t)
        /\ Fly(t).st = "sent" /\ Fly(t)'.st \in {"user", "refused"} /\ Fly(t)'.sent = Fly(t).sent
    BY <1>1, CheckFamilyTab DEF CheckFamily, ServerSame, RestSame, CourseSame, OnlyFly
  <2>. QED  BY <2>1, TabEbbs DEF Exchanging
<1>2. CASE ReadUser(t)
  <2>1. /\ UNCHANGED <<issued, newest, handed, replayed, jar>> /\ Others(t)
        /\ Fly(t).st = "user" /\ Fly(t)'.st \in {"rotate", "refused"} /\ Fly(t)'.sent = Fly(t).sent
    BY <1>2, ReadUserTab DEF ReadUser, RestSame, CourseSame, OnlyFly
  <2>2. family' = [family EXCEPT ![FamilyOf(Fly(t).sent)] = 0] \/ UNCHANGED family
    BY <1>2 DEF ReadUser
  <2>3. \A f \in Families : family'[f] \in {family[f], 0}
    BY <2>2, FamilyEnds
  <2>. QED  BY <2>1, <2>3, TabEbbs DEF Exchanging
<1>3. CASE ServeLogout(t)
  <2>1. UNCHANGED <<issued, newest, handed, replayed, jar>> /\ Others(t) /\ Fly(t)' = Fly(t)
    BY <1>3, ServeLogoutTab DEF ServeLogout, RestSame, CourseSame, OnlyOut
  <2>2. family' = [family EXCEPT ![FamilyOf(Out(t).ref)] = 0] \/ UNCHANGED family
    BY <1>3 DEF ServeLogout
  <2>3. \A f \in Families : family'[f] \in {family[f], 0}
    BY <2>2, FamilyEnds
  <2>. QED  BY <2>1, <2>3, TabEbbs
<1>. QED  BY <1>1, <1>2, <1>3

LEMMA BrowserQuiet ==
  ASSUME Well, QuietInv, Quiet, NEW t \in Tabs,
         Refused(t) \/ EndLogout(t) \/ Bootstrap(t) \/ Logout(t)
  PROVE  QuietInv'
<1>. USE WellBasics
<1>0. UNCHANGED <<issued, newest, handed, replayed, family>> /\ jar' \in {jar, 0}
  BY DEF Refused, Fail, EndLogout, Bootstrap, Logout, ServerSame, RestSame, CourseSame
<1>1. CASE Refused(t)
  <2>1. Others(t) /\ Fly(t)' = NoFlight /\ Fly(t).st # "reply"
    BY <1>1, FailTab DEF Refused
  <2>. QED  BY <1>0, <2>1, TabEbbs
<1>2. CASE EndLogout(t)
  <2>1. Others(t) /\ Fly(t)' = Fly(t)
    BY <1>2, LeaveTab DEF OnlyOut
  <2>. QED  BY <1>0, <2>1, TabEbbs
<1>3. CASE Bootstrap(t)
  <2>1. Others(t) /\ Fly(t).st # "reply" /\ (Fly(t)' = Fly(t) \/ Fly(t)' = Takeoff(TRUE))
    BY <1>3, BootstrapTab
  <2>. QED  BY <1>0, <2>1, TabEbbs
<1>4. CASE Logout(t)
  <2>1. Others(t) /\ Fly(t)' = Fly(t)
    BY <1>4, LogoutTab DEF OnlyOut
  <2>. QED  BY <1>0, <2>1, TabEbbs
<1>. QED  BY <1>1, <1>2, <1>3, <1>4

LEMMA AnswerQuiet ==
  ASSUME Well, QuietInv, Quiet, NEW r \in Reqs, Answer(r)
  PROVE  QuietInv'
<1>0. UNCHANGED <<issued, newest, handed, replayed, family, jar>>
  BY DEF Answer, ServerSame, RestSame, CourseSame
<1>. DEFINE t == Owner[r]
<1>1. t \in Tabs /\ (UNCHANGED tab \/ (OnlyFly(t) /\ (Fly(t)' = Fly(t) \/ (Fly(t).st = "none" /\ Fly(t)' = Takeoff(FALSE)))))
  BY AnswerMoves, WellBasics
<1>2. Others(t)
  BY <1>1, WellBasics DEF OnlyFly, Others, Shape
<1>3. Fly(t)' = Fly(t) \/ (Fly(t).st = "none" /\ Fly(t)' = Takeoff(FALSE))
  BY <1>1 DEF Fly
<1>. HIDE DEF t
<1>. QED  BY <1>0, <1>1, <1>2, <1>3, TabEbbs

(* Steps that touch neither families nor flights.                          *)
LEMMA AsideQuiet ==
  ASSUME Well, QuietInv, Quiet, UNCHANGED <<issued, newest, handed, replayed, family, tab>>, jar' \in {jar, 0}
  PROVE  QuietInv'
<1>1. \A t \in Tabs : Fly(t)' = Fly(t)
  BY DEF Fly
<1>2. ~replayed'
  BY DEF QuietInv
<1>. QED  BY <1>1, <1>2, EbbQuiet

LEMMA QuietBefore ==
  ASSUME Well, [Next]_vars, Quiet'
  PROVE  Quiet /\ \A t \in Tabs : ~Lose(t) /\ ~LoseLogout(t)
<1>0. faults \in Nat
  BY DEF Well, Shape
<1>1. ASSUME NEW t \in Tabs PROVE ~Lose(t) /\ ~LoseLogout(t)
  BY <1>0 DEF Lose, LoseLogout, Fault, Quiet
<1>2. UNCHANGED faults \/ faults' = faults + 1
  BY DEF Next, vars, ServerStep, TabStep, UserStep, RequestStep, CheckFamily, ReadUser, Rotate, ServeLogout,
     Issue, Deliver, Refused, EndLogout, Bootstrap, Logout, Login, Lose, LoseLogout, Send, Answer, Again,
     ChangePassword, Deactivate, Bump, Mark, Told, Try, Miss, LockTick, MarkExpire, AccessExpire, GraceExpire, Fault,
     NoFault, RevokeRest
<1>3. overtaken => overtaken'
  BY DEF Next, vars, ServerStep, TabStep, UserStep, RequestStep, CheckFamily, ReadUser, Rotate, ServeLogout,
     Issue, Deliver, Refused, EndLogout, Bootstrap, Logout, Login, Lose, LoseLogout, Fail, Send, Answer, Again,
     ChangePassword, Deactivate, Bump, Mark, Told, Try, Miss, LockTick, MarkExpire, AccessExpire, GraceExpire,
     RevokeRest, RestSame, CourseSame
<1>. QED  BY <1>0, <1>1, <1>2, <1>3 DEF Quiet

LEMMA QuietStep ==
  ASSUME Well, QuietInv, [Next]_vars
  PROVE  QuietInv'
<1>. SUFFICES ASSUME Quiet' PROVE QuietInv'
  BY DEF QuietInv
<1>1. \A t \in Tabs : ~Lose(t) /\ ~LoseLogout(t)
  BY QuietBefore
<1>2. Quiet
  BY QuietBefore
<1>3. CASE UNCHANGED vars
  BY <1>2, <1>3, AsideQuiet DEF vars
<1>4. ASSUME NEW t \in Tabs, ServerStep(t) \/ TabStep(t) \/ UserStep(t) PROVE QuietInv'
  <2>1. CASE Login(t)
    BY <1>2, <2>1, AsideQuiet DEF Login, ServerSame, ClientSame
  <2>. QED  BY <1>2, <1>4, <2>1, ServerQuiet, BrowserQuiet, RotateQuiet, DeliverQuiet, IssueQuiet
            DEF ServerStep, TabStep, UserStep
<1>5. ASSUME NEW r \in Reqs, Send(r) \/ Again(r) PROVE QuietInv'
  BY <1>2, <1>5, AsideQuiet DEF Send, Again, ServerSame, RestSame, CourseSame
<1>6. ASSUME ChangePassword \/ Deactivate \/ Bump \/ Mark \/ Told \/ Try \/ Miss \/ LockTick \/ MarkExpire
      PROVE  QuietInv'
  <2>1. UNCHANGED <<issued, newest, handed, replayed, family, tab>> /\ jar' \in {jar, 0}
    BY <1>6 DEF ChangePassword, Deactivate, Bump, Mark, Told, Try, Miss, LockTick, MarkExpire, RevokeRest,
                ServerSame, ClientSame, CourseSame
  <2>. QED  BY <1>2, <2>1, AsideQuiet
<1>7. ASSUME NEW i \in Ids, AccessExpire(i) PROVE QuietInv'
  BY <1>2, <1>7, AsideQuiet DEF AccessExpire, ServerSame, ClientSame
<1>8. ASSUME NEW i \in Ids, GraceExpire(i) PROVE QuietInv'
  BY <1>2, <1>8, GraceQuiet
<1>9. ASSUME NEW r \in Reqs, Answer(r) PROVE QuietInv'
  BY <1>2, <1>9, AnswerQuiet
<1>. QED  BY <1>1, <1>3, <1>4, <1>5, <1>6, <1>7, <1>8, <1>9 DEF Next, RequestStep

-----------------------------------------------------------------------------
(* While, besides, nobody signs out and nothing is revoked.                *)
LEMMA CalmFacts ==
  ASSUME Well, Versions, CalmInv, Calm
  PROVE  /\ denied = {} /\ db.ver = 1 /\ db.status = "active"
         /\ \A i \in Minted : issued[i].ver = 1 /\ ~Revoked(i) /\ family[issued[i].fam] # 0
         /\ jar = 0 => Minted = {}
         /\ \A t \in Tabs : TabCalm(t)
         /\ \A r \in Reqs : ReqCalm(r)
<1>1. revoke = "off" /\ db.ver = 1 /\ db.status = "active" /\ minimum = 0
  BY DEF Calm, Versions
<1>2. \A i \in Minted : issued[i].ver = 1
  BY <1>1, WellBasics DEF Versions, Numbered
<1>3. denied = {}
  BY DEF CalmInv
<1>4. \A i \in Minted : ~Revoked(i)
  BY <1>1, <1>2, <1>3 DEF Revoked
<1>. QED  BY <1>1, <1>2, <1>4 DEF CalmInv

LEMMA OwnerIs == ASSUME NEW r \in Reqs PROVE Owner[r] \in Tabs
BY SessionsAssumption

LEMMA CalmKeeps ==
  ASSUME Well, CalmInv, Calm, UNCHANGED <<denied, issued, family, jar, expired, sign>>,
         \A s \in Tabs : tab'[s].tok = tab[s].tok /\ (tab'[s] = tab[s] \/ TabCalm(s)'),
         \A r \in Reqs : req'[r] = req[r] \/ ReqCalm(r)'
  PROVE  CalmInv'
<1>1. Minted' = Minted
  BY WellBasics
<1>2. ASSUME NEW s \in Tabs PROVE TabCalm(s)'
  BY <1>2 DEF CalmInv, TabCalm, Fly
<1>3. ASSUME NEW r \in Reqs PROVE ReqCalm(r)'
  BY <1>3, OwnerIs DEF CalmInv, ReqCalm
<1>. QED  BY <1>1, <1>2, <1>3 DEF CalmInv

LEMMA CheckFamilyCalm ==
  ASSUME Well, Versions, CalmInv, Calm, NEW t \in Tabs, CheckFamily(t)
  PROVE  CalmInv'
<1>1. /\ UNCHANGED <<denied, issued, family, jar, expired, sign, req>>
  BY DEF CheckFamily, ServerSame, RestSame, OthersSame
<1>2. /\ OnlyFly(t) /\ Fly(t).st = "sent"
      /\ Fly(t)'.sent = Fly(t).sent /\ Fly(t)'.boot = Fly(t).boot
      /\ \/ Fly(t)'.st = "user" /\ Fly(t).sent # 0
         \/ Fly(t)'.st = "refused" /\ (Fly(t).sent = 0 \/ family[issued[Fly(t).sent].fam] = 0)
  BY CheckFamilyTab, WellBasics
<1>3. TabCalm(t) /\ (Fly(t).sent # 0 => family[issued[Fly(t).sent].fam] # 0)
  BY CalmFacts, WellBasics DEF FlightLinked, Made
<1>4. tab'[t].tok = tab[t].tok /\ tab'[t].booted = tab[t].booted
  BY <1>2 DEF OnlyFly
<1>5. TabCalm(t)'
  BY <1>1, <1>2, <1>3, <1>4 DEF TabCalm
<1>. QED  BY <1>1, <1>2, <1>4, <1>5, CalmKeeps DEF OnlyFly, Others

LEMMA ReadUserCalm ==
  ASSUME Well, Versions, CalmInv, Calm, NEW t \in Tabs, ReadUser(t)
  PROVE  CalmInv'
<1>1. /\ UNCHANGED <<denied, issued, jar, expired, sign, req>>
  BY DEF ReadUser, RestSame, OthersSame
<1>2. /\ OnlyFly(t) /\ Fly(t).st = "user"
      /\ Fly(t)'.sent = Fly(t).sent /\ Fly(t)'.boot = Fly(t).boot
      /\ \/ Fly(t)'.st = "rotate"
         \/ Fly(t)'.st = "refused" /\ (db.status # "active" \/ issued[Fly(t).sent].ver # db.ver)
  BY ReadUserTab, WellBasics
<1>3. TabCalm(t) /\ Fly(t).sent \in Minted
  BY <1>2, CalmFacts, WellBasics DEF FlightLinked, Made
<1>4. db.status = "active" /\ issued[Fly(t).sent].ver = db.ver
  BY <1>3, CalmFacts
<1>5. UNCHANGED family
  BY <1>4 DEF ReadUser
<1>6. tab'[t].tok = tab[t].tok /\ tab'[t].booted = tab[t].booted
  BY <1>2 DEF OnlyFly
<1>7. TabCalm(t)'
  BY <1>1, <1>2, <1>3, <1>4, <1>6 DEF TabCalm
<1>. QED  BY <1>1, <1>2, <1>5, <1>6, <1>7, CalmKeeps DEF OnlyFly, Others

LEMMA RefusedCalm ==
  ASSUME Well, Versions, CalmInv, Calm, NEW t \in Tabs, Refused(t)
  PROVE  CalmInv'
<1>1. UNCHANGED <<denied, issued, family, jar, expired, sign>>
  BY DEF Refused, Fail, ServerSame, RestSame, OthersSame
<1>2. Fly(t).st = "refused" /\ TabCalm(t)
  BY CalmFacts DEF Refused
<1>3. Fly(t).boot
  BY <1>2 DEF TabCalm
<1>4. /\ Others(t) /\ Fly(t)' = NoFlight /\ tab'[t].booted = tab[t].booted /\ tab'[t].tok = tab[t].tok
  BY <1>3, FailTab, WellBasics DEF Refused
<1>5. \A r \in Reqs : req'[r] = req[r]
  BY <1>3 DEF Refused, Fail, Wake
<1>6. TabCalm(t)'
  BY <1>1, <1>2, <1>4, NoFlightIs DEF TabCalm
<1>. QED  BY <1>1, <1>4, <1>5, <1>6, CalmKeeps DEF Others

LEMMA BootstrapCalm ==
  ASSUME Well, Versions, CalmInv, Calm, NEW t \in Tabs, Bootstrap(t)
  PROVE  CalmInv'
<1>1. UNCHANGED <<denied, issued, family, jar, expired, sign, req>>
  BY DEF Bootstrap, ServerSame, RestSame, OthersSame
<1>2. /\ Others(t) /\ Fly(t).st = "none" /\ tab'[t].tok = tab[t].tok /\ tab'[t].booted /\ ~tab[t].booted
      /\ Fly(t)' = Fly(t) \/ Fly(t)' = Takeoff(TRUE)
  BY BootstrapTab, WellBasics
<1>3. Takeoff(TRUE).st = "sent" /\ Takeoff(TRUE).boot = TRUE
  BY TakeoffIs, WellBasics DEF Made
<1>4. TabCalm(t)
  BY CalmFacts
<1>5. TabCalm(t)'
  BY <1>1, <1>2, <1>3, <1>4 DEF TabCalm
<1>. QED  BY <1>1, <1>2, <1>5, CalmKeeps DEF Others

LEMMA AnswerCalm ==
  ASSUME Well, Versions, CalmInv, Calm, NEW r \in Reqs, Answer(r)
  PROVE  CalmInv'
<1>1. UNCHANGED <<denied, issued, family, jar, expired, sign>>
  BY DEF Answer, ServerSame, RestSame, OthersSame
<1>2. PICK t \in Tabs : t = Owner[r]
  BY OwnerIs
<1>3. PICK used \in Minted : used = req[r].used /\ req[r].st = "sent"
  BY WellBasics DEF Answer, ReqLinked
<1>4. /\ used \in Nat \ {0} /\ used <= tab[t].tok /\ tab[t].tok \in Nat
      /\ used < tab[t].tok => tab[t].tok \notin expired
      /\ TabCalm(t) /\ ~Revoked(used) /\ jar # 0
  BY <1>2, <1>3, CalmFacts, IdsAre, NumbersAre, RowOf, WellBasics DEF ReqCalm
<1>5. sign.for # t
  BY <1>4 DEF TabCalm
<1>6. /\ OtherReqs(r)
      /\ \/ UNCHANGED tab /\ req'[r].st = "ok"
         \/ UNCHANGED tab /\ req'[r].st = "failed" /\ Revoked(used)
         \/ UNCHANGED tab /\ req'[r].st = "again" /\ req'[r].used = tab[t].tok /\ tab[t].tok # used
         \/ /\ req'[r].st = "wait" /\ OnlyFly(t)
            /\ Fly(t)' = Fly(t) \/ (Fly(t).st = "none" /\ Fly(t)' = Takeoff(FALSE))
  BY <1>2, <1>3, AnswerMoves, WellBasics
<1>7. ReqCalm(r)'
  <2>1. CASE req'[r].st = "again"
    <3>1. tab[t].tok \notin expired
      BY <1>4, <1>6, <2>1
    <3>. QED  BY <1>1, <1>6, <2>1, <3>1 DEF ReqCalm
  <2>2. CASE req'[r].st \in {"ok", "wait"}
    BY <2>2 DEF ReqCalm
  <2>. QED  BY <1>4, <1>6, <2>1, <2>2
<1>8. \A q \in Reqs : req'[q] = req[q] \/ ReqCalm(q)'
  BY <1>6, <1>7 DEF OtherReqs
<1>9. CASE UNCHANGED tab
  BY <1>1, <1>8, <1>9, CalmKeeps
<1>10. CASE OnlyFly(t) /\ (Fly(t)' = Fly(t) \/ (Fly(t).st = "none" /\ Fly(t)' = Takeoff(FALSE)))
  <2>1. Takeoff(FALSE).st = "sent" /\ Takeoff(FALSE).sent = jar
    BY TakeoffIs, WellBasics DEF Made
  <2>2. tab'[t].tok = tab[t].tok /\ tab'[t].booted = tab[t].booted
    BY <1>10 DEF OnlyFly
  <2>3. TabCalm(t)'
    BY <1>1, <1>4, <1>5, <1>10, <2>1, <2>2 DEF TabCalm
  <2>. QED  BY <1>1, <1>8, <1>10, <2>2, <2>3, CalmKeeps DEF OnlyFly, Others
<1>. QED  BY <1>6, <1>9, <1>10

LEMMA AgainCalm ==
  ASSUME Well, Versions, CalmInv, Calm, NEW r \in Reqs, Again(r)
  PROVE  CalmInv'
<1>1. UNCHANGED <<denied, issued, family, jar, expired, sign, tab>>
  BY DEF Again, ServerSame, RestSame, OthersSame
<1>2. OtherReqs(r) /\ req[r].st = "again" /\ req'[r].st \in {"ok", "failed"}
      /\ (req'[r].st = "failed" => ~Accepted(req[r].used))
  BY AgainReq, WellBasics
<1>3. req[r].used \in Minted /\ req[r].used \notin expired
  BY <1>2, CalmFacts, WellBasics DEF ReqLinked, ReqCalm
<1>4. Accepted(req[r].used)
  BY <1>3, CalmFacts DEF Accepted, Expired
<1>5. ReqCalm(r)'
  BY <1>2, <1>4 DEF ReqCalm
<1>. QED  BY <1>1, <1>2, <1>5, CalmKeeps DEF OtherReqs

LEMMA SendCalm ==
  ASSUME Well, Versions, CalmInv, Calm, NEW r \in Reqs, Send(r)
  PROVE  CalmInv'
<1>1. UNCHANGED <<denied, issued, family, jar, expired, sign, tab>>
  BY DEF Send, ServerSame, RestSame, OthersSame
<1>2. OtherReqs(r) /\ req'[r].st = "sent" /\ req'[r].used = tab[Owner[r]].tok /\ Owner[r] \in Tabs
  BY SendReq, WellBasics
<1>3. tab[Owner[r]].tok \in Nat
  BY <1>2, NumbersAre, RowOf, WellBasics
<1>4. ReqCalm(r)'
  BY <1>1, <1>2, <1>3 DEF ReqCalm
<1>. QED  BY <1>1, <1>2, <1>4, CalmKeeps DEF OtherReqs

LEMMA RotateCalm ==
  ASSUME Well, Versions, QuietInv, CalmInv, Calm, NEW t \in Tabs, Rotate(t)
  PROVE  CalmInv'
<1>1. UNCHANGED <<denied, jar, expired, sign, req>>
  BY DEF Rotate, RestSame, OthersSame
<1>2. /\ OnlyFly(t) /\ Fly(t).st = "rotate" /\ Fly(t).sent \in Minted /\ issued[Fly(t).sent].fam \in Families
      /\ Fresh \in Ids /\ Fly(t).ver \in 1 .. 2
      /\ Fly(t)'.sent = Fly(t).sent /\ Fly(t)'.boot = Fly(t).boot /\ Fly(t)'.mine = Fresh
      /\ issued' = [issued EXCEPT ![Fresh] = [fam |-> issued[Fly(t).sent].fam, ver |-> Fly(t).ver]]
  BY RotateTab, WellBasics
<1>3. PICK sent \in Minted, f \in Families, k \in Ids :
        sent = Fly(t).sent /\ f = issued[sent].fam /\ k = Fresh
  BY <1>2
<1>4. /\ Grows /\ Minted' = Minted \union {k} /\ issued'[k].fam = f /\ k \notin Minted
      /\ \A i \in Minted : i < k
  BY <1>2, <1>3, Minting, FreshIsNew, WellBasics
<1>5. /\ \A i \in Minted : issued'[i] = issued[i] /\ issued[i].fam \in Families /\ family[issued[i].fam] # 0
      /\ k \in Nat \ {0} /\ sent \in Nat \ {0}
  BY <1>4, IdsAre, CalmFacts, WellBasics DEF Grows, Numbered
<1>6. ~replayed' /\ Fly(t)'.st = "reply" /\ Quiet
  BY <1>3, <1>5, RotateSucceeds DEF Calm
<1>7. family' = [family EXCEPT ![f] = k] \/ UNCHANGED family
  <2>1. ~(HandedOut(sent, k) = 0 /\ family[f] # 0)
    BY <1>3, <1>6 DEF Rotate, FamilyOf
  <2>. QED  BY <1>3, <2>1 DEF Rotate, FamilyOf
<1>8. \A g \in Families : family[g] # 0 => family'[g] # 0
  BY <1>5, <1>7, WellBasics DEF Shape
<1>9. \A i \in Minted' : family'[issued'[i].fam] # 0
  BY <1>3, <1>4, <1>5, <1>8
<1>10. TabCalm(t) /\ Made(tab[t].tok) /\ tab'[t].tok = tab[t].tok /\ tab'[t].booted = tab[t].booted
  BY <1>2, CalmFacts, WellBasics DEF OnlyFly, TabLinked
<1>11. tab[t].tok < k
  <2>1. tab[t].tok = 0 \/ tab[t].tok \in Minted
    BY <1>10 DEF Made
  <2>2. k \in Nat \ {0} /\ \A i \in Minted : i < k
    BY <1>4, <1>5
  <2>3. CASE tab[t].tok = 0
    BY <2>2, <2>3
  <2>4. CASE tab[t].tok \in Minted
    BY <2>2, <2>4
  <2>. QED  BY <2>1, <2>3, <2>4
<1>12. k \notin expired
  BY <1>4, WellBasics DEF Linked
<1>13. sign.for # t
  BY <1>2, <1>10 DEF TabCalm
<1>14. TabCalm(t)'
  <2>1. Fly(t)'.mine = k /\ k > tab'[t].tok /\ k > Fly(t)'.sent /\ k \notin expired' /\ sign'.for # t
    BY <1>1, <1>2, <1>3, <1>4, <1>5, <1>10, <1>11, <1>12, <1>13
  <2>. QED  BY <1>6, <2>1 DEF TabCalm
<1>15. ASSUME NEW s \in Tabs PROVE TabCalm(s)'
  <2>1. CASE s = t
    BY <1>14, <2>1
  <2>2. CASE s # t
    BY <1>1, <1>2, <2>2, CalmFacts DEF OnlyFly, Others, TabCalm, Fly
  <2>. QED  BY <2>1, <2>2
<1>16. ASSUME NEW r \in Reqs PROVE ReqCalm(r)'
  <2>1. tab'[Owner[r]].tok = tab[Owner[r]].tok
    BY <1>2, OwnerIs DEF OnlyFly, Others
  <2>. QED  BY <1>1, <2>1, CalmFacts DEF ReqCalm
<1>17. jar' # 0 /\ denied' = {}
  BY <1>1, <1>3, CalmFacts
<1>. QED  BY <1>9, <1>15, <1>16, <1>17 DEF CalmInv

LEMMA DeliverCalm ==
  ASSUME Well, Versions, CalmInv, Calm, NEW t \in Tabs, Deliver(t)
  PROVE  CalmInv'
<1>1. UNCHANGED <<denied, issued, family, expired, sign>>
  BY DEF Deliver, ServerSame, OthersSame
<1>2. /\ Others(t) /\ Fly(t).st = "reply" /\ Fly(t)' = NoFlight
      /\ tab'[t].tok = Fly(t).mine /\ tab'[t].booted = tab[t].booted /\ jar' = Fly(t).out
  BY DeliverTab, WellBasics
<1>3. PICK mine \in Minted : mine = Fly(t).mine
  BY <1>2, WellBasics DEF FlightLinked
<1>4. mine \notin expired /\ mine > tab[t].tok /\ sign.for # t
  BY <1>2, <1>3, CalmFacts DEF TabCalm
<1>5. mine \in Nat \ {0} /\ tab[t].tok \in Nat /\ jar' # 0 /\ Minted' = Minted
  <2>1. Fly(t).out \in Minted
    BY <1>2, WellBasics DEF FlightLinked
  <2>2. mine \in Nat \ {0} /\ Fly(t).out \in Nat \ {0}
    BY <2>1, IdsAre, WellBasics
  <2>3. tab[t].tok \in Nat
    BY NumbersAre, RowOf, WellBasics
  <2>. QED  BY <1>1, <1>2, <2>2, <2>3, WellBasics
<1>6. ASSUME NEW s \in Tabs PROVE TabCalm(s)'
  <2>1. CASE s = t
    BY <1>1, <1>2, <1>4, <2>1, NoFlightIs DEF TabCalm
  <2>2. CASE s # t
    BY <1>1, <1>2, <2>2, CalmFacts DEF Others, TabCalm, Fly
  <2>. QED  BY <2>1, <2>2
<1>7. ASSUME NEW r \in Reqs PROVE ReqCalm(r)'
  <2>1. \/ req'[r] = req[r]
        \/ Owner[r] = t /\ req'[r].st = "again" /\ req'[r].used = mine
    <3>1. mine \in Ids \union {0} /\ req' = Wake(t, "again", mine)
      BY <1>3, WellBasics DEF Deliver
    <3>. QED  BY <3>1, WakeIs, WellBasics
  <2>2. CASE Owner[r] = t /\ req'[r].st = "again" /\ req'[r].used = mine
    BY <1>1, <1>4, <2>2 DEF ReqCalm
  <2>3. CASE req'[r] = req[r] /\ Owner[r] # t
    <3>1. tab'[Owner[r]] = tab[Owner[r]]
      BY <1>2, <2>3, OwnerIs DEF Others
    <3>. QED  BY <1>1, <2>3, <3>1, CalmFacts DEF ReqCalm
  <2>4. CASE req'[r] = req[r] /\ Owner[r] = t
    <3>1. ReqCalm(r) /\ ReqLinked(req[r])
      BY CalmFacts, WellBasics
    <3>2. req[r].st = "sent" => req[r].used \in Nat
      BY <3>1, IdsAre, WellBasics DEF ReqLinked
    <3>3. tab'[Owner[r]].tok = mine /\ tab[Owner[r]].tok < mine
      BY <1>2, <1>3, <1>4, <1>5, <2>4
    <3>. QED  BY <1>1, <1>4, <1>5, <2>4, <3>1, <3>2, <3>3 DEF ReqCalm
  <2>. QED  BY <2>1, <2>2, <2>3, <2>4
<1>8. denied' = {} /\ \A i \in Minted' : family'[issued'[i].fam] # 0
  BY <1>1, <1>5, CalmFacts
<1>. QED  BY <1>5, <1>6, <1>7, <1>8 DEF CalmInv

LEMMA IssueCalm ==
  ASSUME Well, Versions, CalmInv, Calm, NEW t \in Tabs, Issue(t)
  PROVE  CalmInv'
<1>1. UNCHANGED <<denied, expired, req>>
  BY DEF Issue
<1>2. PICK f \in Families, k \in Ids :
           /\ k = Fresh /\ sign.for = t
           /\ Grows /\ Minted' = Minted \union {k} /\ issued'[k].fam = f
           /\ family' = [family EXCEPT ![f] = k] /\ jar' = k /\ sign' = [ver |-> 0, for |-> 0]
  BY IssueMints
<1>3. /\ Others(t) /\ tab'[t].tok = k /\ tab'[t].booted = tab[t].booted /\ Fly(t)' = Fly(t)
  BY <1>2, IssueTab, WellBasics
<1>4. /\ k # 0 /\ \A i \in Minted : issued'[i] = issued[i] /\ issued[i].fam \in Families
      /\ family'[f] = k /\ \A g \in Families : g # f => family'[g] = family[g]
  BY <1>2, IdsAre, WellBasics DEF Grows, Numbered, Shape
<1>5. \A i \in Minted' : family'[issued'[i].fam] # 0
  BY <1>2, <1>4, CalmFacts
<1>6. TabCalm(t) /\ tab[t].tok = 0 /\ Fly(t).st = "none"
  BY <1>2, CalmFacts DEF TabCalm
<1>7. sign'.for \notin Tabs
  BY <1>2, SessionsAssumption
<1>8. ASSUME NEW s \in Tabs PROVE TabCalm(s)'
  <2>1. CASE s = t
    BY <1>3, <1>6, <1>7, <2>1 DEF TabCalm
  <2>2. CASE s # t
    BY <1>1, <1>3, <1>7, <2>2, CalmFacts DEF Others, TabCalm, Fly
  <2>. QED  BY <2>1, <2>2
<1>9. ASSUME NEW r \in Reqs PROVE ReqCalm(r)'
  <2>1. ReqCalm(r) /\ ReqLinked(req[r])
    BY CalmFacts, WellBasics
  <2>2. CASE Owner[r] = t
    <3>1. req[r].st # "sent"
      <4>1. ASSUME req[r].st = "sent" PROVE FALSE
        <5>1. req[r].used \in Nat \ {0} /\ req[r].used <= 0
          BY <1>6, <2>1, <2>2, <4>1, IdsAre, WellBasics DEF ReqLinked, ReqCalm
        <5>. QED  BY <5>1
      <4>. QED  BY <4>1
    <3>. QED  BY <1>1, <2>1, <3>1 DEF ReqCalm
  <2>3. CASE Owner[r] # t
    <3>1. tab'[Owner[r]] = tab[Owner[r]]
      BY <1>3, <2>3, OwnerIs DEF Others
    <3>. QED  BY <1>1, <2>1, <3>1 DEF ReqCalm
  <2>. QED  BY <2>2, <2>3
<1>10. denied' = {} /\ jar' # 0
  BY <1>1, <1>2, <1>4, CalmFacts
<1>. QED  BY <1>5, <1>8, <1>9, <1>10 DEF CalmInv

LEMMA LoginCalm ==
  ASSUME Well, Versions, CalmInv, Calm, NEW t \in Tabs, Login(t)
  PROVE  CalmInv'
<1>1. /\ UNCHANGED <<denied, issued, family, jar, expired, tab, req>>
      /\ sign'.for = t /\ tab[t].tok = 0 /\ tab[t].booted /\ Fly(t).st = "none"
  BY DEF Login, ServerSame, ClientSame
<1>2. Minted' = Minted
  BY <1>1, WellBasics
<1>3. ASSUME NEW s \in Tabs PROVE TabCalm(s)'
  BY <1>1, CalmFacts DEF TabCalm, Fly
<1>4. ASSUME NEW r \in Reqs PROVE ReqCalm(r)'
  BY <1>1, CalmFacts DEF ReqCalm
<1>. QED  BY <1>1, <1>2, <1>3, <1>4, CalmFacts DEF CalmInv

LEMMA AccessExpireCalm ==
  ASSUME Well, Versions, CalmInv, Calm, NEW a \in Ids, AccessExpire(a)
  PROVE  CalmInv'
<1>1. UNCHANGED <<denied, issued, family, jar, sign, tab, req>> /\ expired' = expired \union {a}
  BY DEF AccessExpire, ServerSame, ClientSame
<1>2. /\ \A t \in Tabs : Fly(t).st # "none" => Fly(t).sent >= a
      /\ \A r \in Reqs : (req[r].st = "again" => req[r].used # a) /\ (req[r].st = "sent" => req[r].used >= a)
  BY DEF AccessExpire
<1>3. Minted' = Minted /\ a \in Nat
  BY <1>1, IdsAre, WellBasics
<1>4. ASSUME NEW t \in Tabs PROVE TabCalm(t)'
  <2>1. TabCalm(t) /\ Fly(t).sent \in Nat /\ Fly(t).mine \in Nat
    BY CalmFacts, NumbersAre, RowOf, WellBasics
  <2>2. Fly(t).st = "reply" => Fly(t).mine # a
    BY <1>2, <1>3, <2>1 DEF TabCalm
  <2>. QED  BY <1>1, <2>1, <2>2 DEF TabCalm, Fly
<1>5. ASSUME NEW r \in Reqs PROVE ReqCalm(r)'
  <2>1. ReqCalm(r) /\ ReqLinked(req[r]) /\ tab[Owner[r]].tok \in Nat
    BY CalmFacts, NumbersAre, OwnerIs, RowOf, WellBasics
  <2>2. req[r].st = "sent" => req[r].used \in Nat
    BY <2>1, IdsAre, WellBasics DEF ReqLinked
  <2>. QED  BY <1>1, <1>2, <1>3, <2>1, <2>2 DEF ReqCalm
<1>. QED  BY <1>1, <1>3, <1>4, <1>5, CalmFacts DEF CalmInv

LEMMA CalmBefore ==
  ASSUME Well, [Next]_vars, Calm'
  PROVE  /\ Calm /\ \A t \in Tabs : ~Logout(t) /\ ~ServeLogout(t) /\ ~EndLogout(t)
         /\ ~(ChangePassword \/ Deactivate \/ Bump \/ Mark \/ Told)
<1>1. Quiet /\ \A t \in Tabs : ~Lose(t) /\ ~LoseLogout(t)
  BY QuietBefore DEF Calm
<1>2. revoke = "off" /\ ~(ChangePassword \/ Deactivate \/ Bump \/ Mark \/ Told)
  <2>1. revoke' = "off"
    BY DEF Calm
  <2>2. ~(ChangePassword \/ Deactivate \/ Bump \/ Mark \/ Told)
    BY <2>1 DEF ChangePassword, Deactivate, Bump, Mark, Told
  <2>. QED  BY <2>1, <2>2, RevokingSteps
<1>3. \A t \in Tabs : Out(t)'.st = "none"
  BY DEF Calm
<1>4. ASSUME NEW t \in Tabs PROVE ~Logout(t) /\ ~ServeLogout(t) /\ ~EndLogout(t)
  BY <1>3, LogoutTab, ServeLogoutTab, LeaveTab, WellBasics
<1>5. ASSUME NEW t \in Tabs PROVE Out(t).st = "none"
  <2>1. CASE UNCHANGED tab
    BY <1>3, <2>1 DEF Out
  <2>2. ASSUME NEW s \in Tabs, Others(s), Out(s)' = Out(s) PROVE Out(t).st = "none"
    <3>1. Out(t)' = Out(t)
      BY <2>2 DEF Others, Out
    <3>. QED  BY <1>3, <3>1
  <2>3. ASSUME NEW s \in Tabs, CheckFamily(s) \/ ReadUser(s) \/ Rotate(s) PROVE Out(t).st = "none"
    BY <2>2, <2>3, CheckFamilyTab, ReadUserTab, RotateTab, WellBasics DEF OnlyFly
  <2>4. ASSUME NEW s \in Tabs, Issue(s) \/ Deliver(s) \/ Refused(s) \/ Bootstrap(s) PROVE Out(t).st = "none"
    BY <2>2, <2>4, IssueTab, DeliverTab, FailTab, BootstrapTab, WellBasics DEF Refused
  <2>5. ASSUME NEW s \in Tabs, Login(s) PROVE Out(t).st = "none"
    BY <2>1, <2>5 DEF Login, ClientSame
  <2>6. ASSUME NEW r \in Reqs, Send(r) \/ Again(r) PROVE Out(t).st = "none"
    BY <2>1, <2>6 DEF Send, Again
  <2>7. ASSUME NEW r \in Reqs, Answer(r) PROVE Out(t).st = "none"
    <3>1. UNCHANGED tab \/ OnlyFly(Owner[r])
      BY <2>7, AnswerMoves, WellBasics
    <3>. QED  BY <2>1, <2>2, <3>1, OwnerIs DEF OnlyFly
  <2>8. ASSUME Try \/ Miss \/ LockTick \/ MarkExpire PROVE Out(t).st = "none"
    BY <2>1, <2>8 DEF Try, Miss, LockTick, MarkExpire, ClientSame
  <2>9. ASSUME NEW i \in Ids, AccessExpire(i) \/ GraceExpire(i) PROVE Out(t).st = "none"
    BY <2>1, <2>9 DEF AccessExpire, GraceExpire, ClientSame
  <2>10. CASE UNCHANGED vars
    BY <2>1, <2>10 DEF vars
  <2>. QED  BY <1>1, <1>2, <1>4, <2>3, <2>4, <2>5, <2>6, <2>7, <2>8, <2>9, <2>10
            DEF Next, ServerStep, TabStep, UserStep, RequestStep
<1>. QED  BY <1>1, <1>2, <1>4, <1>5 DEF Calm

LEMMA CalmStep ==
  ASSUME Well, Versions, QuietInv, CalmInv, [Next]_vars
  PROVE  CalmInv'
<1>. SUFFICES ASSUME Calm' PROVE CalmInv'
  BY DEF CalmInv
<1>1. /\ Calm /\ \A t \in Tabs : ~Logout(t) /\ ~ServeLogout(t) /\ ~EndLogout(t) /\ ~Lose(t) /\ ~LoseLogout(t)
      /\ ~(ChangePassword \/ Deactivate \/ Bump \/ Mark \/ Told) /\ ~MarkExpire
  BY CalmBefore, QuietBefore DEF Calm, Versions, MarkExpire
<1>2. CASE UNCHANGED <<denied, issued, family, jar, expired, sign, tab, req>>
  BY <1>1, <1>2, CalmKeeps
<1>3. Try \/ Miss \/ LockTick \/ (\E i \in Ids : GraceExpire(i)) \/ UNCHANGED vars
        => UNCHANGED <<denied, issued, family, jar, expired, sign, tab, req>>
  BY DEF Try, Miss, LockTick, GraceExpire, ClientSame, ServerSame, RestSame, OthersSame, vars
<1>4. ASSUME NEW t \in Tabs, ServerStep(t) \/ TabStep(t) \/ UserStep(t) PROVE CalmInv'
  BY <1>1, <1>4, CheckFamilyCalm, ReadUserCalm, RotateCalm, IssueCalm, DeliverCalm, RefusedCalm, BootstrapCalm,
     LoginCalm DEF ServerStep, TabStep, UserStep
<1>5. ASSUME NEW r \in Reqs, Send(r) \/ Answer(r) \/ Again(r) PROVE CalmInv'
  BY <1>1, <1>5, SendCalm, AnswerCalm, AgainCalm
<1>6. ASSUME NEW i \in Ids, AccessExpire(i) PROVE CalmInv'
  BY <1>1, <1>6, AccessExpireCalm
<1>. QED  BY <1>1, <1>2, <1>3, <1>4, <1>5, <1>6 DEF Next, RequestStep

-----------------------------------------------------------------------------
(* The invariant of the specification.                                     *)
LEMMA MintedAtStart ==
  ASSUME NEW on \in {0, 1}, issued = [i \in Ids |-> IF i = on THEN [fam |-> 1, ver |-> 1] ELSE Blank]
  PROVE  /\ issued \in [Ids -> [fam : Families \union {0}, ver : 0 .. 2]]
         /\ Minted = {i \in {1} : on = 1} /\ Cardinality(Minted) = on /\ on \in Ids \union {0}
         /\ \A i \in Minted : i = 1 /\ issued[i].fam = 1 /\ issued[i].ver = 1
         /\ on # 0 => on \in Minted
<1>. DEFINE first == [fam |-> 1, ver |-> 1]
            none == [fam |-> 0, ver |-> 0]
<1>1. 1 \in Ids /\ 0 \notin Ids /\ 1 \in Families
  <2>1. MaxTokens \in Nat \ {0}
    BY SessionsAssumption
  <2>. QED  BY <2>1, IdsAre DEF Ids
<1>2. /\ first \in [fam : Families \union {0}, ver : 0 .. 2] /\ none \in [fam : Families \union {0}, ver : 0 .. 2]
      /\ first # none /\ first.fam = 1 /\ first.ver = 1
  BY <1>1
<1>3. issued = [i \in Ids |-> IF i = on THEN first ELSE none]
  BY DEF Blank
<1>. HIDE DEF first, none
<1>4. issued \in [Ids -> [fam : Families \union {0}, ver : 0 .. 2]]
  BY <1>2, <1>3
<1>5. Minted = {i \in Ids : issued[i] # none}
  BY DEF Minted, Blank, none
<1>6. Minted = {i \in {1} : on = 1}
  BY <1>1, <1>2, <1>3, <1>5
<1>7. Cardinality(Minted) = on
  <2>1. CASE on = 0
    BY <1>6, <2>1, FS_EmptySet
  <2>2. CASE on = 1
    <3>1. Minted = {1}
      BY <1>6, <2>2
    <3>. QED  BY <2>2, <3>1, FS_Singleton
  <2>. QED  BY <2>1, <2>2
<1>8. \A i \in Minted : i = 1 /\ issued[i] = first
  BY <1>1, <1>3, <1>6
<1>. QED  BY <1>1, <1>2, <1>4, <1>6, <1>7, <1>8

LEMMA TabsAtStart ==
  ASSUME NEW on \in Ids \union {0}, NEW first,
         tab = [t \in Tabs |-> IF t = first THEN [NewTab EXCEPT !.tok = on, !.booted = TRUE] ELSE NewTab]
  PROVE  /\ tab \in [Tabs -> Row]
         /\ \A t \in Tabs : Fly(t) = NoFlight /\ Out(t).st = "none" /\ Out(t).ref = 0 /\ tab[t].tok \in {0, on}
<1>. DEFINE zero == 0
            none == "none"
            no == FALSE
            yes == TRUE
            out == [st |-> none, used |-> zero, ref |-> zero, ok |-> no]
            new == [tok |-> zero, booted |-> no, fly |-> NoFlight, out |-> out]
            one == [new EXCEPT !.tok = on, !.booted = yes]
<1>1. tab = [t \in Tabs |-> IF t = first THEN one ELSE new]
  BY DEF NewTab, NoLogout
<1>2. /\ zero \in Ids \union {0} /\ no \in BOOLEAN /\ yes \in BOOLEAN /\ NoFlight \in Flight
      /\ none \in {"none", "sent", "reply", "done", "lost"}
  BY NoFlightIs
<1>. HIDE DEF zero, none, no, yes
<1>3. out \in Leaving /\ out.st = none /\ out.ref = zero
  BY <1>2 DEF Leaving
<1>. HIDE DEF out
<1>4. new \in Row /\ new.tok = zero /\ new.fly = NoFlight /\ new.out = out
  BY <1>2, <1>3 DEF Row
<1>. HIDE DEF new
<1>5. one \in Row /\ one.tok = on /\ one.fly = NoFlight /\ one.out = out
  BY <1>2, <1>4 DEF Row
<1>. HIDE DEF one
<1>6. /\ tab \in [Tabs -> Row]
      /\ \A t \in Tabs : tab[t].tok \in {zero, on} /\ tab[t].fly = NoFlight /\ tab[t].out = out
  BY <1>1, <1>4, <1>5
<1>. QED  BY <1>3, <1>6 DEF Fly, Out, zero, none

LEMMA SessionStart == Init => SessionInv
<1>. SUFFICES ASSUME Init PROVE SessionInv
  OBVIOUS
<1>1. PICK on \in {0, 1}, first \in scene.tabs :
       /\ family = [f \in Families |-> IF f = 1 THEN on ELSE 0] /\ newest = family
       /\ issued = [i \in Ids |-> IF i = on THEN [fam |-> 1, ver |-> 1] ELSE Blank]
       /\ jar = on
       /\ tab = [t \in Tabs |-> IF t = first
                                THEN [NewTab EXCEPT !.tok = on, !.booted = TRUE] ELSE NewTab]
  BY DEF Init
<1>2. /\ issued \in [Ids -> [fam : Families \union {0}, ver : 0 .. 2]]
      /\ Minted = {i \in {1} : on = 1} /\ Cardinality(Minted) = on /\ on \in Ids \union {0}
      /\ \A i \in Minted : i = 1 /\ issued[i].fam = 1 /\ issued[i].ver = 1
      /\ on # 0 => on \in Minted
  BY <1>1, MintedAtStart
<1>3. /\ tab \in [Tabs -> Row]
      /\ \A t \in Tabs : Fly(t) = NoFlight /\ Out(t).st = "none" /\ Out(t).ref = 0 /\ tab[t].tok \in {0, on}
  <2>1. on \in Ids \union {0}
    BY <1>2
  <2>2. tab = [t \in Tabs |-> IF t = first THEN [NewTab EXCEPT !.tok = on, !.booted = TRUE] ELSE NewTab]
    BY <1>1
  <2>. QED  BY <2>1, <2>2, TabsAtStart
<1>4. /\ handed = [i \in Ids |-> 0] /\ denied = {} /\ minimum = 0 /\ lasting = 0 /\ expired = {} /\ scene \in Scenes
      /\ revoke = "off" /\ sign.ver = 0 /\ sign.for = 0 /\ db.ver = 1 /\ db.status = "active"
      /\ ~replayed /\ ~overtaken /\ faults = 0
  BY DEF Init
<1>5. /\ req \in [Reqs -> Request] /\ \A r \in Reqs : req[r].st = "idle"
  <2>1. [st |-> "idle", used |-> 0] \in Request /\ [st |-> "idle", used |-> 0].st = "idle"
    BY RequestIs
  <2>2. req = [r \in Reqs |-> [st |-> "idle", used |-> 0]]
    BY DEF Init
  <2>. QED  BY <2>1, <2>2
<1>6. /\ db \in [ver : 1 .. 2, status : {"active", "inactive"}]
      /\ sign \in [ver : 0 .. 2, for : Tabs \union {0}]
  BY DEF Init
<1>7. lock \in Locks
  <2>1. 0 \in Nat /\ 0 \in 0 .. LockTime /\ 0 \in 0 .. MaxTries /\ 0 + 0 < MaxAttempts + MaxTries
    BY SessionsAssumption DEF LockTime
  <2>2. lock = [fails |-> 0, ttl |-> 0, trying |-> 0]
    BY DEF Init
  <2>. QED  BY <2>1, <2>2, LockOf
<1>8. /\ family \in [Families -> Ids \union {0}] /\ newest \in [Families -> Ids \union {0}]
      /\ \A f \in Families : family[f] = (IF f = 1 THEN on ELSE 0) /\ newest[f] = family[f]
  BY <1>1, <1>2
<1>9. handed \in [Ids -> Ids \union {0}] /\ \A i \in Ids : handed[i] = 0
  BY <1>4
<1>10. Shape
  BY <1>2, <1>3, <1>4, <1>5, <1>6, <1>7, <1>8, <1>9 DEF Shape
<1>11. Numbered
  <2>1. Minted = 1 .. on
    BY <1>2
  <2>. QED  BY <1>2, <2>1, IdsAre DEF Numbered
<1>12. Linked
  <2>1. \A f \in Families : Of(family[f], f) /\ Of(newest[f], f)
    BY <1>2, <1>8 DEF Of
  <2>2. \A t \in Tabs : TabLinked(tab[t])
    BY <1>2, <1>3, NoFlightIs DEF TabLinked, FlightLinked, Made, Fly, Out
  <2>3. \A r \in Reqs : ReqLinked(req[r])
    BY <1>5 DEF ReqLinked
  <2>. QED  BY <1>1, <1>2, <1>4, <1>9, <2>1, <2>2, <2>3 DEF Linked, Made
<1>13. Versions /\ Excluded
  BY <1>2, <1>3, <1>4, NoFlightIs DEF Versions, Excluded
<1>16. Lapsed
  BY <1>4, <1>10, <1>11, FreshIsNew DEF Lapsed
<1>14. QuietInv
  <2>1. \A t \in Tabs : FlightQuiet(Fly(t))
    BY <1>3, NoFlightIs DEF FlightQuiet, Exchanging
  <2>2. jar # 0 => jar = newest[issued[jar].fam]
    BY <1>1, <1>2, <1>8, IdsAre
  <2>. QED  BY <1>4, <1>8, <1>9, <2>1, <2>2 DEF QuietInv, FamilyQuiet
<1>15. CalmInv
  <2>1. \A t \in Tabs : TabCalm(t)
    BY <1>3, <1>4, NoFlightIs, SessionsAssumption DEF TabCalm
  <2>2. \A r \in Reqs : ReqCalm(r)
    BY <1>5 DEF ReqCalm
  <2>3. \A i \in Minted : family[issued[i].fam] # 0
    BY <1>2, <1>8, IdsAre
  <2>. QED  BY <1>1, <1>2, <1>4, <2>1, <2>2, <2>3 DEF CalmInv
<1>. QED  BY <1>10, <1>11, <1>12, <1>13, <1>14, <1>15, <1>16 DEF SessionInv, Well

LEMMA SessionStep == SessionInv /\ [Next]_vars => SessionInv'
<1>. SUFFICES ASSUME SessionInv, [Next]_vars PROVE SessionInv'
  OBVIOUS
<1>1. Well /\ Versions /\ Excluded /\ Lapsed /\ QuietInv /\ CalmInv
  BY DEF SessionInv
<1>. QED  BY <1>1, WellStep, RevocationStep, LapsedStep, QuietStep, CalmStep DEF SessionInv

LEMMA SessionInvariant == Spec => []SessionInv
<1>1. Init => SessionInv
  BY SessionStart
<1>2. SessionInv /\ [Next]_vars => SessionInv'
  BY SessionStep
<1>. QED  BY <1>1, <1>2, PTL DEF Spec

(* The values stay those of the code: numbers of tokens that were made,    *)
(* and statuses that client.ts and AuthService know; the failures counted  *)
(* pass login_max_attempts only by passwords that were being verified.     *)
THEOREM SessionTypes == Spec => []TypeOK
<1>1. SessionInv => TypeOK
  <2>. SUFFICES ASSUME SessionInv PROVE TypeOK
    OBVIOUS
  <2>1. Well /\ Versions /\ Lapsed
    BY DEF SessionInv
  <2>2. Shape /\ Linked /\ Minted \subseteq Ids
    BY <2>1, WellBasics
  <2>3. db.ver \in 1 .. 2 /\ db.status \in {"active", "inactive"} /\ minimum \in 0 .. db.ver
    <3>1. db.ver \in 1 .. 2 /\ db.status \in {"active", "inactive"}
      BY <2>2 DEF Shape
    <3>. QED  BY <2>1, <3>1 DEF Versions
  <2>4. \A t \in Tabs : /\ tab[t].tok \in Minted \union {0}
                        /\ tab[t].fly.st \in {"none", "sent", "user", "rotate", "reply", "refused"}
                        /\ tab[t].out.st \in {"none", "sent", "reply", "done", "lost"}
    BY <2>2 DEF Linked, TabLinked, Made, Shape, Row, Flight, Leaving
  <2>5. \A r \in Reqs : req[r].st \in {"idle", "sent", "wait", "again", "ok", "failed"}
    BY <2>2 DEF Shape, Request
  <2>6. /\ lock.ttl \in 0 .. LockTime /\ lock.trying \in 0 .. MaxTries
        /\ lock.fails \in Nat /\ lock.fails + lock.trying < MaxAttempts + MaxTries
    BY <2>2, LockIs
  <2>8. lasting \in 0 .. MaxTokens + 1
    <3>1. IsFiniteSet(Ids) /\ Cardinality(Ids) = MaxTokens /\ MaxTokens \in Nat
      <4>1. MaxTokens \in Nat
        BY SessionsAssumption
      <4>2. IsFiniteSet(1 .. MaxTokens)
            /\ Cardinality(1 .. MaxTokens) = IF 1 > MaxTokens THEN 0 ELSE MaxTokens - 1 + 1
        BY <4>1, FS_Interval
      <4>. QED  BY <4>1, <4>2 DEF Ids
    <3>2. Cardinality(Minted) <= MaxTokens
      BY <2>2, <3>1, FS_Subset
    <3>3. Fresh \in Nat /\ Cardinality(Minted) \in Nat
      BY <2>1, FreshIsNew DEF Well
    <3>. QED  BY <2>1, <3>1, <3>2, <3>3 DEF Lapsed, Fresh
  <2>7. denied \union expired \subseteq Minted /\ jar \in Minted \union {0}
    BY <2>2 DEF Linked, Made
  <2>. QED  BY <2>2, <2>3, <2>4, <2>5, <2>6, <2>7, <2>8 DEF TypeOK, Shape
<1>. QED  BY <1>1, SessionInvariant, PTL

(* AuthService.refresh, rotate_refresh and authorizedFetch: however many   *)
(* tabs exchange the cookie at once, no session is ended as a replay and   *)
(* no request with an expired token fails, unless an answer was lost, was  *)
(* slower than the grace or was overtaken.                                 *)
THEOREM SignInKept == Spec => []SignInHolds
<1>1. SessionInv => SignInHolds
  <2>. SUFFICES ASSUME SessionInv PROVE SignInHolds
    OBVIOUS
  <2>1. QuietInv /\ CalmInv /\ faults \in Nat
    BY DEF SessionInv, Well, Shape
  <2>2. TabsStaySignedIn
    BY <2>1 DEF TabsStaySignedIn, QuietInv, Quiet
  <2>3. RequestsSucceed
    <3>. SUFFICES ASSUME NEW r \in Reqs, req[r].st = "failed", ~(faults > 0), ~overtaken, revoke = "off",
                         \A t \in Tabs : Out(t).st = "none"
                  PROVE  FALSE
      BY DEF RequestsSucceed
    <3>1. Calm
      BY <2>1 DEF Calm, Quiet
    <3>. QED  BY <2>1, <3>1 DEF CalmInv, ReqCalm
  <2>. QED  BY <2>2, <2>3 DEF SignInHolds
<1>. QED  BY <1>1, SessionInvariant, PTL

(* revoke_all_sessions: once it has returned, no access token of the time  *)
(* before is accepted, and after a deactivation none at all, whatever      *)
(* refresh or log-in was under way meanwhile; when the key is gone, only   *)
(* such tokens as were made in the leeway before it or after it.           *)
THEOREM RevocationsHold == Spec => []RevocationHolds
<1>1. SessionInv => RevocationHolds
  <2>. SUFFICES ASSUME SessionInv, revoke \in {"marked", "done"}, NEW i \in Minted, Accepted(i),
                       issued[i].ver < db.ver \/ scene.does = "deactivate"
                PROVE  minimum = 0 /\ i >= lasting
    BY DEF RevocationHolds
  <2>1. Versions /\ Excluded /\ Lapsed /\ issued[i].ver \in 1 .. 2 /\ i \in Nat /\ db.ver \in 1 .. 2
    BY IdsAre DEF SessionInv, Well, Numbered, Minted, Shape
  <2>2. issued[i].ver < db.ver
    BY <2>1 DEF Excluded
  <2>3. minimum = 0
    BY <2>1, <2>2 DEF Versions, Accepted, Revoked
  <2>4. ~(i < lasting)
    BY <2>1, <2>3 DEF Lapsed, Accepted, Expired
  <2>. QED  BY <2>1, <2>3, <2>4 DEF Lapsed
<1>. QED  BY <1>1, SessionInvariant, PTL
=============================================================================
