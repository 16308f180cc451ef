------------------------------ MODULE Sessions ------------------------------
(***************************************************************************)
(* One user in a browser with several tabs: access tokens that expire, the *)
(* refresh cookie all tabs share and the rotation of its family on the     *)
(* server, the shared refresh of each tab, log-out, log-in with its lock,  *)
(* and the revocation of everything by a change of password.               *)
(*                                                                         *)
(* A token pair minted together has one number, for the access and for the *)
(* refresh token.  The steps of a refresh are those between which others   *)
(* may run: the request, the look at the family, the transaction, the Lua  *)
(* script, the answer.                                                     *)
(***************************************************************************)
EXTENDS Naturals, FiniteSets

CONSTANTS
  Tabs, Reqs,       \* tabs, and the API requests they may send
  Owner,            \* the tab of each request
  MaxAttempts,      \* login_max_attempts
  MaxTries,         \* bound on passwords that are being verified at once
  MaxTokens,        \* bound on tokens made
  MaxLogins,        \* bound on log-ins
  Scenes            \* casts: what the user does, with which tabs and requests, how many
                    \* access tokens expire, how many answers are lost or too slow

ASSUME SessionsAssumption ==
  /\ Owner \in [Reqs -> Tabs] /\ IsFiniteSet(Tabs) /\ 0 \notin Tabs
  /\ Scenes \subseteq [does : {"nothing", "logout", "login", "guess", "password", "deactivate"},
                        tabs : SUBSET Tabs, reqs : SUBSET Reqs, expiries : 0 .. 2, faults : 0 .. 2]
  /\ MaxAttempts \in Nat \ {0} /\ MaxTries \in Nat \ {0} /\ MaxTokens \in Nat \ {0} /\ MaxLogins \in Nat

VARIABLES
  db,       \* token_version and status of the user
  family,   \* Redis: the valid refresh token of each family, 0 when there is none
  handed,   \* Redis: what a rotated token was exchanged for, while the grace lasts
  denied,   \* Redis: access tokens that were logged out
  minimum,  \* Redis: the least token_version that is accepted, 0 when the key is gone
  lasting,  \* the first token that is accepted longer than the key lives
  issued,   \* what each token says: its family and version
  expired,  \* access tokens past their time
  jar,      \* the refresh cookie of the browser
  tab, req, \* the tabs and their requests
  scene,
  revoke,   \* the change of password or the deactivation
  sign,     \* a log-in between its transaction and its tokens
  lock,     \* failed passwords, what is left of their time, those being verified
  replayed, \* a family was ended because one of its tokens came twice
  newest,   \* of each family, the latest cookie the browser has been given
  overtaken, \* an answer brought an older cookie than that
  faults

vars == <<db, family, handed, denied, minimum, lasting, issued, expired, jar, tab, req, scene, revoke, sign, lock,
          replayed, newest, overtaken, faults>>

-----------------------------------------------------------------------------
Ids == 1 .. MaxTokens
Families == 1 .. (1 + MaxLogins)
Blank == [fam |-> 0, ver |-> 0]
Minted == {i \in Ids : issued[i] # Blank}
Fresh == Cardinality(Minted) + 1

NoFlight == [st |-> "none", boot |-> FALSE, sent |-> 0, ver |-> 0, mine |-> 0, out |-> 0]
NoLogout == [st |-> "none", used |-> 0, ref |-> 0, ok |-> FALSE]
NewTab == [tok |-> 0, booted |-> FALSE, fly |-> NoFlight, out |-> NoLogout]
LockTime == 2   \* login_lockout_seconds, in halves

TypeOK ==
  /\ db.ver \in 1 .. 2 /\ db.status \in {"active", "inactive"}
  /\ family \in [Families -> Ids \union {0}] /\ handed \in [Ids -> Ids \union {0}]
  /\ denied \union expired \subseteq Minted /\ jar \in Minted \union {0}
  /\ minimum \in 0 .. db.ver /\ lasting \in 0 .. MaxTokens + 1
  /\ \A t \in Tabs :
       /\ tab[t].tok \in Minted \union {0}
       /\ tab[t].fly.st \in {"none", "sent", "user", "rotate", "reply", "refused"}
       /\ tab[t].out.st \in {"none", "sent", "reply", "done", "lost"}
  /\ \A r \in Reqs : req[r].st \in {"idle", "sent", "wait", "again", "ok", "failed"}
  /\ lock.ttl \in 0 .. LockTime /\ lock.trying \in 0 .. MaxTries
  /\ lock.fails \in Nat /\ lock.fails + lock.trying < MaxAttempts + MaxTries

(* One tab is signed in, or nobody is.                                     *)
Init ==
  /\ scene \in Scenes /\ revoke = "off" /\ sign = [ver |-> 0, for |-> 0]
  /\ db = [ver |-> 1, status |-> "active"]
  /\ \E on \in {0, 1}, first \in scene.tabs :
       /\ family = [f \in Families |-> IF f = 1 THEN on ELSE 0] /\ newest = family
       /\ issued = [i \in Ids |-> IF i = on THEN [fam |-> 1, ver |-> 1] ELSE Blank]
       /\ jar = on
       /\ tab = [t \in Tabs |-> IF t = first
                                THEN [NewTab EXCEPT !.tok = on, !.booted = TRUE] ELSE NewTab]
  /\ handed = [i \in Ids |-> 0] /\ denied = {} /\ minimum = 0 /\ lasting = 0 /\ expired = {}
  /\ req = [r \in Reqs |-> [st |-> "idle", used |-> 0]]
  /\ lock = [fails |-> 0, ttl |-> 0, trying |-> 0]
  /\ replayed = FALSE /\ overtaken = FALSE /\ faults = 0

Fault == faults < scene.faults /\ faults' = faults + 1
NoFault == UNCHANGED faults
Fly(t) == tab[t].fly
Out(t) == tab[t].out
SetFly(t, f) == tab' = [tab EXCEPT ![t].fly = f]

ServerSame == UNCHANGED <<db, family, handed, denied, minimum, lasting, issued, replayed>>
ClientSame == UNCHANGED <<jar, tab, req>>
OthersSame == UNCHANGED <<expired, scene, revoke, sign, lock>>
CourseSame == UNCHANGED <<newest, overtaken>>
RestSame == OthersSame /\ CourseSame

-----------------------------------------------------------------------------
(***************************************************************************)
(* client.ts: a request, its 401, the refresh all requests of a tab share  *)
(***************************************************************************)
Send(r) ==
  /\ r \in scene.reqs /\ req[r].st = "idle" /\ tab[Owner[r]].tok # 0
  /\ req' = [req EXCEPT ![r] = [st |-> "sent", used |-> tab[Owner[r]].tok]]
  /\ UNCHANGED <<jar, tab, faults>> /\ ServerSame /\ RestSame

(* describe_access_token: signature and time, then the two marks in Redis. *)
Revoked(a) == a \in denied \/ issued[a].ver < minimum
Expired(a) == a \in expired
Accepted(a) == ~Expired(a) /\ ~Revoked(a)

Takeoff(boot) == [NoFlight EXCEPT !.st = "sent", !.boot = boot, !.sent = jar]

Ask(t) == IF Fly(t).st = "none" THEN Takeoff(FALSE) ELSE Fly(t)

Answer(r) ==
  /\ req[r].st = "sent"
  /\ LET used == req[r].used  t == Owner[r]  now == tab[t].tok IN
     IF Accepted(used) THEN req' = [req EXCEPT ![r].st = "ok"] /\ UNCHANGED tab
     ELSE IF ~Expired(used) THEN req' = [req EXCEPT ![r].st = "failed"] /\ UNCHANGED tab
     ELSE IF now \notin {0, used}
          THEN req' = [req EXCEPT ![r] = [st |-> "again", used |-> now]] /\ UNCHANGED tab
          ELSE req' = [req EXCEPT ![r].st = "wait"] /\ SetFly(t, Ask(t))
  /\ UNCHANGED <<jar, faults>> /\ ServerSame /\ RestSame

(* Replayed once, whatever the answer.                                     *)
Again(r) ==
  /\ req[r].st = "again"
  /\ req' = [req EXCEPT ![r].st = IF Accepted(req[r].used) THEN "ok" ELSE "failed"]
  /\ UNCHANGED <<jar, tab, faults>> /\ ServerSame /\ RestSame

(* A reloaded or new tab exchanges the cookie, once.                       *)
Bootstrap(t) ==
  /\ t \in scene.tabs /\ ~tab[t].booted /\ Fly(t).st = "none"
  /\ tab' = [tab EXCEPT ![t].booted = TRUE, ![t].fly = IF @.st = "none" /\ tab[t].tok = 0
                                                      THEN Takeoff(TRUE) ELSE @]
  /\ UNCHANGED <<jar, req, faults>> /\ ServerSame /\ RestSame

-----------------------------------------------------------------------------
(***************************************************************************)
(* AuthService.refresh                                                     *)
(***************************************************************************)
FamilyOf(i) == issued[i].fam

CheckFamily(t) ==
  /\ Fly(t).st = "sent"
  /\ LET known == Fly(t).sent # 0 /\ family[FamilyOf(Fly(t).sent)] # 0 IN
     SetFly(t, [Fly(t) EXCEPT !.st = IF known THEN "user" ELSE "refused"])
  /\ UNCHANGED <<jar, req, faults>> /\ ServerSame /\ RestSame

ReadUser(t) ==
  /\ Fly(t).st = "user"
  /\ LET old == issued[Fly(t).sent].ver # db.ver IN
     /\ SetFly(t, [Fly(t) EXCEPT
          !.st = IF db.status = "active" /\ ~old THEN "rotate" ELSE "refused", !.ver = db.ver])
     /\ family' = IF db.status = "active" /\ old
                  THEN [family EXCEPT ![FamilyOf(Fly(t).sent)] = 0] ELSE family
  /\ UNCHANGED <<db, handed, denied, minimum, lasting, issued, replayed, jar, req, faults>> /\ RestSame

(* The outcomes of the script: the token to hand out, or 0.                *)
SeededHandedOut(sent, new) ==         \* seeded fault: no grace
  IF family[FamilyOf(sent)] = sent THEN new ELSE 0
SeededOwn(sent, new) ==               \* seeded fault: the loser keeps the token minted for it
  CASE family[FamilyOf(sent)] = 0 -> 0
    [] family[FamilyOf(sent)] = sent \/ handed[sent] # 0 -> new
    [] OTHER -> 0
HandedOut(sent, new) ==
  IF family[FamilyOf(sent)] = 0 THEN 0
  ELSE IF family[FamilyOf(sent)] = sent THEN new ELSE handed[sent]

Rotate(t) ==
  /\ Fly(t).st = "rotate" /\ Fresh \in Ids
  /\ LET sent == Fly(t).sent  f == FamilyOf(sent)  out == HandedOut(sent, Fresh)
         replay == out = 0 /\ family[f] # 0 IN
     /\ issued' = [issued EXCEPT ![Fresh] = [fam |-> f, ver |-> Fly(t).ver]]
     /\ family' = IF family[f] = sent THEN [family EXCEPT ![f] = Fresh]
                  ELSE IF replay THEN [family EXCEPT ![f] = 0] ELSE family
     /\ handed' = IF family[f] = sent THEN [handed EXCEPT ![sent] = Fresh] ELSE handed
     /\ replayed' = (replayed \/ replay)
     /\ SetFly(t, [Fly(t) EXCEPT !.st = IF out = 0 THEN "refused" ELSE "reply",
                                 !.mine = Fresh, !.out = out])
  /\ UNCHANGED <<db, denied, minimum, lasting, jar, req, faults>> /\ RestSame

(* The answer: cookie and token change together, the waiting go on.        *)
Waiting(t) == {r \in Reqs : Owner[r] = t /\ req[r].st = "wait"}
SeededWake(t, st, used) == req        \* seeded fault: the waiting are forgotten
Wake(t, st, used) ==
  [r \in Reqs |-> IF r \in Waiting(t) /\ ~Fly(t).boot THEN [st |-> st, used |-> used] ELSE req[r]]

Deliver(t) ==
  /\ Fly(t).st = "reply"
  /\ jar' = Fly(t).out
  /\ tab' = [tab EXCEPT ![t].tok = Fly(t).mine, ![t].fly = NoFlight]
  /\ req' = Wake(t, "again", Fly(t).mine)
  /\ LET f == FamilyOf(Fly(t).out)  last == newest[f] IN
     /\ overtaken' = (overtaken \/ last > Fly(t).out)
     /\ newest' = [newest EXCEPT ![f] = IF last > Fly(t).out THEN last ELSE Fly(t).out]
  /\ UNCHANGED faults /\ ServerSame /\ OthersSame

(* onSessionExpired clears the store; a failed bootstrap changes nothing.  *)
Fail(t) ==
  /\ tab' = [tab EXCEPT ![t].tok = IF Fly(t).boot THEN @ ELSE 0, ![t].fly = NoFlight]
  /\ req' = Wake(t, "failed", 0)
  /\ UNCHANGED jar /\ ServerSame /\ RestSame

Refused(t) == Fly(t).st = "refused" /\ Fail(t) /\ NoFault

(* The request or its answer is lost, or takes longer than the time-out.   *)
Lose(t) == Fly(t).st \in {"sent", "reply"} /\ Fail(t) /\ Fault

-----------------------------------------------------------------------------
(***************************************************************************)
(* Log-out and log-in                                                      *)
(***************************************************************************)
Logout(t) ==
  /\ scene.does \in {"logout", "login", "guess"} /\ tab[t].tok # 0 /\ Out(t).st = "none"
  /\ tab' = [tab EXCEPT ![t].out = [st |-> "sent", used |-> tab[t].tok, ref |-> jar, ok |-> FALSE]]
  /\ UNCHANGED <<jar, req, faults>> /\ ServerSame /\ RestSame

ServeLogout(t) ==
  /\ Out(t).st = "sent"
  /\ LET ok == Accepted(Out(t).used) IN
     /\ tab' = [tab EXCEPT ![t].out = [Out(t) EXCEPT !.st = "reply", !.ok = ok]]
     /\ denied' = IF ok THEN denied \union {Out(t).used} ELSE denied
     /\ family' = IF ok /\ Out(t).ref # 0 THEN [family EXCEPT ![FamilyOf(Out(t).ref)] = 0]
                  ELSE family
  /\ UNCHANGED <<db, handed, minimum, lasting, issued, replayed, jar, req, faults>> /\ RestSame

(* The local side happens whatever the answer was.                         *)
EndLogout(t) ==
  /\ Out(t).st = "reply"
  /\ tab' = [tab EXCEPT ![t].tok = 0, ![t].out = [Out(t) EXCEPT !.st = "done"]]
  /\ jar' = IF Out(t).ok THEN 0 ELSE jar
  /\ UNCHANGED <<req, faults>> /\ ServerSame /\ RestSame

LoseLogout(t) ==
  /\ Out(t).st \in {"sent", "reply"} /\ Fault
  /\ tab' = [tab EXCEPT ![t].tok = 0, ![t].out = [Out(t) EXCEPT !.st = "lost"]]
  /\ UNCHANGED <<jar, req>> /\ ServerSame /\ RestSame


-----------------------------------------------------------------------------
(* AuthService: the lock that log-in and change_password share.            *)
Locked == lock.fails >= MaxAttempts

SeededAdmitted ==                     \* seeded fault: those it stops renew the lock
  IF Locked THEN [lock EXCEPT !.ttl = LockTime] ELSE [lock EXCEPT !.trying = lock.trying + 1]
SeededUnlocked ==                     \* seeded fault: the lock is not looked at
  [lock EXCEPT !.trying = lock.trying + 1]
Admitted == IF Locked THEN lock ELSE [lock EXCEPT !.trying = lock.trying + 1]

(* ensure_not_locked; the password is verified only after it.              *)
Try ==
  /\ scene.does \in {"login", "guess", "password", "deactivate"} /\ lock.trying < MaxTries
  /\ lock' = Admitted
  /\ UNCHANGED <<expired, scene, revoke, sign, newest, overtaken, faults>> /\ ServerSame /\ ClientSame

(* A wrong one is counted, also when others have locked meanwhile.         *)
Miss ==
  /\ scene.does = "guess" /\ lock.trying > 0
  /\ lock' = [fails |-> lock.fails + 1, ttl |-> LockTime, trying |-> lock.trying - 1]
  /\ UNCHANGED <<expired, scene, revoke, sign, newest, overtaken, faults>> /\ ServerSame /\ ClientSame

(* clear_password_failures, also of a lock that came meanwhile.            *)
Cleared == [fails |-> 0, ttl |-> 0, trying |-> lock.trying - 1]

LockTick ==
  /\ lock.ttl > 0
  /\ lock' = [lock EXCEPT !.fails = IF lock.ttl = 1 THEN 0 ELSE lock.fails, !.ttl = lock.ttl - 1]
  /\ UNCHANGED <<expired, scene, revoke, sign, newest, overtaken, faults>> /\ ServerSame /\ ClientSame

(* The right password in a tab that shows the log-in page: the version is  *)
(* read in the transaction, the tokens are made after it.                  *)
MayLogin == db.status = "active"

Login(t) ==
  /\ scene.does \in {"login", "guess", "password", "deactivate"} /\ lock.trying > 0
  /\ tab[t].tok = 0 /\ tab[t].booted /\ Fly(t).st = "none" /\ Out(t).st # "sent"
  /\ sign.for = 0 /\ MayLogin
  /\ \E f \in Families : \A i \in Ids : issued[i].fam # f
  /\ sign' = [ver |-> db.ver, for |-> t] /\ lock' = Cleared
  /\ UNCHANGED <<expired, scene, revoke, newest, overtaken, faults>> /\ ServerSame /\ ClientSame

Issue(t) ==
  /\ sign.for = t /\ Fresh \in Ids
  /\ \E f \in Families :
       /\ \A i \in Ids : issued[i].fam # f
       /\ \A g \in 1 .. (f - 1) : \E i \in Ids : issued[i].fam = g
       /\ issued' = [issued EXCEPT ![Fresh] = [fam |-> f, ver |-> sign.ver]]
       /\ family' = [family EXCEPT ![f] = Fresh] /\ newest' = [newest EXCEPT ![f] = Fresh]
  /\ jar' = Fresh /\ tab' = [tab EXCEPT ![t].tok = Fresh] /\ sign' = [ver |-> 0, for |-> 0]
  /\ UNCHANGED <<db, handed, denied, minimum, lasting, replayed, req, expired, scene, revoke, lock,
                 overtaken, faults>>

-----------------------------------------------------------------------------
(***************************************************************************)
(* UserService.change_password and deactivate, AuthService.revoke_all_     *)
(* sessions: a transaction, another one, the mark in Redis, the answer.    *)
(***************************************************************************)
RevokeRest == UNCHANGED <<family, handed, denied, issued, replayed, expired, scene, sign, newest,
                          overtaken, faults>> /\ ClientSame

ChangePassword ==
  /\ revoke = "off" /\ scene.does = "password" /\ lock.trying > 0
  /\ revoke' = "changed" /\ lock' = Cleared
  /\ UNCHANGED <<db, minimum, lasting>> /\ RevokeRest

Deactivate ==
  /\ revoke = "off" /\ scene.does = "deactivate"
  /\ revoke' = "changed" /\ db' = [db EXCEPT !.status = "inactive"]
  /\ UNCHANGED <<minimum, lasting, lock>> /\ RevokeRest

Bump ==
  /\ revoke = "changed" /\ revoke' = "bumped" /\ db' = [db EXCEPT !.ver = db.ver + 1]
  /\ UNCHANGED <<minimum, lasting, lock>> /\ RevokeRest

SeededMarked == db.ver - 1            \* seeded fault: the version from before the bump
Marked == db.ver
(* The key lives as long as an access token.  A token is accepted for      *)
(* CLOCK_SKEW_LEEWAY more, so one made in the leeway before the key or     *)
(* after it outlives the key: those from `lasting' on.                     *)
Mark ==
  /\ revoke = "bumped" /\ revoke' = "marked" /\ minimum' = Marked
  /\ lasting' \in 1 .. Fresh
  /\ UNCHANGED <<db, lock>> /\ RevokeRest

(* The tab that changed the password loses its cookie.                     *)
Told ==
  /\ revoke = "marked" /\ revoke' = "done"
  /\ jar' = IF scene.does = "password" THEN 0 ELSE jar
  /\ UNCHANGED <<tab, req, expired, scene, sign, lock, newest, overtaken, faults>> /\ ServerSame

-----------------------------------------------------------------------------
(***************************************************************************)
(* Time: a token outlives every request that is under way when it is made. *)
(***************************************************************************)
AccessExpire(a) ==
  /\ a \in Minted \ expired /\ Cardinality(expired) < scene.expiries
  /\ \A t \in Tabs : Fly(t).st # "none" => Fly(t).sent >= a
  /\ \A r \in Reqs : /\ req[r].st = "again" => req[r].used # a
                     /\ req[r].st = "sent" => req[r].used >= a
  /\ expired' = expired \union {a}
  /\ UNCHANGED <<scene, revoke, sign, lock, newest, overtaken, faults>> /\ ServerSame /\ ClientSame

(* ACCESS_TTL is longer than any request or answer.                        *)
MarkExpire ==
  /\ minimum # 0 /\ minimum' = 0
  /\ sign.for = 0 /\ \A t \in Tabs : Fly(t).st = "none" /\ Out(t).st # "sent"
  /\ \A r \in Reqs : req[r].st \notin {"sent", "again"}
  /\ expired' = expired \union {i \in Minted : i < lasting}
  /\ UNCHANGED <<db, family, handed, denied, lasting, issued, replayed, scene, revoke, sign, lock,
                 faults>> /\ ClientSame /\ CourseSame

(* The grace outlasts a refresh under way, unless that one is slow.        *)
GraceExpire(j) ==
  /\ handed[j] # 0 /\ handed' = [handed EXCEPT ![j] = 0]
  /\ IF \E t \in Tabs : Fly(t).st \in {"sent", "user", "rotate", "reply"} /\ Fly(t).sent = j
     THEN Fault ELSE NoFault
  /\ UNCHANGED <<db, family, denied, minimum, lasting, issued, replayed>> /\ ClientSame /\ RestSame

ServerStep(t) == CheckFamily(t) \/ ReadUser(t) \/ Rotate(t) \/ ServeLogout(t) \/ Issue(t)
TabStep(t) == Deliver(t) \/ Refused(t) \/ EndLogout(t)
UserStep(t) == Bootstrap(t) \/ Logout(t) \/ Login(t)
RequestStep(r) == Answer(r) \/ Again(r)

Next ==
  \/ \E t \in Tabs : ServerStep(t) \/ TabStep(t) \/ UserStep(t) \/ Lose(t) \/ LoseLogout(t)
  \/ \E r \in Reqs : Send(r) \/ RequestStep(r)
  \/ ChangePassword \/ Deactivate \/ Bump \/ Mark \/ Told
  \/ Try \/ Miss \/ LockTick \/ MarkExpire
  \/ \E i \in Ids : AccessExpire(i) \/ GraceExpire(i)

Spec == Init /\ [][Next]_vars

(* Servers and browsers go on; users, clocks and faults need not, but the  *)
(* time of a lock passes.                                                  *)
FairSpec ==
  /\ Spec /\ WF_vars(LockTick) /\ WF_vars(Bump) /\ WF_vars(Mark) /\ WF_vars(Told)
  /\ \A t \in Tabs : WF_vars(ServerStep(t)) /\ WF_vars(TabStep(t))
  /\ \A r \in Reqs : WF_vars(RequestStep(r))

-----------------------------------------------------------------------------
(* AuthService.refresh: no session is ended as a replay of its cookie      *)
(* unless an answer was lost, was slower than the grace or was overtaken   *)
(* by the answer of a later exchange, however tabs compete.                *)
TabsStaySignedIn == replayed => faults > 0 \/ overtaken

(* The docstring of refresh: both tabs end up with one cookie and nobody   *)
(* is kicked out; only a late repetition is a replay.                      *)
NobodyIsKickedOut == replayed => faults > 0

(* authorizedFetch and sharedRefresh: while nothing is lost and nobody     *)
(* signs out or is revoked, a request that met an expired token succeeds.  *)
RequestsSucceed ==
  \A r \in Reqs : req[r].st = "failed" =>
    faults > 0 \/ overtaken \/ revoke # "off" \/ \E t \in Tabs : Out(t).st # "none"

(* revoke_all_sessions: once it has returned, no token of the time before  *)
(* is accepted, nor one made for a refresh or log-in then under way.  It   *)
(* may be again when the key is gone, but only one that was made in the    *)
(* leeway before the key or after it; all older ones are past their time   *)
(* by then.                                                                *)
RevocationHolds ==
  revoke \in {"marked", "done"} =>
    \A i \in Minted :
      Accepted(i) /\ (issued[i].ver < db.ver \/ scene.does = "deactivate")
        => minimum = 0 /\ i >= lasting

(* sharedRefresh: every request that was sent is answered in the end.      *)
RequestsEnd == \A r \in Reqs : req[r].st = "sent" ~> req[r].st \in {"ok", "failed"}

(* record_password_failure: a lock ends, even if log-in is tried again and *)
(* again meanwhile.                                                        *)
LockEnds == Locked ~> ~Locked

(* AuthService.refresh and authorizedFetch: an expired token costs its     *)
(* user neither the session nor the request.                               *)
SignInHolds == TabsStaySignedIn /\ RequestsSucceed

(* sharedRefresh and record_password_failure: whoever waits is let on.     *)
SessionsMoveOn == RequestsEnd /\ LockEnds
(***************************************************************************)
(* A claim of the sources that the code does not keep                      *)
(***************************************************************************)
(* auth.py:327-328: when the mark is gone, the tokens it revoked are past  *)
(* their time anyway.                                                      *)
MarkOutlivesTokens ==
  revoke \in {"marked", "done"} /\ minimum = 0 =>
    \A i \in Minted : issued[i].ver < db.ver => Expired(i)
=============================================================================
