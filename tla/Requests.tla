------------------------------ MODULE Requests ------------------------------
(***************************************************************************)
(* What surrounds every request: the limit of requests per minute, the     *)
(* tenant it works for, the transactions it opens on connections that are  *)
(* shared, and what is remembered while it lasts.                          *)
(*                                                                         *)
(* A line is a context that serves its requests one after the other.  A    *)
(* request may do some work for another tenant, inside its transaction or  *)
(* after it.  Tenant 0 is none: no token, or nothing set.                  *)
(***************************************************************************)
EXTENDS Integers, FiniteSets, Sequences

CONSTANTS
  Lines,          \* contexts that serve requests
  Rounds,         \* what may be served, in the order of each context
  Tenants,
  Pool,           \* connections
  PerMinute,      \* limit of requests, 0 for none
  Windows,        \* bound on time, in minutes
  MaxChanges,     \* bound on changes of the limits of a tenant
  MaxBlows        \* bound on failures of Redis

Addresses == {"near", "far"}
Visits ==
  {v \in [from : Addresses, tenant : Tenants \union {0}, other : Tenants \union {0},
          how : {"alone", "within", "after"}, size : {"small", "large"}] :
     v.how = "after" => v.other \in Tenants}

ASSUME RequestsAssumption ==
  /\ Tenants \subseteq Nat \ {0} /\ Lines \subseteq Nat \ {0} /\ {PerMinute, MaxChanges, MaxBlows} \subseteq Nat
  /\ Windows \in Nat \ {0} /\ Rounds \subseteq [Lines -> Seq(Visits)]

VARIABLES
  window,     \* the minute; 0 for a system at rest
  counter,    \* keys rl:bucket:address:window
  admitted,   \* by address and window: how many the counter let in, and whether it kept one out
  line,       \* contexts: [plan, at, tenant, memo, uow, conn, since, told]
  conns,      \* app.tenant_id of a connection, and who has it
  quota,      \* the limits of a tenant, as the number of their changes
  blows

requestsVars == <<window, counter, admitted, line, conns, quota, blows>>

-----------------------------------------------------------------------------
NoConn == "none"
Unused == 0
Plan(l) == Head(line[l].plan)
AtLine(l, at) == line[l].at = at
Nothing == [of |-> 0, change |-> 0]
Unknown == [t \in Tenants \union {0} |-> Nothing]

RequestsTypeOK ==
  /\ window \in 0 .. Windows /\ blows \in 0 .. MaxBlows
  /\ \A l \in Lines :
       /\ line[l].at \in {"wait", "count", "body", "auth", "limits", "open", "rows", "close", "more", "end"}
       /\ line[l].conn # NoConn => conns[line[l].conn].user = l /\ line[l].uow # 0
       /\ AtLine(l, "wait") => line[l].uow = 0 /\ line[l].conn = NoConn
  /\ \A k \in Pool : conns[k].tenant \in Tenants \union {0} /\ conns[k].user \in Lines \union {Unused}
  /\ \A t \in Tenants : quota[t] \in 0 .. MaxChanges

RequestsBegin(first, visits) ==
  /\ window = first /\ blows = 0 /\ quota = [t \in Tenants |-> 0]
  /\ counter = [key \in Addresses \X (1 .. Windows) |-> 0]
  /\ admitted = [key \in Addresses \X (1 .. Windows) |-> [in |-> 0, out |-> FALSE]]
  /\ conns = [k \in Pool |-> [tenant |-> 0, user |-> Unused]]
  /\ \E v \in visits :
       line = [l \in Lines |-> [plan |-> v[l], at |-> "wait", tenant |-> 0, memo |-> Unknown, uow |-> 0,
                                conn |-> NoConn, since |-> quota, told |-> Nothing]]
RequestsInit == RequestsBegin(1, Rounds)
RequestsOff == RequestsBegin(0, {CHOOSE v \in Rounds : TRUE})

GoTo(l, at) == line' = [line EXCEPT ![l].at = at]

-----------------------------------------------------------------------------
(***************************************************************************)
(* RequestContextMiddleware, RateLimitMiddleware, BodySizeLimitMiddleware  *)
(***************************************************************************)
Arrive(l) ==
  /\ window > 0 /\ AtLine(l, "wait") /\ line[l].plan # <<>>
  /\ line' = [line EXCEPT ![l].at = IF PerMinute = 0 THEN "body" ELSE "count",
                          ![l].memo = Unknown, ![l].since = quota]
  /\ UNCHANGED <<window, counter, admitted, conns, quota, blows>>

(* The key holds the number of the window, so nothing is ever reset.  The  *)
(* expiry is a command of its own, for the first one only; a key without   *)
(* it is never asked for again.                                            *)
SeededWindowOf(w) == 1                \* seeded fault: one key for all windows
WindowOf(w) == w
Within(used) == used <= PerMinute
Count(l) ==
  /\ AtLine(l, "count")
  /\ LET a == Plan(l).from
         used == counter[<<a, WindowOf(window)>>] + 1
     IN /\ counter' = [counter EXCEPT ![<<a, WindowOf(window)>>] = used]
        /\ admitted' = IF Within(used) THEN [admitted EXCEPT ![<<a, window>>].in = @ + 1]
                                      ELSE [admitted EXCEPT ![<<a, window>>].out = TRUE]
        /\ GoTo(l, IF Within(used) THEN "body" ELSE "end")
  /\ UNCHANGED <<window, conns, quota, blows>>

(* Redis is away, before the count or between the two: nobody is kept out. *)
CountFails(l) ==
  /\ AtLine(l, "count") /\ blows < MaxBlows /\ blows' = blows + 1 /\ GoTo(l, "body")
  /\ counter' \in {counter, [counter EXCEPT ![<<Plan(l).from, WindowOf(window)>>] = @ + 1]}
  /\ UNCHANGED <<window, admitted, conns, quota>>

(* _too_large; then a route that asks for a token, or one that does not.   *)
Body(l) ==
  /\ AtLine(l, "body")
  /\ GoTo(l, IF Plan(l).size = "large" THEN "end" ELSE IF Plan(l).tenant = 0 THEN "open" ELSE "auth")
  /\ UNCHANGED <<window, counter, admitted, conns, quota, blows>>

(* require_authenticated: the tenant of the token, and nothing else.       *)
Authenticate(l) ==
  /\ AtLine(l, "auth") /\ line' = [line EXCEPT ![l].at = "limits", ![l].tenant = Plan(l).tenant]
  /\ UNCHANGED <<window, counter, admitted, conns, quota, blows>>

(* The response is out: the context is cleared for the next request.       *)
SeededLeft(l) == line[l].tenant       \* seeded fault: the tenant stays
Left(l) == 0
End(l) ==
  /\ AtLine(l, "end")
  /\ line' = [line EXCEPT ![l].at = "wait", ![l].plan = Tail(@), ![l].tenant = Left(l), ![l].told = Nothing]
  /\ UNCHANGED <<window, counter, admitted, conns, quota, blows>>

-----------------------------------------------------------------------------
(***************************************************************************)
(* The work: limits that are remembered, and transactions                  *)
(***************************************************************************)
SeededMemoKey(t) == 0                 \* seeded fault: the key leaves the tenant out
MemoKey(t) == t
Limits(l) ==
  /\ AtLine(l, "limits")
  /\ LET t == line[l].tenant
         known == line[l].memo[MemoKey(t)]
         value == IF known # Nothing THEN known ELSE [of |-> t, change |-> quota[t]]
     IN line' = [line EXCEPT ![l].memo[MemoKey(t)] = value, ![l].told = value, ![l].at = "open"]
  /\ UNCHANGED <<window, counter, admitted, conns, quota, blows>>

(* unit_of_work: no tenant, no transaction; else a connection of the pool  *)
(* for its whole length, and app.tenant_id set within it.                  *)
OpenConn(l) ==
  /\ AtLine(l, "open")
  /\ \/ line[l].tenant = 0 /\ GoTo(l, "end") /\ UNCHANGED conns
     \/ /\ line[l].tenant # 0
        /\ \E k \in Pool :
             /\ conns[k].user = Unused /\ conns' = [conns EXCEPT ![k] = [tenant |-> line[l].tenant, user |-> l]]
             /\ line' = [line EXCEPT ![l].at = "rows", ![l].conn = k, ![l].uow = line[l].tenant]
  /\ UNCHANGED <<window, counter, admitted, quota, blows>>

(* A transaction that ends takes its setting with it, whatever the end.    *)
SeededAfter(k) == [conns[k] EXCEPT !.user = Unused]   \* seeded fault: set for the session
After(k) == [tenant |-> 0, user |-> Unused]
Closed(l, at) ==
  /\ conns' = [conns EXCEPT ![line[l].conn] = After(line[l].conn)]
  /\ line' = [line EXCEPT ![l].at = at, ![l].conn = NoConn, ![l].uow = 0, ![l].tenant = Plan(l).tenant]

(* A service calls another one for the same tenant or another, inside its  *)
(* own transaction: the setting would outlast the inner one.               *)
SeededMayNest(l) == TRUE              \* seeded fault: the inner tenant wins
MayNest(l) == line[l].uow = Plan(l).other
Nest(l) ==
  /\ AtLine(l, "rows") /\ Plan(l).how = "within" /\ line[l].tenant = Plan(l).tenant
  /\ IF MayNest(l) THEN conns' = [conns EXCEPT ![line[l].conn].tenant = Plan(l).other] /\ GoTo(l, "close")
                   ELSE Closed(l, "end")
  /\ UNCHANGED <<window, counter, admitted, quota, blows>>

Query(l) ==
  /\ AtLine(l, "rows") /\ Plan(l).how # "within" /\ GoTo(l, "close")
  /\ UNCHANGED <<window, counter, admitted, conns, quota, blows>>

(* A statement of the outer transaction, then its end.                     *)
Close(l) ==
  /\ AtLine(l, "close") /\ Closed(l, IF Plan(l).how = "after" /\ line[l].tenant # Plan(l).other
                                          THEN "more" ELSE "end")
  /\ UNCHANGED <<window, counter, admitted, quota, blows>>

(* tenant_context, for another tenant after the own transaction.           *)
Aside(l) ==
  /\ AtLine(l, "more")
  /\ line' = [line EXCEPT ![l].at = "limits", ![l].tenant = Plan(l).other]
  /\ UNCHANGED <<window, counter, admitted, conns, quota, blows>>

Change(t) ==
  /\ window > 0 /\ quota[t] < MaxChanges /\ quota' = [quota EXCEPT ![t] = @ + 1]
  /\ UNCHANGED <<window, counter, admitted, line, conns, blows>>

NextWindow ==
  /\ window \in 1 .. (Windows - 1) /\ window' = window + 1
  /\ UNCHANGED <<counter, admitted, line, conns, quota, blows>>

RequestsNext ==
  \/ \E l \in Lines : \/ Arrive(l) \/ Count(l) \/ CountFails(l) \/ Body(l) \/ Authenticate(l) \/ End(l)
                      \/ Limits(l) \/ OpenConn(l) \/ Nest(l) \/ Query(l) \/ Close(l) \/ Aside(l)
  \/ (\E t \in Tenants : Change(t)) \/ NextWindow

RequestsSpec == RequestsInit /\ [][RequestsNext]_requestsVars

-----------------------------------------------------------------------------
(* unit_of_work, RequestContextMiddleware, request_cache: every statement  *)
(* runs with the same tenant in the filter, in the setting of its          *)
(* connection and in the token; a request without a token has none; and    *)
(* limits are those of the own tenant, not older than the request.  A      *)
(* connection that is given back carries nothing on.                       *)
OneTenant ==
  \A l \in Lines :
    /\ line[l].at \in {"rows", "close"} =>
         /\ conns[line[l].conn].tenant = line[l].tenant
         /\ line[l].tenant = Plan(l).tenant \/ (Plan(l).how = "after" /\ line[l].tenant = Plan(l).other)
    /\ line[l].at \in {"count", "body", "auth"} /\ line[l].told = Nothing => line[l].tenant = 0
    /\ AtLine(l, "open") /\ line[l].told # Nothing =>
         line[l].told.of = line[l].tenant /\ line[l].told.change >= line[l].since[line[l].tenant]
    /\ \A k \in Pool : conns[k].user = Unused => conns[k].tenant = 0

(* RateLimitMiddleware: within a minute the counter lets in as many as the *)
(* limit says and no more, and a new minute owes nothing to the last one.  *)
EveryMinuteIsNew ==
  \A a \in Addresses, w \in 1 .. Windows :
    /\ admitted[<<a, w>>].in <= PerMinute
    /\ admitted[<<a, w>>].out => admitted[<<a, w>>].in + blows >= PerMinute

(* The middleware and unit_of_work: a request is counted in its minute and *)
(* works for its tenant.                                                   *)
RequestsAreApart == OneTenant /\ EveryMinuteIsNew
=============================================================================
