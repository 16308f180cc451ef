----------------------------- MODULE MCSessions -----------------------------
(* Instances of Sessions for TLC. *)
EXTENDS Sessions, TLC

CONSTANTS ta, tb, tc, r1, r2, r3

MCOwner == (r1 :> ta) @@ (r2 :> ta) @@ (r3 :> tb)

Scene(does, tabs, reqs, expiries, faulty) ==
  [does |-> does, tabs |-> tabs, reqs |-> reqs, expiries |-> expiries, faults |-> faulty]
(* Three tabs that open; two tabs with requests, answers lost or in time;  *)
(* and each thing the user, somebody who guesses the password, or an       *)
(* administrator can do beside a request.                                  *)
MCScenes ==
  {Scene("nothing", {ta, tb, tc}, {r1, r3}, 1, 0), Scene("nothing", {ta, tb}, {r1, r3}, 2, 0),
   Scene("nothing", {ta, tb}, {r1, r2}, 1, 1), Scene("logout", {ta, tb}, {r1}, 1, 1),
   Scene("login", {ta, tb}, {r1}, 1, 0), Scene("guess", {ta, tb}, {}, 0, 0),
   Scene("password", {ta, tb}, {r1}, 1, 0),
   Scene("deactivate", {ta, tb}, {r1}, 1, 0)}
MCOvertaken == {Scene("nothing", {ta, tb, tc}, {r1, r3}, 2, 0)}
=============================================================================
