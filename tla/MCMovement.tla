---------------------------- MODULE MCMovement -----------------------------
(***************************************************************************)
(* Instances of Movement for TLC: the situations.                          *)
(***************************************************************************)
EXTENDS Movement

CONSTANTS a, b, c, d, t1, t2

\* Rooms with hooks and one worker; every operation and two; two movers.
RoomsSetup ==
    [workers |-> 1, slots |-> {t1}, ops |-> {"move", "home", "edit"}, cast |-> Object]

ConcurrentSetup == [workers |-> 2, slots |-> Task, ops |-> AllOps, cast |-> {c, d}]

MoversSetup == [workers |-> 2, slots |-> Task, ops |-> {"move"}, cast |-> {c, d}]

AllSetups == {RoomsSetup, ConcurrentSetup}

TwoMovers == {MoversSetup}
=============================================================================
