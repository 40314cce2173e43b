---------------------------- MODULE Containment ----------------------------
(***************************************************************************)
(* What the object model promises about `Object.location`: every object is *)
(* in at most one place, and following locations outwards always ends in   *)
(* the void.  The docstring of `location` (moo/core/models/object.py)      *)
(* states the second half: a move that would put an object inside itself,  *)
(* even indirectly, is refused.  Movement.tla is the code that is meant to *)
(* implement this module.                                                  *)
(***************************************************************************)
CONSTANTS Object,  \* database objects
          Nil      \* location = None, the void

VARIABLE loc       \* loc[x]: the object x is in, or Nil

Place == Object \cup {Nil}

(***************************************************************************)
(* d is in the content tree of x: it belongs to every set that holds, with *)
(* x or one of its members, whatever is located there.  This is the least  *)
(* fixpoint `get_contents` computes with a recursive query, said without   *)
(* recursion.                                                              *)
(***************************************************************************)
HoldsContentsOf(S, x) == \A y \in Object : loc[y] \in S \cup {x} => y \in S

Within(d, x) == \A S \in SUBSET Object : HoldsContentsOf(S, x) => d \in S

Init == loc = [x \in Object |-> Nil]

PutInto(x, d) ==
    /\ d # x
    /\ ~ Within(d, x)
    /\ loc' = [loc EXCEPT ![x] = d]

PutNowhere(x) == loc' = [loc EXCEPT ![x] = Nil]

Next == \E x \in Object : PutNowhere(x) \/ \E d \in Object : PutInto(x, d)

Spec == Init /\ [][Next]_loc

-----------------------------------------------------------------------------

TypeOK == loc \in [Object -> Place]

\* There is no containment loop: every non-empty set of objects has a member
\* that is located outside the set (object.py, the docstring of `location`).
Forest == \A C \in SUBSET Object : C # {} => \E y \in C : loc[y] \notin C
=============================================================================
