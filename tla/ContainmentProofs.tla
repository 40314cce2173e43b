------------------------- MODULE ContainmentProofs -------------------------
(***************************************************************************)
(* Containment keeps its promise: no sequence of moves that respect the    *)
(* guard of PutInto ever builds a loop.                                    *)
(***************************************************************************)
EXTENDS Containment, TLAPS

\* Putting x into something outside a set that holds the contents of x keeps
\* every set of objects open to the outside.
LEMMA ReparentKeepsForest ==
    ASSUME TypeOK, Forest,
           NEW x \in Object, NEW d \in Object, d # x,
           NEW S \in SUBSET Object, HoldsContentsOf(S, x), d \notin S,
           loc' = [loc EXCEPT ![x] = d]
    PROVE  Forest'
<1> SUFFICES ASSUME NEW C \in SUBSET Object, C # {}, \A y \in C : loc'[y] \in C
             PROVE  FALSE
  BY DEF Forest
<1>1. \A y \in Object \ {x} : loc'[y] = loc[y]
  BY DEF TypeOK
<1>2. loc'[x] = d
  BY DEF TypeOK
<1> DEFINE D == C \ (S \cup {x})
<1>3. \A y \in D : loc[y] \in D
  BY <1>1 DEF HoldsContentsOf
<1>4. C \subseteq S \cup {x}
  BY <1>3 DEF Forest
<1>5. x \notin C
  BY <1>2, <1>4
<1>6. \A y \in C : loc[y] \in C
  BY <1>1, <1>5
<1> QED
  BY <1>6 DEF Forest

\* Taking an object out of everything closes no loop either.
LEMMA RemovalKeepsForest ==
    ASSUME TypeOK, Forest, Nil \notin Object,
           NEW x \in Object, loc' = [loc EXCEPT ![x] = Nil]
    PROVE  Forest'
<1> SUFFICES ASSUME NEW C \in SUBSET Object, C # {}, \A y \in C : loc'[y] \in C
             PROVE  FALSE
  BY DEF Forest
<1>1. x \notin C
  BY DEF TypeOK
<1>2. \A y \in C : loc[y] \in C
  BY <1>1 DEF TypeOK
<1> QED
  BY <1>2 DEF Forest

\* Containment stays a forest for every set of objects: the guard of PutInto,
\* which is the recursion check of Object.save, is strong enough.
THEOREM ForestInvariant ==
    ASSUME Nil \notin Object
    PROVE  Spec => [](TypeOK /\ Forest)
<1>1. Init => TypeOK /\ Forest
  BY DEF Init, TypeOK, Forest, Place
<1>2. TypeOK /\ Forest /\ [Next]_loc => (TypeOK /\ Forest)'
  <2> SUFFICES ASSUME TypeOK, Forest, [Next]_loc PROVE (TypeOK /\ Forest)'
    OBVIOUS
  <2>1. TypeOK'
    BY DEF TypeOK, Next, PutInto, PutNowhere, Place
  <2>2. ASSUME NEW x \in Object, NEW d \in Object, PutInto(x, d)
        PROVE  Forest'
    <3>1. PICK S \in SUBSET Object : HoldsContentsOf(S, x) /\ d \notin S
      BY <2>2 DEF PutInto, Within
    <3> QED
      BY <2>2, <3>1, ReparentKeepsForest DEF PutInto
  <2>3. ASSUME NEW x \in Object, PutNowhere(x)
        PROVE  Forest'
    BY <2>3, RemovalKeepsForest DEF PutNowhere
  <2>4. CASE UNCHANGED loc
    BY <2>1, <2>4 DEF Forest
  <2> QED
    BY <2>1, <2>2, <2>3, <2>4 DEF Next
<1> QED
  BY <1>1, <1>2, PTL DEF Spec
=============================================================================
