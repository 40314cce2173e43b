-------------------------- MODULE InheritanceProofs --------------------------
(***************************************************************************)
(* The ancestor cache is right for every number of objects: rebuilding the *)
(* rows of an object and of its descendants is enough, because a walk up   *)
(* from anybody else never passes a link of that object.                   *)
(***************************************************************************)
EXTENDS Inheritance, FiniteSetTheorems, WellFoundedInduction, TLAPS

-----------------------------------------------------------------------------
\* Sets of natural numbers and walks.

LEMMA LeastNumber ==
    ASSUME NEW S \in SUBSET Nat, S # {}
    PROVE  \E m \in S : \A k \in S : m <= k
<1> DEFINE R == {ss \in Nat \X Nat : ss[1] < ss[2]}
<1>1. IsWellFoundedOn(R, Nat)
  BY NatLessThanWellFounded, Zenon DEF OpToRel
<1> HIDE DEF R
<1>2. \E m \in S : \A k \in S : ~ (<<k, m>> \in R)
  BY <1>1, WFMin
<1>3. \A k, m \in Nat : k < m => <<k, m>> \in R
  BY DEF R
<1>4. PICK m \in S : \A k \in S : ~ (<<k, m>> \in R)
  BY <1>2
<1>5. ASSUME NEW k \in S
      PROVE  m <= k
  <2>1. k \in Nat /\ m \in Nat
    OBVIOUS
  <2>2. ~ (k < m)
    BY <1>3, <1>4, <2>1, Zenon
  <2> QED
    BY <2>1, <2>2
<1> QED
  BY <1>5

LEMMA HopsAreNatural == Hops \in Int /\ (Object # {} => Hops \in Nat)
<1>1. Cardinality(Object) \in Nat
  BY ObjectAssumption, FS_CardinalityType
<1>2. Object # {} => Cardinality(Object) # 0
  BY ObjectAssumption, FS_EmptySet
<1> QED
  BY <1>1, <1>2 DEF Hops

\* A row comes from a link of the object and a walk up from that parent.
LEMMA WalkRowsElements ==
    ASSUME NEW L, NEW y, NEW r
    PROVE  r \in WalkRows(L, y) <=>
              \E l \in L : \E n \in 0..Hops - 1 : \E w \in WalksFrom(L, n, l.parent) :
                 /\ l.child = y
                 /\ r = [desc |-> y, anc |-> w[n], depth |-> n + 1, weight |-> l.weight]
<1>1. r \in WalkRows(L, y) <=> \E l \in L : l.child = y /\ r \in RowsOver(L, l)
  BY DEF WalkRows
<1>2. \A l \in L : r \in RowsOver(L, l) <=>
         \E n \in 0..Hops - 1 : \E w \in WalksFrom(L, n, l.parent) :
            r = [desc |-> l.child, anc |-> w[n], depth |-> n + 1, weight |-> l.weight]
  BY DEF RowsOver
<1> QED
  BY <1>1, <1>2

LEMMA DescendantsElements ==
    ASSUME NEW L, NEW x, NEW n \in 1..Hops, NEW w \in WalksTo(L, n, x)
    PROVE  w[0] \in Descendants(L, x)
  BY DEF Descendants

\* L and M have the same links but for those of x.
SameBut(L, M, x) == \A l : l.child # x => (l \in L <=> l \in M)

\* A walk over a parent of somebody who does not descend from x never sets out
\* from x.
LEMMA WalksAvoid ==
    ASSUME NEW L, NEW M, NEW x \in Object, SameBut(L, M, x),
           NEW y \in Object, y # x, y \notin Descendants(M, x),
           NEW l \in L, l.child = y, l.parent \in Object,
           NEW n \in 0..Hops - 1, NEW w \in WalksFrom(L, n, l.parent),
           NEW i \in 0..n - 1
    PROVE  w[i] # x
<1> USE HopsAreNatural
<1>0. /\ w \in [0..n -> Object] /\ w[0] = l.parent
      /\ \A j \in 1..n : IsLink(L, w[j - 1], w[j])
  BY DEF WalksFrom, IsWalk
<1>1. ASSUME w[i] = x
      PROVE  FALSE
  <2> DEFINE S == {j \in 0..n - 1 : w[j] = x}
  <2>0. S \in SUBSET Nat /\ S # {}
    BY <1>1
  <2>1. PICK m \in S : \A k \in S : m <= k
    BY <2>0, LeastNumber
  <2>2. m \in 0..n - 1 /\ w[m] = x /\ \A k \in 0..n - 1 : k < m => w[k] # x
    BY <2>1
  <2> HIDE DEF S
  <2> DEFINE v == [j \in 0..m + 1 |-> IF j = 0 THEN y ELSE w[j - 1]]
  <2>3. m + 1 \in 1..Hops
    BY <2>2
  <2>4. v \in [0..m + 1 -> Object]
    BY <1>0, <2>2
  <2>5. v[0] = y /\ v[m + 1] = x
    BY <2>2
  <2>6. \A j \in 1..m + 1 : IsLink(M, v[j - 1], v[j])
    <3> SUFFICES ASSUME NEW j \in 1..m + 1
                 PROVE  IsLink(M, v[j - 1], v[j])
      OBVIOUS
    <3>1. CASE j = 1
      <4>1. v[j - 1] = y /\ v[j] = l.parent
        BY <1>0, <2>2, <3>1
      <4>2. l \in M
        BY DEF SameBut
      <4> QED
        BY <4>1, <4>2 DEF IsLink
    <3>2. CASE j # 1
      <4>1. j - 1 \in 1..n /\ j - 2 \in 0..n - 1 /\ j - 2 < m
        BY <2>2, <3>2
      <4>2. v[j - 1] = w[j - 2] /\ v[j] = w[j - 1]
        BY <2>2, <3>2
      <4>3. IsLink(L, w[j - 2], w[j - 1])
        BY <1>0, <4>1
      <4>4. w[j - 2] # x
        BY <2>2, <4>1
      <4>5. IsLink(M, w[j - 2], w[j - 1])
        BY <4>3, <4>4 DEF IsLink, SameBut
      <4> QED
        BY <4>2, <4>5
    <3> QED
      BY <3>1, <3>2
  <2> HIDE DEF v
  <2>7. v \in WalksTo(M, m + 1, x)
    BY <2>4, <2>5, <2>6 DEF WalksTo, IsWalk
  <2>8. y \in Descendants(M, x)
    BY <2>3, <2>5, <2>7, DescendantsElements
  <2> QED
    BY <2>8
<1> QED
  BY <1>1

\* Such a walk is one over the other links, too.
LEMMA WalksKept ==
    ASSUME NEW L, NEW M, NEW x \in Object, SameBut(L, M, x),
           NEW p, NEW n \in 0..Hops - 1, NEW w \in WalksFrom(L, n, p),
           \A i \in 0..n - 1 : w[i] # x
    PROVE  w \in WalksFrom(M, n, p)
<1>1. \A i \in 1..n : i - 1 \in 0..n - 1
  BY HopsAreNatural
<1>2. \A i \in 1..n : IsLink(M, w[i - 1], w[i])
  BY <1>1 DEF WalksFrom, IsWalk, IsLink, SameBut
<1> QED
  BY <1>2 DEF WalksFrom, IsWalk

\* Whoever does not descend from x has the same rows whatever the links of x.
LEMMA RowsUntouched ==
    ASSUME NEW L, NEW M, NEW x \in Object, SameBut(L, M, x),
           \A l \in L \cup M : l.parent \in Object,
           NEW y \in Object, y # x, y \notin Descendants(M, x)
    PROVE  WalkRows(L, y) = WalkRows(M, y)
<1>0. SameBut(M, L, x) /\ SameBut(M, M, x)
  BY DEF SameBut
<1>1. ASSUME NEW r, r \in WalkRows(L, y)
      PROVE  r \in WalkRows(M, y)
  <2>1. PICK l \in L : \E n \in 0..Hops - 1 : \E w \in WalksFrom(L, n, l.parent) :
           /\ l.child = y
           /\ r = [desc |-> y, anc |-> w[n], depth |-> n + 1, weight |-> l.weight]
    BY <1>1, WalkRowsElements
  <2>2. PICK n \in 0..Hops - 1 : \E w \in WalksFrom(L, n, l.parent) :
           r = [desc |-> y, anc |-> w[n], depth |-> n + 1, weight |-> l.weight]
    BY <2>1
  <2>3. PICK w \in WalksFrom(L, n, l.parent) :
           r = [desc |-> y, anc |-> w[n], depth |-> n + 1, weight |-> l.weight]
    BY <2>2
  <2>4. l.child = y /\ l.parent \in Object /\ l \in M
    BY <2>1 DEF SameBut
  <2>5. \A i \in 0..n - 1 : w[i] # x
    BY <2>4, WalksAvoid
  <2>6. w \in WalksFrom(M, n, l.parent)
    BY <2>5, WalksKept
  <2> QED
    BY <2>3, <2>4, <2>6, WalkRowsElements
<1>2. ASSUME NEW r, r \in WalkRows(M, y)
      PROVE  r \in WalkRows(L, y)
  <2>1. PICK l \in M : \E n \in 0..Hops - 1 : \E w \in WalksFrom(M, n, l.parent) :
           /\ l.child = y
           /\ r = [desc |-> y, anc |-> w[n], depth |-> n + 1, weight |-> l.weight]
    BY <1>2, WalkRowsElements
  <2>2. PICK n \in 0..Hops - 1 : \E w \in WalksFrom(M, n, l.parent) :
           r = [desc |-> y, anc |-> w[n], depth |-> n + 1, weight |-> l.weight]
    BY <2>1
  <2>3. PICK w \in WalksFrom(M, n, l.parent) :
           r = [desc |-> y, anc |-> w[n], depth |-> n + 1, weight |-> l.weight]
    BY <2>2
  <2>4. l.child = y /\ l.parent \in Object /\ l \in L
    BY <2>1 DEF SameBut
  <2>5. \A i \in 0..n - 1 : w[i] # x
    BY <1>0, <2>4, WalksAvoid
  <2>6. w \in WalksFrom(L, n, l.parent)
    BY <1>0, <2>5, WalksKept
  <2> QED
    BY <2>3, <2>4, <2>6, WalkRowsElements
<1> QED
  BY <1>1, <1>2

\* What the rows of y look like.
LEMMA RowsOfY ==
    ASSUME NEW L, NEW y, NEW r \in WalkRows(L, y),
           \A l \in L : l.parent \in Object /\ l.weight \in Nat
    PROVE  /\ r.desc = y /\ r.anc \in Object /\ r.depth \in Nat /\ r.weight \in Nat
           /\ r = [desc |-> r.desc, anc |-> r.anc, depth |-> r.depth, weight |-> r.weight]
           /\ \E l \in L : l.child = y
<1>1. PICK l \in L : \E n \in 0..Hops - 1 : \E w \in WalksFrom(L, n, l.parent) :
         /\ l.child = y
         /\ r = [desc |-> y, anc |-> w[n], depth |-> n + 1, weight |-> l.weight]
  BY WalkRowsElements
<1>2. PICK n \in 0..Hops - 1 : \E w \in WalksFrom(L, n, l.parent) :
         r = [desc |-> y, anc |-> w[n], depth |-> n + 1, weight |-> l.weight]
  BY <1>1
<1>3. PICK w \in WalksFrom(L, n, l.parent) :
         r = [desc |-> y, anc |-> w[n], depth |-> n + 1, weight |-> l.weight]
  BY <1>2
<1>4. n \in Nat /\ w[n] \in Object
  BY HopsAreNatural DEF WalksFrom
<1> QED
  BY <1>1, <1>3, <1>4

LEMMA FreshRowsAreWalkRows ==
    ASSUME NEW L, NEW V, NEW y
    PROVE  FreshRows(L, V, y) \subseteq WalkRows(L, y)
  BY DEF FreshRows

LEMMA DescendantsAreObjects ==
    ASSUME NEW L, NEW x
    PROVE  Descendants(L, x) \subseteq Object
  BY HopsAreNatural DEF Descendants, WalksTo

\* What the links refer to.
Linked(L) == \A l \in L : l.child \in Object /\ l.parent \in Object /\ l.weight \in Nat

\* Objects that are not there have no rows.
LEMMA RowsOfExisting ==
    ASSUME NEW L, NEW V, NEW E \in SUBSET Object, Linked(L), \A l \in L : l.child \in E
    PROVE  /\ UNION {WalkRows(L, y) : y \in E} = UNION {WalkRows(L, y) : y \in Object}
           /\ UNION {FreshRows(L, V, y) : y \in E} = UNION {FreshRows(L, V, y) : y \in Object}
<1>1. \A y \in Object \ E : WalkRows(L, y) = {}
  BY RowsOfY DEF Linked
<1>2. \A y \in Object \ E : FreshRows(L, V, y) = {}
  BY <1>1, FreshRowsAreWalkRows
<1> QED
  BY <1>1, <1>2

\* The rows of the objects a rebuild of x passes over stay right.
LEMMA FreshRowsUntouched ==
    ASSUME NEW L, NEW V, NEW x \in Object, SameBut(links, L, x),
           Linked(links), Linked(L),
           NEW y \in Object, y \notin {x} \cup Descendants(L, x)
    PROVE  /\ WalkRows(L, y) = WalkRows(links, y)
           /\ FreshRows(L, V, y) = FreshRows(links, V, y)
<1>1. WalkRows(links, y) = WalkRows(L, y)
  BY RowsUntouched DEF Linked
<1> QED
  BY <1>1 DEF FreshRows

\* A rebuild of x after its links have changed makes the whole cache right.
LEMMA RebuiltIsRight ==
    ASSUME NEW L, NEW V, NEW x \in Object, SameBut(links, L, x),
           Linked(links), Linked(L),
           cache = UNION {FreshRows(links, V, y) : y \in Object}
    PROVE  Rebuilt(L, V, x) = UNION {FreshRows(L, V, y) : y \in Object}
<1> DEFINE affected == {x} \cup Descendants(L, x)
<1>0. affected \subseteq Object
  BY DescendantsAreObjects
<1>1. Rebuilt(L, V, x) = {r \in cache : r.desc \notin affected}
                            \cup UNION {FreshRows(L, V, y) : y \in affected}
  BY DEF Rebuilt
<1>2. \A y \in Object \ affected : FreshRows(L, V, y) = FreshRows(links, V, y)
  BY FreshRowsUntouched
<1>3. \A y \in Object : \A r \in FreshRows(links, V, y) : r.desc = y
  BY RowsOfY, FreshRowsAreWalkRows DEF Linked
<1> HIDE DEF affected
<1> QED
  BY <1>0, <1>1, <1>2, <1>3

\* ... and one on a cache that only has rows that can be walked adds no other.
LEMMA RebuiltIsWalked ==
    ASSUME NEW L, NEW V, NEW x \in Object, SameBut(links, L, x),
           Linked(links), Linked(L),
           cache \subseteq UNION {WalkRows(links, y) : y \in Object}
    PROVE  Rebuilt(L, V, x) \subseteq UNION {WalkRows(L, y) : y \in Object}
<1> DEFINE affected == {x} \cup Descendants(L, x)
<1>0. affected \subseteq Object
  BY DescendantsAreObjects
<1>1. Rebuilt(L, V, x) = {r \in cache : r.desc \notin affected}
                            \cup UNION {FreshRows(L, V, y) : y \in affected}
  BY DEF Rebuilt
<1>2. \A y \in Object \ affected : WalkRows(L, y) = WalkRows(links, y)
  BY FreshRowsUntouched
<1>3. \A y \in Object : \A r \in WalkRows(links, y) : r.desc = y
  BY RowsOfY DEF Linked
<1>4. \A y \in Object : FreshRows(L, V, y) \subseteq WalkRows(L, y)
  BY FreshRowsAreWalkRows
<1> HIDE DEF affected
<1> QED
  BY <1>0, <1>1, <1>2, <1>3, <1>4

-----------------------------------------------------------------------------
\* The setup of a behaviour never changes.

LEMMA SetupStays == [Next]_vars => setup' = setup /\ Ops' = Ops
  BY DEF Next, vars, Ops

-----------------------------------------------------------------------------
\* While nothing is hard-deleted every action keeps the links between objects.

Undeleted == "delete" \notin Ops

LinksOK ==
    /\ exists \subseteq Object
    /\ links \subseteq Link
    /\ IsFiniteSet(links)

LEMMA LinksOKAreLinked == LinksOK => Linked(links)
  BY DEF LinksOK, Link, Linked

LEMMA NewLinksOK ==
    ASSUME LinksOK, NEW c \in exists, NEW P \in SUBSET exists
    PROVE  /\ links \cup NewLinks(c, P) \subseteq Link
           /\ IsFiniteSet(links \cup NewLinks(c, P))
           /\ SameBut(links, links \cup NewLinks(c, P), c)
<1> DEFINE before == Cardinality({l \in links : l.child = c})
           weight(p) == before + Cardinality({q \in P : q < p})
           new(p) == [child |-> c, parent |-> p, weight |-> weight(p)]
<1>1. before \in Nat
  <2>1. {l \in links : l.child = c} \subseteq links
    OBVIOUS
  <2> QED
    BY <2>1, FS_Subset, FS_CardinalityType DEF LinksOK
<1>2. IsFiniteSet(P)
  BY ObjectAssumption, FS_Subset DEF LinksOK
<1>3. \A p \in P : Cardinality({q \in P : q < p}) \in Nat
  <2> TAKE p \in P
  <2>1. {q \in P : q < p} \subseteq P
    OBVIOUS
  <2> QED
    BY <1>2, <2>1, FS_Subset, FS_CardinalityType
<1>4. \A p \in P : weight(p) \in Nat
  BY <1>1, <1>3
<1>5. NewLinks(c, P) = {new(p) : p \in P}
  BY DEF NewLinks
<1> HIDE DEF weight
<1>6. NewLinks(c, P) \subseteq Link /\ \A l \in NewLinks(c, P) : l.child = c
  BY <1>4, <1>5 DEF Link, LinksOK
<1>7. IsFiniteSet({new(p) : p \in P})
  <2> DEFINE f == [p \in P |-> new(p)]
  <2>1. f \in Surjection(P, {new(p) : p \in P})
    BY DEF Surjection
  <2> QED
    BY <1>2, <2>1, FS_Surjection
<1>8. IsFiniteSet(links \cup NewLinks(c, P))
  BY <1>5, <1>7, FS_Union DEF LinksOK
<1> QED
  BY <1>6, <1>8 DEF LinksOK, SameBut
-----------------------------------------------------------------------------
\* One step per action.

LEMMA LinksOKInductive ==
    ASSUME Undeleted, LinksOK, [Next]_vars
    PROVE  LinksOK' /\ exists' = exists
<1>0. ASSUME NEW L, L \subseteq links
      PROVE  L \subseteq Link /\ IsFiniteSet(L)
  BY <1>0, FS_Subset DEF LinksOK
<1>1. ASSUME NEW c \in Visible, NEW p \in Visible, AddParent(c, p)
      PROVE  LinksOK' /\ exists' = exists
  <2>1. c \in exists /\ {p} \in SUBSET exists
    BY DEF Visible, LinksOK
  <2>2. links' = links \cup NewLinks(c, {p}) /\ exists' = exists
    BY <1>1 DEF AddParent, AddParents
  <2> QED
    BY <2>1, <2>2, NewLinksOK DEF LinksOK, Link
<1>2. ASSUME NEW c \in Visible, NEW p \in Visible, NEW q \in Visible, AddTwoParents(c, p, q)
      PROVE  LinksOK' /\ exists' = exists
  <2>1. c \in exists /\ {p, q} \in SUBSET exists
    BY DEF Visible, LinksOK
  <2>2. links' = links \cup NewLinks(c, {p, q}) /\ exists' = exists
    BY <1>2 DEF AddTwoParents, AddParents
  <2> QED
    BY <2>1, <2>2, NewLinksOK DEF LinksOK, Link
<1>3. ASSUME NEW c \in Visible, NEW p \in Visible, RemoveParent(c, p)
      PROVE  LinksOK' /\ exists' = exists
  <2>1. links' \subseteq links /\ exists' = exists
    BY <1>3 DEF RemoveParent
  <2> QED
    BY <1>0, <2>1 DEF LinksOK, Link
<1>4. ASSUME UNCHANGED <<links, exists>>
      PROVE  LinksOK' /\ exists' = exists
  BY <1>4 DEF LinksOK, Link
<1>5. ASSUME NEW x, SoftRecycle(x) \/ Hold(x) \/ Restore(x) \/ SaveHeld(x) \/ RebuildAll
      PROVE  UNCHANGED <<links, exists>>
  BY <1>5 DEF SoftRecycle, Hold, Restore, SaveHeld, RebuildAll
<1>6. ASSUME NEW x, Delete(x)
      PROVE  FALSE
  BY <1>6 DEF Delete, Undeleted
<1>7. ASSUME UNCHANGED vars
      PROVE  UNCHANGED <<links, exists>>
  BY <1>7 DEF vars
<1> QED
  BY <1>1, <1>2, <1>3, <1>4, <1>5, <1>6, <1>7 DEF Next

\* What parents.add() and parents.remove() have in common.
TopologyChange(x) ==
    /\ SameBut(links, links', x)
    /\ cache' = Rebuilt(links', Visible, x)
    /\ UNCHANGED <<exists, recycled>>

LEMMA AddsAndRemovals ==
    ASSUME LinksOK, NEW c \in Visible, NEW p \in Visible, NEW q \in Visible,
           AddParent(c, p) \/ AddTwoParents(c, p, q) \/ RemoveParent(c, p)
    PROVE  c \in Object /\ TopologyChange(c)
<1>1. c \in Object /\ c \in exists /\ {p} \in SUBSET exists /\ {p, q} \in SUBSET exists
  BY DEF Visible, LinksOK
<1>2. CASE AddParent(c, p)
  <2>1. SameBut(links, links', c)
    BY <1>1, <1>2, NewLinksOK DEF AddParent, AddParents
  <2> QED
    BY <1>1, <1>2, <2>1 DEF AddParent, AddParents, TopologyChange
<1>3. CASE AddTwoParents(c, p, q)
  <2>1. SameBut(links, links', c)
    BY <1>1, <1>3, NewLinksOK DEF AddTwoParents, AddParents
  <2> QED
    BY <1>1, <1>3, <2>1 DEF AddTwoParents, AddParents, TopologyChange
<1>4. CASE RemoveParent(c, p)
  BY <1>1, <1>4 DEF RemoveParent, TopologyChange, SameBut
<1> QED
  BY <1>2, <1>3, <1>4

\* What the other actions do to the cache.
LEMMA OtherActions ==
    ASSUME Undeleted, [Next]_vars
    PROVE  \/ \E c, p, q \in Visible :
                 AddParent(c, p) \/ AddTwoParents(c, p, q) \/ RemoveParent(c, p)
           \/ RebuildAll
           \/ /\ UNCHANGED <<links, cache, exists>>
              /\ "recycle" \notin Ops => recycled' \subseteq recycled
<1>1. ASSUME NEW x, SoftRecycle(x) \/ Hold(x) \/ Restore(x) \/ SaveHeld(x)
      PROVE  /\ UNCHANGED <<links, cache, exists>>
             /\ "recycle" \notin Ops => recycled' \subseteq recycled
  BY <1>1 DEF SoftRecycle, Hold, Restore, SaveHeld
<1>2. ASSUME NEW x, Delete(x)
      PROVE  FALSE
  BY <1>2 DEF Delete, Undeleted
<1>3. ASSUME UNCHANGED vars
      PROVE  UNCHANGED <<links, cache, exists>> /\ recycled' \subseteq recycled
  BY <1>3 DEF vars
<1> QED
  BY <1>1, <1>2, <1>3 DEF Next

-----------------------------------------------------------------------------

\* Links join objects that exist, with weights that are numbers (object.py,
\* relationship_changed), as long as nothing is hard-deleted.
THEOREM LinksStayTyped == Spec => [](Undeleted => LinksOK)
<1>1. Init => LinksOK
  BY FS_EmptySet, SetupAssumption DEF Init, LinksOK, Objects
<1>2. (Undeleted => LinksOK) /\ [Next]_vars => (Undeleted => LinksOK)'
  BY LinksOKInductive, SetupStays DEF Undeleted
<1> QED
  BY <1>1, <1>2, PTL DEF Spec

-----------------------------------------------------------------------------
\* Types, with hard deletes.

Typed == TypeOK /\ IsFiniteSet(links)

LEMMA TypedLinks == Typed => LinksOK /\ Linked(links) /\ exists \subseteq Object
<1> SUFFICES ASSUME Typed PROVE LinksOK /\ Linked(links) /\ exists \subseteq Object
  OBVIOUS
<1>1. exists \subseteq Object
  BY SetupAssumption DEF Typed, TypeOK, Objects
<1> QED
  BY <1>1, LinksOKAreLinked DEF LinksOK, Typed, TypeOK

\* What a rebuild puts into the table names only visible ancestors, and objects
\* that have a parent.
LEMMA FreshRowsAreRows ==
    ASSUME NEW L, L \subseteq Link, exists \subseteq Object,
           NEW V \in SUBSET exists, NEW y
    PROVE  FreshRows(L, V, y) \subseteq Row
<1> SUFFICES ASSUME NEW r \in FreshRows(L, V, y) PROVE r \in Row
  OBVIOUS
<1>1. r \in WalkRows(L, y) /\ r.anc \in exists
  BY DEF FreshRows
<1>2. \A l \in L : l.child \in exists /\ l.parent \in Object /\ l.weight \in Nat
  BY DEF Link
<1>3. /\ r.desc \in exists /\ r.depth \in Nat /\ r.weight \in Nat
      /\ r = [desc |-> r.desc, anc |-> r.anc, depth |-> r.depth, weight |-> r.weight]
  BY <1>1, <1>2, RowsOfY
<1> QED
  BY <1>1, <1>3 DEF Row

LEMMA TypedStep == Typed /\ [Next]_vars => Typed'
<1> SUFFICES ASSUME Typed, [Next]_vars PROVE Typed'
  OBVIOUS
<1>0. /\ setup' \in Setups /\ Objects' = Objects /\ LinksOK /\ exists \subseteq Object
      /\ Visible \in SUBSET exists
  BY SetupStays, TypedLinks DEF Typed, TypeOK, Objects, Visible
<1>1. ASSUME NEW L, L \subseteq Link, NEW x \in exists
      PROVE  Rebuilt(L, Visible, x) \subseteq Row
  BY <1>0, <1>1, FreshRowsAreRows DEF Rebuilt, Typed, TypeOK
<1>2. ASSUME NEW c \in Visible, NEW P \in SUBSET Visible, AddParents(c, P)
      PROVE  Typed'
  <2>1. c \in exists /\ P \in SUBSET exists
    BY <1>0
  <2>2. links' \subseteq Link /\ IsFiniteSet(links') /\ exists' = exists
    BY <1>0, <1>2, <2>1, NewLinksOK DEF AddParents
  <2>3. links' \subseteq Link' /\ cache' \subseteq Row'
    BY <1>1, <1>2, <2>1, <2>2 DEF AddParents, Link, Row
  <2>4. /\ recycled' \subseteq exists' /\ held' \subseteq exists'
        /\ exists' \subseteq Objects'
    BY <1>0, <1>2, <2>2 DEF AddParents, Typed, TypeOK
  <2>5. initialized' \subseteq exists' /\ ran' \in [Object -> Nat]
    <3>1. Initialize(c) /\ c \in Object /\ initialized \subseteq exists /\ ran \in [Object -> Nat]
      BY <1>0, <1>2, <2>1 DEF AddParents, Typed, TypeOK
    <3>2. ran' = [ran EXCEPT ![c] = @ + 1] \/ ran' = ran
      BY <3>1 DEF Initialize
    <3>3. initialized' = initialized \cup {c}
      BY <3>1 DEF Initialize
    <3> QED
      BY <2>1, <2>2, <3>1, <3>2, <3>3
  <2> QED
    BY <1>0, <2>2, <2>3, <2>4, <2>5 DEF Typed, TypeOK
<1>3. ASSUME NEW c \in Visible, NEW p \in Visible, AddParent(c, p) \/ RemoveParent(c, p)
      PROVE  Typed'
  <2>1. CASE AddParent(c, p)
    BY <1>2, <2>1 DEF AddParent
  <2>2. CASE RemoveParent(c, p)
    <3>1. links' \subseteq links /\ exists' = exists /\ c \in exists
      BY <1>0, <2>2 DEF RemoveParent
    <3>2. links' \subseteq Link' /\ IsFiniteSet(links')
      BY <3>1, FS_Subset DEF Typed, TypeOK, Link
    <3>3. cache' \subseteq Row'
      BY <1>1, <2>2, <3>1 DEF RemoveParent, Row, Typed, TypeOK
    <3> QED
      BY <1>0, <2>2, <3>1, <3>2, <3>3 DEF RemoveParent, Typed, TypeOK
  <2> QED
    BY <1>3, <2>1, <2>2
<1>4. ASSUME NEW c \in Visible, NEW p \in Visible, NEW q \in Visible, AddTwoParents(c, p, q)
      PROVE  Typed'
  BY <1>2, <1>4 DEF AddTwoParents
<1>5. ASSUME UNCHANGED <<links, exists, ran>>, cache' \subseteq Row,
             recycled' \subseteq exists, initialized' \subseteq exists, held' \subseteq exists
      PROVE  Typed'
  BY <1>0, <1>5 DEF Typed, TypeOK, Link, Row
<1>6. ASSUME NEW x \in exists, SoftRecycle(x) \/ Restore(x) \/ Hold(x) \/ SaveHeld(x)
      PROVE  Typed'
  BY <1>5, <1>6 DEF SoftRecycle, Restore, Hold, SaveHeld, Typed, TypeOK
<1>7. ASSUME RebuildAll
      PROVE  Typed'
  <2>1. cache' \subseteq Row
    BY <1>0, <1>7, FreshRowsAreRows DEF RebuildAll, Typed, TypeOK
  <2> QED
    BY <1>5, <1>7, <2>1 DEF RebuildAll, Typed, TypeOK
<1>8. ASSUME NEW x \in exists, Delete(x)
      PROVE  Typed'
  <2>1. /\ links' = {l \in links : x \notin {l.child, l.parent}}
        /\ cache' = {r \in cache : x \notin {r.desc, r.anc}}
        /\ exists' = exists \ {x}
    BY <1>8 DEF Delete
  <2>2. links' \subseteq Link' /\ cache' \subseteq Row'
    BY <2>1 DEF Typed, TypeOK, Link, Row
  <2>3. IsFiniteSet(links')
    BY <2>1, FS_Subset DEF Typed
  <2> QED
    BY <1>0, <1>8, <2>1, <2>2, <2>3 DEF Delete, Typed, TypeOK
<1>9. ASSUME UNCHANGED vars
      PROVE  Typed'
  BY <1>5, <1>9 DEF vars, Typed, TypeOK
<1> QED
  BY <1>0, <1>3, <1>4, <1>6, <1>7, <1>8, <1>9 DEF Next

\* Link and cache rows never dangle, hard deletes included (object.py,
\* Relationship and AncestorCache with on_delete=CASCADE).
THEOREM TypeCorrect == Spec => []TypeOK
<1>1. Init => Typed
  BY FS_EmptySet DEF Init, Typed, TypeOK
<1>2. Typed /\ [Next]_vars => Typed'
  BY TypedStep
<1>3. Typed => TypeOK
  BY DEF Typed
<1> QED
  BY <1>1, <1>2, <1>3, PTL DEF Spec

-----------------------------------------------------------------------------
\* No row is made up, in terms of all objects.
Walked(rows, L) == rows \subseteq UNION {WalkRows(L, y) : y \in Object}

LEMMA WalkedStep ==
    ASSUME Undeleted, LinksOK, Walked(cache, links), [Next]_vars
    PROVE  LinksOK' /\ Walked(cache, links)'
<1>0. LinksOK'
  BY LinksOKInductive
<1>1. Linked(links) /\ Linked(links')
  BY <1>0, LinksOKAreLinked DEF LinksOK, Link, Linked
<1>2. ASSUME NEW c \in Visible, NEW p \in Visible, NEW q \in Visible,
             AddParent(c, p) \/ AddTwoParents(c, p, q) \/ RemoveParent(c, p)
      PROVE  Walked(cache, links)'
  <2>1. c \in Object /\ TopologyChange(c)
    BY <1>2, AddsAndRemovals
  <2> QED
    BY <1>1, <2>1, RebuiltIsWalked DEF TopologyChange, Walked
<1>3. ASSUME RebuildAll
      PROVE  Walked(cache, links)'
  <2>1. \A y \in Visible : y \in Object /\ FreshRows(links, Visible, y) \subseteq WalkRows(links, y)
    BY FreshRowsAreWalkRows DEF Visible, LinksOK
  <2>2. /\ links' = links
        /\ cache' = UNION {FreshRows(links, Visible, y) : y \in Visible}
    BY <1>3 DEF RebuildAll
  <2>3. cache' \subseteq UNION {WalkRows(links, y) : y \in Object}
    BY <2>1, <2>2
  <2> QED
    BY <2>2, <2>3 DEF Walked
<1>4. ASSUME UNCHANGED <<links, cache>>
      PROVE  Walked(cache, links)'
  BY <1>4 DEF Walked
<1> QED
  BY <1>0, <1>2, <1>3, <1>4, OtherActions

\* No row of the cache is made up, whatever is recycled, restored and rebuilt in
\* whatever order (object.py, _rebuild_ancestor_cache_for).
THEOREM CacheIsWalked == Spec => []NoPhantomAncestors
<1> DEFINE Inv == Undeleted => LinksOK /\ Walked(cache, links)
<1>1. Init => Inv
  BY FS_EmptySet, SetupAssumption DEF Init, LinksOK, Objects, Walked
<1>2. Inv /\ [Next]_vars => Inv'
  BY WalkedStep, SetupStays DEF Undeleted
<1>3. Inv => NoPhantomAncestors
  <2> SUFFICES ASSUME Inv, Undeleted
               PROVE  cache \subseteq UNION {WalkRows(links, y) : y \in exists}
    BY DEF NoPhantomAncestors, Undeleted
  <2>1. Linked(links) /\ exists \in SUBSET Object /\ \A l \in links : l.child \in exists
    BY LinksOKAreLinked DEF LinksOK, Link
  <2>2. UNION {WalkRows(links, y) : y \in exists} = UNION {WalkRows(links, y) : y \in Object}
    BY <2>1, RowsOfExisting
  <2> QED
    BY <2>2 DEF Walked
<1> QED
  BY <1>1, <1>2, <1>3, PTL DEF Spec

\* The rows are what the links say of every object, none of them recycled.
Right == recycled = {} /\ cache = UNION {FreshRows(links, exists, y) : y \in Object}

LEMMA RightStep ==
    ASSUME Undeleted, "recycle" \notin Ops, LinksOK, Right, [Next]_vars
    PROVE  LinksOK' /\ Right'
<1>0. LinksOK' /\ exists' = exists
  BY LinksOKInductive
<1>1. Linked(links) /\ Linked(links')
  BY <1>0, LinksOKAreLinked DEF LinksOK, Link, Linked
<1>2. Visible = exists
  BY DEF Visible, Right
<1>3. ASSUME NEW c \in Visible, NEW p \in Visible, NEW q \in Visible,
             AddParent(c, p) \/ AddTwoParents(c, p, q) \/ RemoveParent(c, p)
      PROVE  Right'
  <2>1. c \in Object /\ TopologyChange(c)
    BY <1>3, AddsAndRemovals
  <2>2. SameBut(links, links', c) /\ cache' = Rebuilt(links', exists, c) /\ recycled' = recycled
    BY <1>2, <2>1 DEF TopologyChange
  <2>3. cache' = UNION {FreshRows(links', exists, y) : y \in Object}
    BY <1>1, <2>1, <2>2, RebuiltIsRight DEF Right
  <2> QED
    BY <1>0, <2>2, <2>3 DEF Right
<1>4. ASSUME RebuildAll
      PROVE  Right'
  <2>1. /\ links' = links /\ recycled' = recycled
        /\ cache' = UNION {FreshRows(links, exists, y) : y \in exists}
    BY <1>2, <1>4 DEF RebuildAll
  <2>2. exists \in SUBSET Object /\ \A l \in links : l.child \in exists
    BY DEF LinksOK, Link
  <2>3. cache' = UNION {FreshRows(links, exists, y) : y \in Object}
    BY <1>1, <2>1, <2>2, RowsOfExisting
  <2> QED
    BY <1>0, <2>1, <2>3 DEF Right
<1>5. ASSUME UNCHANGED <<links, cache, exists>>, recycled' \subseteq recycled
      PROVE  Right'
  BY <1>5 DEF Right
<1> QED
  BY <1>0, <1>3, <1>4, <1>5, OtherActions

\* When objects are neither recycled nor deleted, the cache holds exactly what
\* the parent links say (docs/source/reference/caching.md, Maintenance): the
\* signal handler that rebuilds x and its descendants misses nobody.
THEOREM CacheIsRight == Spec => []CacheMatchesLinks
<1> DEFINE Inv == Undeleted /\ "recycle" \notin Ops => LinksOK /\ Right
<1>1. Init => Inv
  <2>1. \A y : WalkRows({}, y) = {}
    BY DEF WalkRows
  <2>2. \A V, y : FreshRows({}, V, y) = {}
    BY <2>1, FreshRowsAreWalkRows
  <2>3. UNION {FreshRows({}, exists, y) : y \in Object} = {}
    BY <2>2
  <2>4. Init => LinksOK
    BY FS_EmptySet, SetupAssumption DEF Init, LinksOK, Objects
  <2> QED
    BY <2>3, <2>4 DEF Init, Right
<1>2. Inv /\ [Next]_vars => Inv'
  BY RightStep, SetupStays DEF Undeleted
<1>3. Inv => CacheMatchesLinks
  <2> SUFFICES ASSUME LinksOK, Right
               PROVE  CacheIsFresh
    BY DEF CacheMatchesLinks, Undeleted
  <2>1. Linked(links) /\ exists \in SUBSET Object /\ \A l \in links : l.child \in exists
    BY LinksOKAreLinked DEF LinksOK, Link
  <2>2. Visible = exists
    BY DEF Right, Visible
  <2>3. cache = UNION {FreshRows(links, exists, y) : y \in exists}
    BY <2>1, RowsOfExisting DEF Right
  <2> QED
    BY <2>2, <2>3 DEF CacheIsFresh
<1> QED
  BY <1>1, <1>2, <1>3, PTL DEF Spec

-----------------------------------------------------------------------------
\* An object whose flag is not set has not been initialized.

Pending ==
    /\ exists \subseteq Object /\ held = {}
    /\ ran \in [Object -> Nat]
    /\ \A x \in Object : ran[x] <= 1 /\ (x \notin initialized => ran[x] = 0)

LEMMA PendingStep ==
    ASSUME {"stale_save", "delete"} \cap Ops = {}, Pending, [Next]_vars
    PROVE  Pending'
<1>1. ASSUME NEW c \in Object, Initialize(c), UNCHANGED <<exists, held>>
      PROVE  Pending'
  <2>1. CASE c \notin initialized
    BY <1>1, <2>1 DEF Initialize, Pending
  <2>2. CASE c \in initialized
    BY <1>1, <2>2 DEF Initialize, Pending
  <2> QED
    BY <2>1, <2>2
<1>2. ASSUME NEW c \in Visible, NEW p \in Visible, NEW q \in Visible,
             AddParent(c, p) \/ AddTwoParents(c, p, q)
      PROVE  Pending'
  <2>1. Initialize(c) /\ UNCHANGED <<exists, held>>
    BY <1>2 DEF AddParent, AddTwoParents, AddParents
  <2>2. c \in Object
    BY DEF Visible, Pending
  <2> QED
    BY <1>1, <2>1, <2>2
<1>3. ASSUME UNCHANGED <<exists, held, initialized, ran>>
      PROVE  Pending'
  BY <1>3 DEF Pending
<1>4. ASSUME NEW c, NEW p, RemoveParent(c, p) PROVE Pending'
  BY <1>3, <1>4 DEF RemoveParent
<1>5. ASSUME NEW x, SoftRecycle(x) \/ Restore(x) \/ RebuildAll PROVE Pending'
  BY <1>3, <1>5 DEF SoftRecycle, Restore, RebuildAll
<1>6. \A x : ~ Hold(x) /\ ~ SaveHeld(x) /\ ~ Delete(x)
  BY DEF Hold, SaveHeld, Delete, Pending
<1>7. ASSUME UNCHANGED vars PROVE Pending'
  BY <1>3, <1>7 DEF vars
<1> QED
  BY <1>2, <1>4, <1>5, <1>6, <1>7 DEF Next

\* The `initialize` verb runs at most once for an object, whatever parents come
\* and go, as long as nobody saves an instance from before the first parent
\* (relationship_changed, comment on Object._initialized).
THEOREM InitializedOnce == Spec => []InitializeFiresOnce
<1> DEFINE Inv == {"stale_save", "delete"} \cap Ops = {} => Pending
<1>1. Init => Inv
  BY SetupAssumption DEF Init, Pending, Objects
<1>2. Inv /\ [Next]_vars => Inv'
  BY PendingStep, SetupStays
<1>3. Inv => InitializeFiresOnce
  BY DEF Pending, InitializeFiresOnce
<1> QED
  BY <1>1, <1>2, <1>3, PTL DEF Spec
=============================================================================
