---------------------------- MODULE Inheritance ----------------------------
(***************************************************************************)
(* Multiple inheritance of objects (moo/core/models/object.py): the parent *)
(* links with their weights, the AncestorCache table that verb and         *)
(* property lookups join with, and the signal handler that is to keep the  *)
(* two consistent.  Each action is one transaction, run alone.             *)
(***************************************************************************)
EXTENDS Naturals, FiniteSets

CONSTANTS Object,       \* primary keys of objects
          Setups        \* the setups that are looked at

AllOps == {"add", "add_many", "remove", "rebuild", "recycle", "restore", "delete", "stale_save"}

ASSUME ObjectAssumption == Object \subseteq Nat /\ IsFiniteSet(Object)
ASSUME SetupAssumption ==
          \A s \in Setups : /\ s.objects \subseteq Object
                           /\ s.initializers \subseteq s.objects
                           /\ s.maxLinks \in Nat
                           /\ s.ops \subseteq AllOps

VARIABLES setup,        \* the one of this behaviour; it never changes
          links,        \* Relationship rows
          cache,        \* AncestorCache rows
          exists,       \* objects not deleted
          recycled,     \* objects with the soft-recycle flag
          initialized,  \* objects with the _initialized flag
          held,         \* objects of which an instance, loaded when not
                        \* initialized, is still around unsaved
          ran           \* ran[x]: how often `initialize` ran for x

vars == <<setup, links, cache, exists, recycled, initialized, held, ran>>

\* The objects there are to begin with, those that define an `initialize` verb,
\* what is done to them, and a bound: no parent is added beyond so many links.
Objects == setup.objects

Initializer == setup.initializers

Ops == setup.ops

MaxLinks == setup.maxLinks

Link == [child : exists, parent : exists, weight : Nat]

Row == [desc : exists, anc : exists, depth : Nat, weight : Nat]

\* What the site-scoped default manager returns.
Visible == exists \ recycled

-----------------------------------------------------------------------------
\* Walks up the parent links.  Without loops none is longer than Hops.

Hops == Cardinality(Object) - 1

IsLink(L, c, p) == \E l \in L : l.child = c /\ l.parent = p

IsWalk(L, n, w) == \A i \in 1..n : IsLink(L, w[i - 1], w[i])

WalksFrom(L, n, y) == {w \in [0..n -> Object] : w[0] = y /\ IsWalk(L, n, w)}

WalksTo(L, n, x) == {w \in [0..n -> Object] : w[n] = x /\ IsWalk(L, n, w)}

\* _collect_descendants_pks
Descendants(L, x) == UNION {{w[0] : w \in WalksTo(L, n, x)} : n \in 1..Hops}

\* The sets of objects that each have a parent inside the set: above them the
\* recursive query never ends.
Loops(L) ==
    {C \in SUBSET Object : C # {} /\ \A x \in C : \E y \in C : IsLink(L, x, y)}

\* _make_ancestors_cte: it starts with the parent links of y and joins the links
\* of the parents again and again, one row for each walk; the weight stays that
\* of the link it started with.
RowsOver(L, l) ==
    UNION {{[desc |-> l.child, anc |-> w[n], depth |-> n + 1, weight |-> l.weight] :
               w \in WalksFrom(L, n, l.parent)} : n \in 0..Hops - 1}

WalkRows(L, y) == UNION {RowsOver(L, l) : l \in {k \in L : k.child = y}}

Better(r, q) == r.depth < q.depth \/ (r.depth = q.depth /\ r.weight > q.weight)

\* Mutant of FreshRows: the rows are kept in the order the query finds them by
\* weight, so a long walk over a heavy link hides a direct parent.
FreshRowsByWeight(L, visible, y) ==
    LET rows == WalkRows(L, y)
    IN  {r \in rows : /\ r.anc \in visible
                     /\ \A q \in rows : q.anc = r.anc => r.weight >= q.weight}

\* The rows kept for y: of each ancestor the join with Object finds, the first
\* in the order of depth, then descending weight.
FreshRows(L, visible, y) ==
    LET rows == WalkRows(L, y)
    IN  {r \in rows : /\ r.anc \in visible
                     /\ \A q \in rows : q.anc = r.anc => ~ Better(q, r)}

\* Mutants of Rebuilt: the descendants are forgotten, or all but the nearest.
RebuiltAlone(L, visible, x) ==
    {r \in cache : r.desc # x} \cup FreshRows(L, visible, x)

RebuiltChildren(L, visible, x) ==
    LET affected == {x} \cup {y \in Object : IsLink(L, y, x)}
    IN  {r \in cache : r.desc \notin affected}
           \cup UNION {FreshRows(L, visible, y) : y \in affected}

\* _rebuild_ancestor_cache_for: x and its descendants, nobody else.
Rebuilt(L, visible, x) ==
    LET affected == {x} \cup Descendants(L, x)
    IN  {r \in cache : r.desc \notin affected}
           \cup UNION {FreshRows(L, visible, y) : y \in affected}

-----------------------------------------------------------------------------
\* Lookups join with the cache: the object's own verb, else the verbs of the
\* first ancestors in the order of depth, then descending weight.

Lookup(rows, x, definers) ==
    LET found == {r \in rows : r.desc = x /\ r.anc \in definers}
    IN  IF x \in definers THEN {x}
        ELSE {r.anc : r \in {q \in found : \A s \in found : ~ Better(s, q)}}

-----------------------------------------------------------------------------
\* relationship_changed

\* Mutant of NewLinks: every link keeps the column's default weight.
NewLinksUnweighted(c, P) == {[child |-> c, parent |-> p, weight |-> 0] : p \in P}

\* post_add: weights count up from the number of the other parents, in the order
\* of the primary keys.
NewLinks(c, P) ==
    LET before == Cardinality({l \in links : l.child = c})
    IN  {[child |-> c, parent |-> p,
          weight |-> before + Cardinality({q \in P : q < p})] : p \in P}

\* Mutant of Initialize: the flag is not set.
InitializeAgain(c) ==
    LET found == Lookup(cache', c, Initializer)
    IN  /\ c \notin initialized => Cardinality(found) <= 1
        /\ ran' = IF c \notin initialized /\ found # {} THEN [ran EXCEPT ![c] = @ + 1] ELSE ran
        /\ UNCHANGED initialized

\* The verb runs at the first parents.add(), if it is found then; an ambiguous
\* one raises, and the whole add is rolled back.
Initialize(c) ==
    LET found == Lookup(cache', c, Initializer)
    IN  /\ c \notin initialized => Cardinality(found) <= 1
        /\ ran' = IF c \notin initialized /\ found # {} THEN [ran EXCEPT ![c] = @ + 1] ELSE ran
        /\ initialized' = initialized \cup {c}

\* parents.add(): the link is there before the cache is rebuilt.  With a cycle
\* the recursive query does not end: the time limit undoes the transaction.
AddParents(c, P) ==
    /\ P # {}
    /\ \A p \in P : ~ IsLink(links, c, p)
    /\ links' = links \cup NewLinks(c, P)
    /\ Cardinality(links') <= MaxLinks
    /\ Loops(links') = {}
    /\ cache' = Rebuilt(links', Visible, c)
    /\ Initialize(c)
    /\ UNCHANGED <<exists, recycled, held>>

AddParent(c, p) == "add" \in Ops /\ AddParents(c, {p})

AddTwoParents(c, p, q) == "add_many" \in Ops /\ p < q /\ AddParents(c, {p, q})

\* parents.remove(): the weights of the other links stay what they are.
RemoveParent(c, p) ==
    /\ "remove" \in Ops
    /\ IsLink(links, c, p)
    /\ links' = {l \in links : ~ (l.child = c /\ l.parent = p)}
    /\ cache' = Rebuilt(links', Visible, c)
    /\ UNCHANGED <<exists, recycled, initialized, held, ran>>

\* soft_recycle and restore (sdk/recovery.py) touch neither links nor cache.
SoftRecycle(x) ==
    /\ "recycle" \in Ops
    /\ recycled' = recycled \cup {x}
    /\ UNCHANGED <<links, cache, exists, initialized, held, ran>>

Restore(x) ==
    /\ "restore" \in Ops
    /\ recycled' = recycled \ {x}
    /\ UNCHANGED <<links, cache, exists, initialized, held, ran>>

\* Mutant of Delete: the cache rows stay.
DeleteKeepingRows(x) ==
    /\ "delete" \in Ops
    /\ exists' = exists \ {x}
    /\ recycled' = recycled \ {x}
    /\ initialized' = initialized \ {x}
    /\ held' = held \ {x}
    /\ links' = {l \in links : x \notin {l.child, l.parent}}
    /\ UNCHANGED <<cache, ran>>

\* A hard delete cascades to the link and cache rows that name the object; no
\* signal of the parents relation is sent.
Delete(x) ==
    /\ "delete" \in Ops
    /\ exists' = exists \ {x}
    /\ recycled' = recycled \ {x}
    /\ initialized' = initialized \ {x}
    /\ held' = held \ {x}
    /\ links' = {l \in links : x \notin {l.child, l.parent}}
    /\ cache' = {r \in cache : x \notin {r.desc, r.anc}}
    /\ UNCHANGED ran

\* manage.py rebuild_ancestor_cache: from nothing, for what each site shows.
RebuildAll ==
    /\ "rebuild" \in Ops
    /\ cache' = UNION {FreshRows(links, Visible, y) : y \in Visible}
    /\ UNCHANGED <<links, exists, recycled, initialized, held, ran>>

\* Some verb keeps an instance of x, loaded before x had its first parent ...
Hold(x) ==
    /\ "stale_save" \in Ops
    /\ x \notin initialized
    /\ held' = held \cup {x}
    /\ UNCHANGED <<links, cache, exists, recycled, initialized, ran>>

\* ... and saves it: every column is written as it was when it was loaded.
SaveHeld(x) ==
    /\ x \in held
    /\ held' = held \ {x}
    /\ initialized' = initialized \ {x}
    /\ recycled' = recycled \ {x}
    /\ UNCHANGED <<links, cache, exists, ran>>

-----------------------------------------------------------------------------

Init ==
    /\ setup \in Setups
    /\ links = {}
    /\ cache = {}
    /\ exists = Objects
    /\ recycled = {}
    /\ initialized = {}
    /\ held = {}
    /\ ran = [x \in Object |-> 0]

Next ==
    /\ \/ \E c, p \in Visible : AddParent(c, p) \/ RemoveParent(c, p)
       \/ \E c, p, q \in Visible : AddTwoParents(c, p, q)
       \/ \E x \in Visible : SoftRecycle(x) \/ Hold(x)
       \/ \E x \in exists \cap recycled : Restore(x)
       \/ \E x \in exists : Delete(x) \/ SaveHeld(x)
       \/ RebuildAll
    /\ UNCHANGED setup

Spec == Init /\ [][Next]_vars

-----------------------------------------------------------------------------
\* Properties.

\* Link and cache rows only ever name objects that exist.
TypeOK ==
    /\ setup \in Setups
    /\ exists \subseteq Objects
    /\ links \subseteq Link
    /\ cache \subseteq Row
    /\ recycled \subseteq exists
    /\ initialized \subseteq exists
    /\ held \subseteq exists
    /\ ran \in [Object -> Nat]

\* The cache holds exactly what the parent links say, for every object.
CacheIsFresh == cache = UNION {FreshRows(links, Visible, y) : y \in Visible}

\* ... as long as parents only come and go, one or several at a time
\* (docs/source/reference/caching.md, Maintenance).
CacheMatchesLinks == {"recycle", "delete"} \cap Ops = {} => CacheIsFresh

\* ... also when objects are deleted (caching.md, lines 132-134: "The table is
\* kept consistent", "On any topology change" the descendants are rebuilt).
DeletesReachTheCache == CacheIsFresh

\* Unless objects are recycled no ancestor is missing from the cache or stands
\* in it further away than it is, hard deletes or not: a lookup never misses a
\* verb that is inherited.
AncestorsNeverLost ==
    "recycle" \notin Ops =>
        \A y \in exists : \A r \in WalkRows(links, y) :
            \E q \in cache : q.desc = y /\ q.anc = r.anc /\ q.depth <= r.depth

\* Unless objects are deleted no row of the cache is made up: its ancestor can
\* be reached in so many steps over a first link of that weight.
NoPhantomAncestors ==
    "delete" \notin Ops => cache \subseteq UNION {WalkRows(links, y) : y \in exists}

\* As long as no parent is taken away, one that is added outranks every parent
\* the object has (comment in relationship_changed: "last-added parent has
\* highest weight").
LastAddedWins ==
    [][{"remove", "delete"} \cap Ops = {} =>
          \A l \in links' \ links : \A k \in links :
             k.child = l.child => k.weight < l.weight]_vars

\* `initialize` "fires once per object regardless of subsequent parent changes"
\* (comment on Object._initialized), when nobody saves an instance from before.
InitializeFiresOnce ==
    {"stale_save", "delete"} \cap Ops = {} => \A x \in Object : ran[x] <= 1
=============================================================================
