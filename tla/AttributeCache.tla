--------------------------- MODULE AttributeCache ---------------------------
(***************************************************************************)
(* One property name, as tasks read and write it: `get_property` and       *)
(* `set_property` (moo/core/models/object.py).  A value is looked for in   *)
(* the session cache of the task, in Redis, in the row of the object and   *)
(* in the rows of its ancestors, and is left in both caches.  A write is   *)
(* visible to others when the transaction commits, but takes effect on     *)
(* Redis at once.  Every call to Redis and to the database is a step.      *)
(*                                                                         *)
(* Values stand for serialised text.  Permissions, lookups of the whole    *)
(* Property (`original`, which uses no cache), changes of the name and the *)
(* copies that `inherit_owner` makes are left out.                         *)
(***************************************************************************)
EXTENDS Naturals, Sequences, FiniteSets

CONSTANTS Object,
          Ancestors,  \* Ancestors[x]: the ancestors of x, nearest first
          Value,
          Initial,    \* the value of rows that are there at the beginning
          Task,       \* task slots
          Nobody,
          None,       \* no value: of a row that is not yet committed
          Empty,      \* no cache entry
          Missing,    \* the entry that there is no such property
          Setups      \* the setups that are looked at

Key == Object \X BOOLEAN  \* an object, and whether its ancestors are searched

ASSUME ValueAssumption == Initial \in Value /\ {None, Empty, Missing} \cap Value = {}
ASSUME EntryAssumption == Empty # Missing
ASSUME TaskAssumption == IsFiniteSet(Task) /\ Nobody \notin Task
ASSUME AncestorsAssumption == Ancestors \in [Object -> Seq(Object)]
ASSUME SetupAssumption ==
          \A s \in Setups : /\ s.workers \in Nat \ {0}
                            /\ s.asked \subseteq Key
                            /\ s.written \subseteq Object
                            /\ s.stored \subseteq Object
                            /\ s.kills \in BOOLEAN

VARIABLES setup,    \* the one of this behaviour; it never changes
          rows,     \* rows[x]: the Property rows of x, in order of primary key
          redis,    \* redis[k]: the entry of the cross-session cache
          session,  \* session[t][k]: the entry of the task's own cache
          phase,    \* phase[t]: how far the task in slot t has come
          call      \* call[t]: the key it looks up or evicts, and what it found

vars == <<setup, rows, redis, session, phase, call>>

Row == [old : Value \cup {None}, new : Value, by : Task \cup {Nobody}]

Entry == Value \cup {Missing, Empty}

NoEntries == [k \in Key |-> Empty]

NoCall == [key |-> None, found |-> Empty]

Open == {t \in Task : phase[t] # "idle"}

(***************************************************************************)
(* A row has its committed value, the one last written, and who wrote it   *)
(* and has not ended yet; that task alone sees the new value, and its lock *)
(* keeps other writers away.                                               *)
(***************************************************************************)
VisibleTo(t, r) == r.by = t \/ r.old # None

ValueFor(t, r) == IF r.by = t THEN r.new ELSE r.old

\* What a query of slot t, or of somebody else (Nobody), finds on x.
Seen(t, x) ==
    LET visible == SelectSeq(rows[x], LAMBDA r : VisibleTo(t, r))
    IN  [i \in DOMAIN visible |-> ValueFor(t, visible[i])]

\* `.first()` orders by primary key.
Own(t, x) == IF Seen(t, x) = <<>> THEN Missing ELSE Seen(t, x)[1]

\* The nearest ancestor that has the property; if it has two rows for it, either
\* may come first.
Inherited(t, x) ==
    LET having == SelectSeq(Ancestors[x], LAMBDA y : Seen(t, y) # <<>>)
    IN  IF having = <<>>
        THEN {Missing}
        ELSE {Seen(t, having[1])[i] : i \in DOMAIN Seen(t, having[1])}

\* What the rows say, without caches.
Resolved(t, k) ==
    IF Own(t, k[1]) = Missing /\ k[2] THEN Inherited(t, k[1]) ELSE {Own(t, k[1])}

-----------------------------------------------------------------------------
\* A task.

Begin(t) ==
    /\ phase[t] = "idle"
    /\ Cardinality(Open) < setup.workers
    /\ phase' = [phase EXCEPT ![t] = "open"]
    /\ UNCHANGED <<rows, redis, session, call>>

\* Mutant of End: the lookup of a killed task goes on in the next one.
EndOpen(t) ==
    /\ phase' = [phase EXCEPT ![t] = "idle"]
    /\ session' = [session EXCEPT ![t] = NoEntries]
    /\ UNCHANGED call

End(t) ==
    /\ phase' = [phase EXCEPT ![t] = "idle"]
    /\ session' = [session EXCEPT ![t] = NoEntries]
    /\ call' = [call EXCEPT ![t] = NoCall]

Stored(t, r) == IF r.by = t THEN [r EXCEPT !.old = r.new, !.by = Nobody] ELSE r

Undone(t, r) == IF r.by = t THEN [r EXCEPT !.new = r.old, !.by = Nobody] ELSE r

Commit(t) ==
    /\ phase[t] = "open"
    /\ rows' = [x \in Object |-> [i \in DOMAIN rows[x] |-> Stored(t, rows[x][i])]]
    /\ End(t)
    /\ UNCHANGED redis

\* The time limit, or an error nobody catches: rows roll back, Redis does not.
Kill(t) ==
    /\ setup.kills
    /\ phase[t] # "idle"
    /\ rows' = [x \in Object |->
                  LET kept == SelectSeq(rows[x], LAMBDA r : ~ (r.by = t /\ r.old = None))
                  IN  [i \in DOMAIN kept |-> Undone(t, kept[i])]]
    /\ End(t)
    /\ UNCHANGED redis

-----------------------------------------------------------------------------
\* get_property.  A hit in the session cache changes nothing.

RedisHit(t, k) ==
    /\ phase[t] = "open"
    /\ session[t][k] = Empty
    /\ redis[k] # Empty
    /\ session' = [session EXCEPT ![t][k] = redis[k]]
    /\ UNCHANGED <<rows, redis, phase, call>>

Miss(t, k) ==
    /\ phase[t] = "open"
    /\ session[t][k] = Empty
    /\ redis[k] = Empty
    /\ phase' = [phase EXCEPT ![t] = "asking"]
    /\ call' = [call EXCEPT ![t].key = k]
    /\ UNCHANGED <<rows, redis, session>>

\* What was found goes into the session cache first.
Find(t, found) ==
    /\ phase' = [phase EXCEPT ![t] = "filling"]
    /\ call' = [call EXCEPT ![t].found = found]
    /\ session' = [session EXCEPT ![t][call[t].key] = found]
    /\ UNCHANGED <<rows, redis>>

\* The row of the object itself, unless there is none and ancestors are to be
\* searched.
QueryOwn(t) ==
    LET k == call[t].key
    IN  /\ phase[t] = "asking"
        /\ IF Own(t, k[1]) = Missing /\ k[2]
           THEN /\ phase' = [phase EXCEPT ![t] = "inheriting"]
                /\ UNCHANGED <<rows, redis, session, call>>
           ELSE Find(t, Own(t, k[1]))

QueryAncestors(t) ==
    /\ phase[t] = "inheriting"
    /\ \E found \in Inherited(t, call[t].key[1]) : Find(t, found)

Fill(t) ==
    /\ phase[t] = "filling"
    /\ redis' = [redis EXCEPT ![call[t].key] = call[t].found]
    /\ phase' = [phase EXCEPT ![t] = "open"]
    /\ call' = [call EXCEPT ![t] = NoCall]
    /\ UNCHANGED <<rows, session>>

-----------------------------------------------------------------------------
\* set_property.

\* Mutant of Written: a value is always inserted.
WrittenAnew(t, x, v) == Append(rows[x], [old |-> None, new |-> v, by |-> t])

\* update_or_create: the visible row is locked and updated; when there is none
\* a row is inserted, which nothing prevents others from doing too.
Written(t, x, v) ==
    IF Seen(t, x) = <<>>
    THEN Append(rows[x], [old |-> None, new |-> v, by |-> t])
    ELSE [i \in DOMAIN rows[x] |->
            IF VisibleTo(t, rows[x][i])
            THEN [rows[x][i] EXCEPT !.new = v, !.by = t]
            ELSE rows[x][i]]

\* Another task has updated the row.
Locked(t, x) ==
    \E i \in DOMAIN rows[x] :
        VisibleTo(t, rows[x][i]) /\ rows[x][i].by \notin {t, Nobody}

\* Mutant of Forgotten: the session keeps what it has read.
NotForgotten(t, x) == session[t]

\* The entries of x are evicted from the session, with and without recursion.
Forgotten(t, x) == [k \in Key |-> IF k[1] = x THEN Empty ELSE session[t][k]]

\* With two visible rows update_or_create raises MultipleObjectsReturned.
Set(t, x, v) ==
    /\ phase[t] = "open"
    /\ ~ Locked(t, x)
    /\ Len(Seen(t, x)) <= 1
    /\ rows' = [rows EXCEPT ![x] = Written(t, x, v)]
    /\ session' = [session EXCEPT ![t] = Forgotten(t, x)]
    /\ phase' = [phase EXCEPT ![t] = "evicting"]
    /\ call' = [call EXCEPT ![t].key = <<x, TRUE>>]
    /\ UNCHANGED redis

\* Mutant of Evict: the entry without recursion stays.
EvictOne(t) ==
    /\ phase[t] = "evicting"
    /\ redis' = [redis EXCEPT ![call[t].key] = Empty]
    /\ call' = [call EXCEPT ![t] = NoCall]
    /\ phase' = [phase EXCEPT ![t] = "open"]
    /\ UNCHANGED <<rows, session>>

\* Redis is told at once, first of the lookup with recursion and then of the one
\* without; entries of descendants stay.
Evict(t) ==
    /\ phase[t] = "evicting"
    /\ redis' = [redis EXCEPT ![call[t].key] = Empty]
    /\ IF call[t].key[2]
       THEN /\ call' = [call EXCEPT ![t].key = <<call[t].key[1], FALSE>>]
            /\ UNCHANGED phase
       ELSE /\ call' = [call EXCEPT ![t] = NoCall]
            /\ phase' = [phase EXCEPT ![t] = "open"]
    /\ UNCHANGED <<rows, session>>

-----------------------------------------------------------------------------

\* Mutant of Expire: the entry that nothing was found has no time to live.
ExpireValues(k) ==
    /\ redis[k] \in Value
    /\ redis' = [redis EXCEPT ![k] = Empty]
    /\ UNCHANGED <<rows, session, phase, call>>

\* The time to live (MOO_ATTRIB_CACHE_TTL) is over, or a sync flushes Redis.
Expire(k) ==
    /\ redis[k] # Empty
    /\ redis' = [redis EXCEPT ![k] = Empty]
    /\ UNCHANGED <<rows, session, phase, call>>

Init ==
    /\ setup \in Setups
    /\ rows = [x \in Object |->
                 IF x \in setup.stored
                 THEN <<[old |-> Initial, new |-> Initial, by |-> Nobody]>>
                 ELSE <<>>]
    /\ redis = NoEntries
    /\ session = [t \in Task |-> NoEntries]
    /\ phase = [t \in Task |-> "idle"]
    /\ call = [t \in Task |-> NoCall]

Get(t) ==
    \/ \E k \in setup.asked : RedisHit(t, k) \/ Miss(t, k)
    \/ QueryOwn(t) \/ QueryAncestors(t) \/ Fill(t)

Step(t) ==
    \/ Begin(t) \/ Commit(t) \/ Kill(t)
    \/ Get(t)
    \/ \E x \in setup.written : \E v \in Value : Set(t, x, v)
    \/ Evict(t)

Next ==
    /\ (\E t \in Task : Step(t)) \/ (\E k \in Key : Expire(k))
    /\ UNCHANGED setup

Spec == Init /\ [][Next]_vars

\* Redis keeps no entry longer than its time to live.
FairSpec == Spec /\ \A k \in Key : WF_vars(Expire(k) /\ UNCHANGED setup)

-----------------------------------------------------------------------------
\* Properties.

Phase == {"idle", "open", "asking", "inheriting", "filling", "evicting"}

TypeOK ==
    /\ setup \in Setups
    /\ rows \in [Object -> Seq(Row)]
    /\ redis \in [Key -> Entry]
    /\ session \in [Task -> [Key -> Entry]]
    /\ phase \in [Task -> Phase]
    /\ call \in [Task -> [key : Key \cup {None}, found : Entry]]
    /\ \A t \in Task : call[t].key = None <=> phase[t] \in {"idle", "open"}
    /\ \A t \in Task : phase[t] = "filling" => call[t].found # Empty

HasWritten(t, x) == \E i \in DOMAIN rows[x] : rows[x][i].by = t

\* A task that has written a property gets its own value back
\* (moo/core/models/object.py, line 750: evicted "so subsequent reads in the
\* same session see the freshly written value").
WritesAreReadBack ==
    \A t \in Open, k \in Key :
        HasWritten(t, k[1]) => session[t][k] \in {Empty, Own(t, k[1])}

\* So it does when tasks run one after another, whichever of them are killed and
\* whatever they leave in Redis: both caches are evicted before the next read.
OwnWritesAreRead == setup.workers = 1 => WritesAreReadBack

\* Lookups that the object itself answers: all that are not recursive, and the
\* recursive ones of an object with a row.
Direct(t, k) == ~ k[2] \/ Own(t, k[1]) # Missing

\* When tasks run one after another and none is killed, what Redis says of an
\* object's own property is what its row says, as soon as the write is done: a
\* write evicts the entries of both kinds of lookup, also that nothing was found.
WritesReachRedis ==
    setup.workers = 1 /\ ~ setup.kills =>
        \A t \in Open, k \in Key :
            phase[t] # "evicting" /\ Direct(t, k) => redis[k] \in {Empty} \cup Resolved(t, k)

\* With one task at a time the caches follow what is written.
CachesFollowWrites == OwnWritesAreRead /\ WritesReachRedis

\* A property is stored once: one committed row and none about to be inserted.
Single(x) == Len(rows[x]) = 1 /\ rows[x][1].old # None

\* An object that has a property keeps exactly one row for it, whatever tasks do
\* at the same time and whichever are killed (moo/core/models/property.py: "Unique
\* per ``origin``", which no constraint enforces; only the first two writers,
\* both inserting, can break it).
StaysSingle == [][\A x \in Object : Single(x) => Single(x)']_vars

Quiet == \A x \in Object : \A t \in Task : ~ HasWritten(t, x)

\* When writing has come to an end, stale entries disappear for good
\* (docs/source/reference/caching.md: descendant caches "expire naturally within
\* MOO_ATTRIB_CACHE_TTL"), also those that a slow reader or a killed writer left.
StaleEntriesExpire ==
    <>[]Quiet => <>[](\A k \in Key : redis[k] \in {Empty} \cup Resolved(Nobody, k))
=============================================================================
