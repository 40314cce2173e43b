----------------------------- MODULE Movement ------------------------------
(***************************************************************************)
(* How an object changes place: `Object.save` (moo/core/models/object.py)  *)
(* as run by Celery tasks.  A task loads an object, changes fields of the  *)
(* instance it holds and saves it; the save checks for recursion, writes   *)
(* the whole row, asks the destination's `accept` verb, and queues the     *)
(* `exitfunc` / `enterfunc` verbs for after the commit.  Tasks run at the  *)
(* READ COMMITTED isolation of the PostgreSQL settings: a query sees the   *)
(* last committed rows, an UPDATE holds its row until the transaction ends.*)
(***************************************************************************)
EXTENDS Naturals, Sequences, FiniteSets

CONSTANTS Object,    \* database objects
          Nil,       \* no object: location = None
          Task,      \* task slots, each running one transaction at a time
          Hooked,    \* objects that define exitfunc and enterfunc
          MaxJobs,   \* bound: no task starts while more hooks are queued
          Setups     \* the situations of an instance

AllOps == {"move", "into_self", "home", "edit", "recycle", "restore"}

ASSUME NilAssumption == Nil \notin Object
ASSUME TaskAssumption == IsFiniteSet(Task) /\ Nil \notin Task
ASSUME HookedAssumption == Hooked \subseteq Object
ASSUME MaxJobsAssumption == MaxJobs \in Nat

(***************************************************************************)
(* A situation: how many transactions and hook verbs the workers run at    *)
(* once, the slots in use, the operations the tasks perform, and the       *)
(* objects they perform them on.                                           *)
(***************************************************************************)
SetupType == [workers : Nat \ {0}, slots : SUBSET Task, ops : SUBSET AllOps,
              cast : SUBSET Object]

ASSUME SetupsAssumption ==
    \A s \in Setups : /\ s.workers \in Nat \ {0} /\ s.slots \subseteq Task
                      /\ s.ops \subseteq AllOps /\ s.cast \subseteq Object

VARIABLES setup,     \* the situation of this behaviour; it never changes
          loc,       \* loc[x]: committed location of x
          recycled,  \* the objects whose committed row has the soft-recycle flag
          phase,     \* phase[t]: how far slot t's transaction has come
          tx,        \* tx[t]: what the transaction of slot t is to do
          rowLock,   \* rowLock[x]: the transaction that wrote x's row, or Nil
          jobs,      \* queued hook verbs, oldest first
          present    \* present[r]: what r's hooks have counted in and not out

vars == <<setup, loc, recycled, phase, tx, rowLock, jobs, present>>

Workers == setup.workers

Ops == setup.ops

\* One transaction at a time, and none of the operations the recursion check
\* does not stand for: an object moved into itself, a restored one.
Serial == Workers = 1 /\ Ops \subseteq {"move", "home", "edit", "recycle"}

Place == Object \cup {Nil}

Phase == {"idle", "loaded", "checked", "written", "accepted"}

(***************************************************************************)
(* A transaction: the object it changes, the `location` it will write, and *)
(* what the instance remembered when it was loaded (`_original_location`). *)
(***************************************************************************)
Transaction == [op : AllOps, obj : Place, to : Place, seen : Place]

NoTransaction == [op |-> "edit", obj |-> Nil, to |-> Nil, seen |-> Nil]

Job == [verb : {"exitfunc", "enterfunc"}, room : Object, thing : Object]

Open == {t \in Task : phase[t] # "idle"}

\* What the site-scoped default manager returns (core/managers.py).
Visible == Object \ recycled

-----------------------------------------------------------------------------
\* get_contents() and contains(): both use the default manager, so a recycled
\* object neither is found nor is looked into.

HoldsContentsOf(S, x) == \A y \in Visible : loc[y] \in S \cup {x} => y \in S

Contains(x, d) ==
    /\ x \in Visible
    /\ \A S \in SUBSET Object : HoldsContentsOf(S, x) => d \in S

\* The recursive query is a UNION ALL: below an object that is in a loop it
\* yields rows for ever, and only a hit ends it.
QueryDiverges(x, d) == Contains(x, x) /\ ~ Contains(x, d)

-----------------------------------------------------------------------------
\* The operations, as the locations they assign.

Targets(op, x) ==
    {d \in setup.cast \cup {Nil} :
        \/ op \in {"move", "home"} /\ d \in Visible \ {x}  \* moveto, exits; guaranteed_moveto
        \/ op = "into_self" /\ d = x
        \/ op = "edit" /\ d = loc[x]                       \* rename and the like
        \/ op = "recycle" /\ d = Nil                       \* soft_recycle
        \/ op = "restore" /\ d \in (Visible \ {x}) \cup {Nil}}

\* restore() finds its object through global_objects, the others do not.
Loadable(op) == setup.cast \cap (IF op = "restore" THEN Object \ Visible ELSE Visible)

Load(t) ==
    /\ t \in setup.slots /\ phase[t] = "idle"
    /\ Cardinality(Open) < Workers
    /\ Len(jobs) <= MaxJobs
    /\ \E op \in Ops : \E x \in Loadable(op) : \E d \in Targets(op, x) :
          tx' = [tx EXCEPT ![t] = [op |-> op, obj |-> x, to |-> d, seen |-> loc[x]]]
    /\ phase' = [phase EXCEPT ![t] = "loaded"]
    /\ UNCHANGED <<setup, loc, recycled, rowLock, jobs, present>>

\* Mutant of Recursive: the question is asked the wrong way round.
RecursiveSwapped(t) == tx[t].to # Nil /\ Contains(tx[t].to, tx[t].obj)

Recursive(t) == tx[t].to # Nil /\ Contains(tx[t].obj, tx[t].to)

\* Each way a transaction ends: what it held is let go.
End(t) ==
    /\ phase' = [phase EXCEPT ![t] = "idle"]
    /\ tx' = [tx EXCEPT ![t] = NoTransaction]
    /\ rowLock' = [x \in Object |-> IF rowLock[x] = t THEN Nil ELSE rowLock[x]]

\* Mutant of CheckRecursion: an object that was nowhere is not checked.
CheckRecursionIfPlaced(t) ==
    /\ phase[t] = "loaded"
    /\ tx[t].seen # Nil => ~ Recursive(t)
    /\ phase' = [phase EXCEPT ![t] = "checked"]
    /\ UNCHANGED <<setup, loc, recycled, tx, rowLock, jobs, present>>

\* save(): the recursion check, before anything is written.
CheckRecursion(t) ==
    /\ phase[t] = "loaded"
    /\ ~ (tx[t].to # Nil /\ QueryDiverges(tx[t].obj, tx[t].to))
    /\ ~ Recursive(t)
    /\ phase' = [phase EXCEPT ![t] = "checked"]
    /\ UNCHANGED <<setup, loc, recycled, tx, rowLock, jobs, present>>

RaiseRecursive(t) ==
    /\ phase[t] = "loaded"
    /\ Recursive(t)
    /\ End(t)
    /\ UNCHANGED <<setup, loc, recycled, jobs, present>>

\* super().save(): an UPDATE of every column, which waits for the row.
Write(t) ==
    /\ phase[t] = "checked"
    /\ rowLock[tx[t].obj] = Nil
    /\ rowLock' = [rowLock EXCEPT ![tx[t].obj] = t]
    /\ phase' = [phase EXCEPT ![t] = "written"]
    /\ UNCHANGED <<setup, loc, recycled, tx, jobs, present>>

\* The location test of save(): against the instance, not against the row.
Moves(t) == tx[t].to # tx[t].seen /\ tx[t].to # Nil

\* Mutant of AsksAccept: accept is asked where exitfunc is looked up.
AsksAcceptOnDeparture(t) == Moves(t) /\ tx[t].op # "home" /\ tx[t].seen # Nil

AsksAccept(t) == Moves(t) /\ tx[t].op # "home"

\* `move` is granted and the destination's accept verb answers true.
Accept(t) ==
    /\ phase[t] = "written"
    /\ AsksAccept(t)
    /\ phase' = [phase EXCEPT ![t] = "accepted"]
    /\ UNCHANGED <<setup, loc, recycled, tx, rowLock, jobs, present>>

\* accept answers false, or `move` (or, for an edit, `write`) is not granted:
\* the savepoint is rolled back and the command reports the error.
Refuse(t) ==
    /\ phase[t] = "written"
    /\ AsksAccept(t) \/ tx[t].op = "edit"
    /\ End(t)
    /\ UNCHANGED <<setup, loc, recycled, jobs, present>>

\* Mutant of Hook: a room is called whether or not it has the verb.
HookUnasked(verb, room, x) == <<[verb |-> verb, room |-> room, thing |-> x]>>

Hook(verb, room, x) ==
    IF room \in Hooked THEN <<[verb |-> verb, room |-> room, thing |-> x]>> ELSE <<>>

\* Mutants of HooksOf: both lambdas close over the name and call the verb bound
\* last; enterfunc is queued only together with an exitfunc.
HooksOfLateBinding(t) ==
    IF Moves(t)
    THEN (IF tx[t].seen \in Hooked THEN Hook("enterfunc", tx[t].to, tx[t].obj) ELSE <<>>)
            \o Hook("enterfunc", tx[t].to, tx[t].obj)
    ELSE <<>>

HooksOfNested(t) ==
    IF Moves(t) /\ tx[t].seen # Nil
    THEN Hook("exitfunc", tx[t].seen, tx[t].obj) \o Hook("enterfunc", tx[t].to, tx[t].obj)
    ELSE <<>>

\* transaction.on_commit: the old location's exitfunc, then the new one's
\* enterfunc, each a Celery task of its own.
HooksOf(t) ==
    IF Moves(t)
    THEN Hook("exitfunc", tx[t].seen, tx[t].obj) \o Hook("enterfunc", tx[t].to, tx[t].obj)
    ELSE <<>>

Commit(t) ==
    /\ \/ phase[t] = "accepted"
       \/ phase[t] = "written" /\ ~ AsksAccept(t)
    /\ loc' = [loc EXCEPT ![tx[t].obj] = tx[t].to]
    /\ recycled' = IF tx[t].op = "recycle" THEN recycled \cup {tx[t].obj}
                                        ELSE recycled \ {tx[t].obj}
    /\ jobs' = jobs \o HooksOf(t)
    /\ End(t)
    /\ UNCHANGED <<setup, present>>

\* Mutant of Kill: the limit is armed only once the row is written.
KillAfterWrite(t) ==
    /\ phase[t] \in {"written", "accepted"}
    /\ End(t)
    /\ UNCHANGED <<setup, loc, recycled, jobs, present>>

\* The task time limit, or a worker that dies: the transaction is undone.
Kill(t) ==
    /\ phase[t] # "idle"
    /\ End(t)
    /\ UNCHANGED <<setup, loc, recycled, jobs, present>>

\* A free worker runs a queued hook; with several workers a younger hook can
\* overtake an older one.
RunHook(i) ==
    /\ i \in 1..Len(jobs)
    /\ i <= Workers - Cardinality(Open)
    /\ LET j == jobs[i]
       IN  present' = [present EXCEPT ![j.room] =
                          IF j.verb = "enterfunc" THEN @ \cup {j.thing} ELSE @ \ {j.thing}]
    /\ jobs' = SubSeq(jobs, 1, i - 1) \o SubSeq(jobs, i + 1, Len(jobs))
    /\ UNCHANGED <<setup, loc, recycled, phase, tx, rowLock>>

-----------------------------------------------------------------------------

Init ==
    /\ setup \in Setups
    /\ loc = [x \in Object |-> Nil]
    /\ recycled = {}
    /\ phase = [t \in Task |-> "idle"]
    /\ tx = [t \in Task |-> NoTransaction]
    /\ rowLock = [x \in Object |-> Nil]
    /\ jobs = <<>>
    /\ present = [r \in Object |-> {}]

Step(t) ==
    \/ CheckRecursion(t) \/ RaiseRecursive(t) \/ Write(t)
    \/ Accept(t) \/ Refuse(t) \/ Commit(t) \/ Kill(t)

Next ==
    \/ \E t \in Task : Load(t) \/ Step(t)
    \/ \E i \in 1..Workers : RunHook(i)

Spec == Init /\ [][Next]_vars

\* A started transaction is run to its end and a queued hook is run.
Fairness ==
    /\ \A t \in Task : WF_vars(Step(t))
    /\ SF_vars(RunHook(1))

FairSpec == Spec /\ Fairness

-----------------------------------------------------------------------------
\* Properties.

\* The variables hold values of their kinds, and an open transaction is about
\* an object.
TypeOK ==
    /\ setup \in Setups
    /\ loc \in [Object -> Place]
    /\ recycled \in SUBSET Object
    /\ phase \in [Task -> Phase]
    /\ tx \in [Task -> Transaction]
    /\ \A t \in Open : tx[t].obj \in Object
    /\ rowLock \in [Object -> Task \cup {Nil}]
    /\ jobs \in Seq(Job)
    /\ present \in [Object -> SUBSET Object]

\* There is no containment loop (docstring of Object.location: a move that
\* would create one raises RecursiveError instead).
ContainmentForest ==
    \A C \in SUBSET Object : C # {} => \E y \in C : loc[y] \notin C

\* What Containment sees: the locations, in the serial situations.
Shown == IF Serial THEN loc ELSE [x \in Object |-> Nil]

Abstract == INSTANCE Containment WITH Object <- Object, Nil <- Nil, loc <- Shown

\* One task at a time, the code implements the abstract containment forest:
\* each save is a legal move of one object or leaves every location alone.
ImplementsContainment == Abstract!Spec

\* What save() checked before its transaction is still so when it commits: one
\* task at a time, nothing has made the destination part of the contents since.
CheckStaysValid ==
    Serial =>
       \A t \in Open : phase[t] \in {"checked", "written", "accepted"} => ~ Recursive(t)

\* One task at a time, an object arrives somewhere only because the destination
\* accepted this object in this transaction, or by the guaranteed move (docstring
\* of Object.location: accept "is performed before any movement takes place").
MovesAreAccepted ==
    [][Serial =>
       \A x \in Object :
          loc'[x] \notin {loc[x], Nil} =>
             \E t \in Open : /\ tx[t].obj = x
                             /\ tx[t].to = loc'[x]
                             /\ phase[t] = "accepted" \/ tx[t].op = "home"]_vars

\* A recycled object is nowhere: soft_recycle sets flag and location in one
\* row, and no interleaving of whole-row saves separates them.
HiddenIsNowhere == \A x \in recycled : loc[x] = Nil

\* A row changes only by the one transaction that holds it: two saves of the
\* same object never interleave between UPDATE and commit.
OnlyRowHolderWrites ==
    [][\A x \in Object :
          <<loc[x], x \in recycled>>' # <<loc[x], x \in recycled>> =>
             /\ rowLock[x] \in Open
             /\ tx[rowLock[x]].obj = x
             /\ \A t \in Open : phase[t] \in {"written", "accepted"} /\ tx[t].obj = x
                                => t = rowLock[x]]_vars

\* One task at a time and nothing recycled: once the queue is empty and no task
\* is open, what a room's hooks counted in and not out is what is located there
\* ("take note of objects moving in and out of rooms", docstring of $room's
\* exitfunc verb).
PresenceSettles ==
    Serial /\ "recycle" \notin Ops /\ jobs = <<>> /\ Open = {} =>
       \A r \in Hooked : present[r] = {x \in Object : loc[x] = r}

\* An object that arrives at a room and stays is in the end counted in by the
\* room's enterfunc.
ArrivalsAreAnnounced ==
    \A r \in Hooked, x \in Object :
       (loc[x] = r) ~> (x \in present[r] \/ loc[x] # r)

\* No task is stuck: a save waiting for a row, or a recursive query that never
\* ends, is over at the latest when the time limit strikes.
TasksEnd == \A t \in Task : (phase[t] # "idle") ~> (phase[t] = "idle")
=============================================================================
