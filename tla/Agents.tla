------------------------------- MODULE Agents -------------------------------
(***************************************************************************)
(* What goes on without a player: daemons and NPCs, which a row of the     *)
(* scheduler (a PeriodicTask) makes tick, and verbs that go over many      *)
(* items and hand those that are left to a new task when time runs low     *)
(* (moo/sdk/tasks.py, moo/bootstrap/default/verbs).  A command, a tick and *)
(* a hook are each one transaction, one after another; the tasks of an     *)
(* @audit and of a @reload overlap with all of these.                      *)
(***************************************************************************)
EXTENDS Integers, FiniteSets

CONSTANTS
    Daemon,       \* the daemons there may be, owned by the one who is audited
    Npc,          \* those that descend from $npc; they are all wanderers
    Staff,        \* who types commands: wizards and builders
    Admin,        \* the wizards
    Haunt,        \* numbers of rooms
    Shut,         \* those that do not accept an NPC, or are of no room
    Source,       \* the verbs that a @reload loads
    MaxSchedule   \* bound on the rows the scheduler gets

ASSUME AgentsAssumption ==
    Npc \subseteq Daemon /\ Admin \subseteq Staff /\ Shut \subseteq Haunt /\ MaxSchedule \in Nat

Nowhere == "nowhere"

VARIABLES
    agents,     \* agents[d]: life, periodic_task_id or 0, room, wander_rooms, Player rows, a waiting initialize
    schedules,  \* the rows of the scheduler: [id, of]
    issued,     \* the last id; ids are not used again
    batches     \* batches["audit"], batches["reload"]: see below

agentVars == <<agents, schedules, issued, batches>>

Agent == [life : {"unmade", "visible", "recycled", "gone"}, pointer : 0..MaxSchedule,
          room : Haunt \cup {Nowhere}, wander : SUBSET Haunt, records : 0..1, hook : BOOLEAN]

Exists(d) == agents[d].life \in {"visible", "recycled"}

Visible == {d \in Daemon : agents[d].life = "visible"}

-----------------------------------------------------------------------------
\* $daemon

\* get_scheduled_task_info: whether there is such a row.
Scheduled(id) == \E t \in schedules : t.id = id

\* Mutant of Enabled: the pointer is not looked at.
EnabledAgain(d) == FALSE

\* A pointer to a row that exists; a stale one is as good as none.
Enabled(d) == Scheduled(agents[d].pointer)

\* invoke(periodic=True): the row it creates.
invoke(d) == [id |-> issued + 1, of |-> d]

enable(d) ==
    IF Enabled(d) THEN UNCHANGED <<agents, schedules, issued>>
    ELSE /\ issued < MaxSchedule
         /\ issued' = issued + 1
         /\ schedules' = schedules \cup {invoke(d)}
         /\ agents' = [agents EXCEPT ![d].pointer = invoke(d).id]

\* Mutant of cancel_scheduled_task: the row is left.
CancelNothing(id) == schedules

cancel_scheduled_task(id) == {t \in schedules : t.id # id}

disable(d) ==
    /\ schedules' = cancel_scheduled_task(agents[d].pointer)
    /\ agents' = [agents EXCEPT ![d].pointer = 0]

\* $npc.moveto, and the room's accept
npc_moveto(a, r) == IF r \in Shut THEN a ELSE [a EXCEPT !.room = r]

\* $wanderer.act: to another of its rooms.
act(a) ==
    LET candidates == a.wander \ {a.room}
    IN IF candidates = {} THEN {a} ELSE {npc_moveto(a, r) : r \in candidates}

\* $daemon.on_tick does nothing, that of an NPC acts.
on_tick(d) == IF d \in Npc THEN act(agents[d]) ELSE {agents[d]}

\* The count of the ticks is left out.
tick(d) == \E a \in on_tick(d) : agents' = [agents EXCEPT ![d] = a]

\* The scheduler calls invoke_verb, which sees recycled objects and skips what
\* is gone.
Fire(t) ==
    /\ IF Exists(t.of) THEN tick(t.of) ELSE UNCHANGED agents
    /\ UNCHANGED <<schedules, issued, batches>>

\* A row is deleted in the admin.
DropSchedule(t) ==
    /\ schedules' = schedules \ {t}
    /\ UNCHANGED <<agents, issued, batches>>

-----------------------------------------------------------------------------
\* $npc

\* Mutant of ensure_player_record: none is looked for, one more is created.
OneMoreRecord(n) == IF n = 0 THEN 1 ELSE 2

ensure_player_record(n) == IF n = 0 THEN 1 ELSE n

\* remove_player_record: all rows without a user.
remove_player_record(n) == 0

\* The recycle verb of an NPC; that of a daemon, and of an NPC last, disables
\* it, which only a wizard at the keyboard may.
recycle(a) == [a EXCEPT !.records = remove_player_record(@)]

recycle_schedule(p, d) ==
    IF p \in Admin THEN cancel_scheduled_task(agents[d].pointer) ELSE schedules

\* Where other daemons are is left out.
Place(d, r) == IF d \in Npc THEN r ELSE Nowhere

\* A parent's property values are copied to the child, the pointer too; a class
\* has none.  create() queues initialize; @npc create has the record at once.
Child(d, parent, r, direct) ==
    [life |-> "visible", room |-> Place(d, r),
     pointer |-> IF parent \in Daemon THEN agents[parent].pointer ELSE 0,
     wander |-> IF parent \in Daemon THEN agents[parent].wander ELSE {},
     records |-> IF direct THEN ensure_player_record(0) ELSE 0,
     hook |-> d \in Npc]

Create(p, d, parent, r) ==
    /\ agents[d].life = "unmade"
    /\ parent \in Daemon => (d \in Npc <=> parent \in Npc)
    /\ \E direct \in (IF d \in Npc /\ p \in Admin THEN BOOLEAN ELSE {FALSE}) :
          agents' = [agents EXCEPT ![d] = Child(d, parent, r, direct)]
    /\ UNCHANGED <<schedules, issued, batches>>

\* $npc.initialize in a task of its own.
RunInitialize(d) ==
    /\ agents[d].hook
    /\ agents' = [agents EXCEPT ![d].hook = FALSE,
                                ![d].records = IF Exists(d) THEN ensure_player_record(@) ELSE @]
    /\ UNCHANGED <<schedules, issued, batches>>

\* @npc destinations
Destinations(d, rooms) ==
    /\ d \in Visible \cap Npc
    /\ agents' = [agents EXCEPT ![d].wander = rooms]
    /\ UNCHANGED <<schedules, issued, batches>>

-----------------------------------------------------------------------------
\* The end of an object.

\* Object.delete calls the recycle verb first.
delete(p, d) ==
    /\ schedules' = recycle_schedule(p, d)
    /\ agents' = [agents EXCEPT ![d] = [recycle(@) EXCEPT !.life = "gone", !.room = Nowhere,
                                                          !.wander = {}, !.pointer = 0]]
    /\ UNCHANGED <<issued, batches>>

\* @destroy and @daemon kill of a visible object, by a wizard sweep_recycled.
Destroy(p, d) ==
    /\ d \in Visible \/ (p \in Admin /\ agents[d].life = "recycled")
    /\ delete(p, d)

\* @recycle: the object's schedule and its record stay.
Recycle(d) ==
    /\ d \in Visible
    /\ agents' = [agents EXCEPT ![d].life = "recycled", ![d].room = Nowhere]
    /\ UNCHANGED <<schedules, issued, batches>>

\* @restore, to where the owner is.
Restore(d, r) ==
    /\ agents[d].life = "recycled"
    /\ agents' = [agents EXCEPT ![d].life = "visible", ![d].room = Place(d, r)]
    /\ UNCHANGED <<schedules, issued, batches>>

\* A tick at once, besides the schedule.
trigger(d) == tick(d) /\ UNCHANGED <<schedules, issued>>

\* @daemon enable, disable, trigger
at_daemon(p, d) ==
    /\ p \in Admin
    /\ d \in Visible
    /\ \/ enable(d)
       \/ agents[d].pointer # 0 /\ disable(d) /\ UNCHANGED issued
       \/ trigger(d)
    /\ UNCHANGED batches

\* @daemon list
ListDaemons == UNCHANGED agentVars

-----------------------------------------------------------------------------
(***************************************************************************)
(* A chain of tasks.  The one that runs has a list of what is left to      *)
(* handle; queued are the keys handed to the next.  What a task tells the  *)
(* player is out at once.  What a @reload stores is left out: a task       *)
(* killed after it has handed over loses it, and the chain goes on.        *)
(***************************************************************************)
NoBatch == [phase |-> "idle", start |-> {}, todo |-> {}, queued |-> {}, told |-> {}, twice |-> {}, missed |-> {}]

Chain == {"audit", "reload"}

Item == Daemon \cup Source

\* What a task finds: owned_objects, Verb.objects
Found(c) == IF c = "audit" THEN Visible ELSE Source

ChainStep(c, b) ==
    /\ batches' = [batches EXCEPT ![c] = b]
    /\ UNCHANGED <<agents, schedules, issued>>

\* @audit, @reload all; one of them is looked at.
StartBatch(c) ==
    /\ \A any \in Chain : batches[any] = NoBatch
    /\ Found(c) # {}
    /\ ChainStep(c, [NoBatch EXCEPT !.phase = "running", !.start = Found(c), !.todo = Found(c)])

\* One round of the loop.
Handle(c) ==
    LET b == batches[c]
    IN \E i \in b.todo :
          ChainStep(c, [b EXCEPT !.todo = @ \ {i}, !.told = @ \cup {i},
                                 !.twice = @ \cup ({i} \cap b.told)])

\* Mutants of Remaining: the item at which time ran out is left out; the whole
\* list is handed over.
RemainingAfter(b) == b.todo \ {CHOOSE i \in b.todo : TRUE}
RemainingWhole(b) == b.todo \cup b.told

Remaining(b) == b.todo

\* task_time_low and schedule_continuation: the continuation is with the broker
\* at once.
schedule_continuation(c) ==
    LET b == batches[c]
    IN /\ b.todo # {}
       /\ ChainStep(c, [b EXCEPT !.phase = "handed over", !.queued = Remaining(b), !.todo = {}])

\* audit_batch, reload_batch: what has gone in the meantime drops out.
Continue(c) ==
    LET b == batches[c]
    IN /\ b.phase = "handed over"
       /\ ChainStep(c, [b EXCEPT !.phase = "running", !.queued = {}, !.todo = b.queued \cap Found(c),
                                 !.missed = @ \cup (b.queued \ Found(c))])

\* "Done.", "Reloaded n verb(s)."
Finish(c) ==
    /\ batches[c].phase = "running"
    /\ batches[c].todo = {}
    /\ ChainStep(c, [batches[c] EXCEPT !.phase = "done"])

\* The hard time limit strikes before the task has handed over.
KillBatch(c) ==
    /\ batches[c].phase = "running"
    /\ ChainStep(c, [batches[c] EXCEPT !.phase = "killed", !.todo = {}])

BatchNext ==
    \E c \in Chain :
        StartBatch(c) \/ Handle(c) \/ schedule_continuation(c) \/ Continue(c) \/ Finish(c) \/ KillBatch(c)

-----------------------------------------------------------------------------
AgentsInit ==
    /\ agents = [d \in Daemon |-> [life |-> "unmade", pointer |-> 0, room |-> Nowhere, wander |-> {},
                                   records |-> 0, hook |-> FALSE]]
    /\ schedules = {}
    /\ issued = 0
    /\ batches = [c \in Chain |-> NoBatch]

\* How objects come, hide and go.
LifeNext ==
    \/ ListDaemons
    \/ \E p \in Staff, d \in Daemon, r \in Haunt \ Shut :
          (\E parent \in Visible \cup {"class"} : Create(p, d, parent, r)) \/ Restore(d, r)
    \/ \E d \in Daemon : RunInitialize(d) \/ Recycle(d) \/ \E p \in Staff : Destroy(p, d)

ScheduleNext ==
    \/ \E d \in Daemon : (\E p \in Staff : at_daemon(p, d)) \/ Destinations(d, Haunt)
    \/ \E t \in schedules : Fire(t) \/ DropSchedule(t)

AgentsTypeOK ==
    /\ agents \in [Daemon -> Agent]
    /\ schedules \subseteq [id : 1..MaxSchedule, of : Daemon]
    /\ issued \in 0..MaxSchedule
    /\ \A c \in Chain :
          /\ batches[c].phase \in {"idle", "running", "handed over", "done", "killed"}
          /\ batches[c].told \cup batches[c].queued \cup batches[c].todo \cup batches[c].missed \subseteq batches[c].start
          /\ batches[c].start \subseteq Item

-----------------------------------------------------------------------------
\* No daemon that exists has a schedule but the one its pointer names, so that
\* disabling it stops it; and an NPC that exists has its Player row, or the task
\* that makes it is on its way, and one that is gone has none: whoever enables,
\* disables, recycles, restores or destroys it, or makes another one from it,
\* and whatever becomes of the schedules by themselves
\* (docs/source/how-to/npcs-and-daemons.md, lines 72 and 91).
AgentsAreAccounted ==
    /\ \A t \in schedules : Exists(t.of) => agents[t.of].pointer = t.id
    /\ \A d \in Npc : IF Exists(d) THEN agents[d].records = 1 \/ agents[d].hook ELSE agents[d].records = 0

\* When an @audit or a @reload says that it is done, each item it began with was
\* handled once, in whichever task, unless it was gone when a continuation
\* looked for it; and no item is ever handled twice (schedule_continuation in
\* moo/sdk/tasks.py and the loops that call it).
BatchesCover ==
    \A c \in Chain :
        LET b == batches[c]
        IN /\ b.twice = {}
           /\ b.told \cap b.missed = {}
           /\ b.phase = "done" => b.start = b.told \cup b.missed

=============================================================================
