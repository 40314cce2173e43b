------------------------------ MODULE Invocation ------------------------------
(***************************************************************************)
(* Verbs that call verbs in one task: with whose rights each runs, on what *)
(* object, and what is left when one fails (moo/core/code.py,              *)
(* moo/core/models/verb.py, moo/sdk/tasks.py).  All verbs here have one    *)
(* name.  What a verb does is open: it calls, passes on, schedules, moves  *)
(* something, takes other rights for a while, returns or fails.            *)
(***************************************************************************)
EXTENDS Integers, Sequences, FiniteSets

CONSTANTS
    Callee,      \* objects that have verbs
    Called,       \* those that the verbs of the others call by name
    Line,        \* Line[o]: o and its ancestors, the nearest first
    Parents,     \* Parents[o]: its parents, in order
    VerbOwner,   \* VerbOwner[o]: who owns the verb that o defines; DOMAIN: those that define it
    Runner,      \* who verbs run as
    Typists,     \* those who type
    Assumed,     \* those whose rights verbs take by set_task_perms
    Wizards,
    Replies,     \* the objects that a result is sent to
    MaxFrames, MaxPosted   \* bounds on frames and on scheduled calls

None == "none"

\* The Verb instance that the parser or a worker has found for itself; all
\* others are in the verb_lookup_cache, under the object they were looked up on.
Own == "own"

ASSUME InvocationAssumption ==
    /\ VerbOwner \in [DOMAIN VerbOwner -> Runner]
    /\ Typists \subseteq Runner /\ Assumed \subseteq Runner /\ Wizards \subseteq Runner
    /\ Called \subseteq Callee /\ Replies \subseteq Callee /\ None \notin Runner \cup Callee /\ Own \notin Callee
    /\ Line \in [Callee -> Seq(Callee)] /\ Parents \in [Callee -> Seq(Callee)]
    /\ MaxFrames \in Nat /\ MaxPosted \in Nat

VARIABLES
    phase,    \* "idle", or the task runs ("working"), or unwinds ("raising")
    job,      \* the task: its caller, its player, who gets its result, whether it is a command
    caller,   \* context.caller
    stack,    \* context.caller_stack
    running,  \* the Python calls that are under way: verbs, and set_task_perms blocks in them
    bound,    \* bound[i]: _invoked_object of the instance i
    hooks,    \* on_commit: calls that wait for the transaction
    posted    \* calls that wait for a worker; alike ones count once

callVars == <<phase, job, caller, stack, running, bound, hooks, posted>>

NoJob == [caller |-> None, player |-> None, back |-> None, typed |-> FALSE, reply |-> FALSE]

Call == [caller : Runner, player : Runner \cup {None}, this : Callee, back : Callee \cup {None},
         reply : BOOLEAN]

Task == [caller : Runner, player : Runner, back : Callee \cup {None}, typed : BOOLEAN, reply : BOOLEAN]

Hook == [inst : Callee, caller : Runner, player : Runner]

Activation == [is : {"verb", "block"}, inst : Callee \cup {Own, None}, this : Callee \cup {None},
               origin : Callee \cup {None}, as : Runner, by : {"call", "pass", "early", "with"},
               early : BOOLEAN]

Frame == [this : Callee \cup {None}, origin : Callee \cup {None}, caller : Runner, previous : Runner]

CallInit ==
    /\ phase = "idle" /\ job = NoJob /\ caller = None
    /\ stack = <<>> /\ running = <<>> /\ hooks = <<>> /\ posted = {}
    /\ bound = [i \in Callee \cup {Own} |-> None]

-----------------------------------------------------------------------------
\* Lookup

Definers(s) == {i \in DOMAIN s : s[i] \in DOMAIN VerbOwner}

Nearest(s) == s[CHOOSE i \in Definers(s) : \A j \in Definers(s) : i <= j]

has_verb(o) == Definers(Line[o]) # {}

\* The object that defines the verb o has.
_lookup_verb(o) == Nearest(Line[o])

\* The instance that is found is told what it was found on.
bind(b, o) == [b EXCEPT ![o] = o]

Origin(i, b) == _lookup_verb(IF i = Own THEN b[Own] ELSE i)

-----------------------------------------------------------------------------
\* The caller stack

override_caller(who, this, origin) ==
    /\ caller' = who
    /\ stack' = Append(stack, [this |-> this, origin |-> origin, caller |-> who, previous |-> caller])

pop_caller ==
    /\ stack # <<>>
    /\ caller' = stack[Len(stack)].previous
    /\ stack' = SubSeq(stack, 1, Len(stack) - 1)

\* The verb that runs: above it there are but the blocks it has opened.
IsTop(i) == running[i].is = "verb" /\ \A j \in DOMAIN running : j > i => running[j].is = "block"

Top == CHOOSE i \in DOMAIN running : IsTop(i)

AtWork == phase = "working" /\ running # <<>>

\* It has looked a verb up: it is no longer early.
Later == IF running = <<>> THEN running ELSE [running EXCEPT ![Top].early = FALSE]

LookUp == running' = Later

\* Verb.__call__: the instance i, bound by b.
Verb_call(i, b, by) ==
    /\ Len(running) < MaxFrames
    /\ bound' = b
    /\ override_caller(VerbOwner[Origin(i, b)], b[i], Origin(i, b))
    /\ running' = Append(Later, [is |-> "verb", inst |-> i, this |-> b[i], origin |-> Origin(i, b),
                                 as |-> VerbOwner[Origin(i, b)], by |-> by, early |-> TRUE])

-----------------------------------------------------------------------------
\* Tasks begin

parse_command(p) ==
    /\ phase = "idle"
    /\ phase' = "working"
    /\ job' = [caller |-> p, player |-> p, back |-> None, typed |-> TRUE, reply |-> FALSE]
    /\ caller' = p
    /\ UNCHANGED <<stack, running, bound, hooks, posted>>

\* Each fragment of a line has a verb of its own, found by the parser.
interpret_one(o) ==
    /\ phase = "working" /\ running = <<>> /\ job.typed
    /\ has_verb(o)
    /\ Verb_call(Own, [bound EXCEPT ![Own] = o], "call")
    /\ UNCHANGED <<phase, job, hooks, posted>>

\* do_command, huh, turnfunc: what the command calls besides.
Surrounding(o) ==
    /\ phase = "working" /\ running = <<>> /\ job.typed
    /\ has_verb(o)
    /\ Verb_call(o, bind(bound, o), "call")
    /\ UNCHANGED <<phase, job, hooks, posted>>

\* The task invoke_verb.  Without a player the caller is the player, too.
invoke_verb(c) ==
    /\ phase = "idle" /\ c \in posted /\ has_verb(c.this)
    /\ phase' = "working"
    /\ posted' = posted \ {c}
    /\ job' = [caller |-> c.caller, player |-> IF c.player = None THEN c.caller ELSE c.player,
               back |-> c.back, typed |-> FALSE, reply |-> c.reply]
    /\ bound' = [bound EXCEPT ![Own] = c.this]
    /\ LET origin == _lookup_verb(c.this)
       IN /\ caller' = VerbOwner[origin]
          /\ stack' = <<[this |-> c.this, origin |-> origin, caller |-> VerbOwner[origin], previous |-> c.caller]>>
          /\ running' = <<[is |-> "verb", inst |-> Own, this |-> c.this, origin |-> origin,
                           as |-> VerbOwner[origin], by |-> "call", early |-> TRUE]>>
    /\ UNCHANGED hooks

-----------------------------------------------------------------------------
\* What a verb does

\* this.verb(), o.verb(), o.invoke_verb(...)
CallVerb(o) ==
    /\ AtWork /\ has_verb(o)
    /\ Verb_call(o, bind(bound, o), "call")
    /\ UNCHANGED <<phase, job, hooks, posted>>

PassedBy == IF running[Top].early THEN "early" ELSE "pass"

\* The first parent of who defines the running verb that has the verb, too.
IsNext(parent) ==
    LET ps == Parents[running[Top].origin]
    IN \E i \in DOMAIN ps : parent = ps[i] /\ has_verb(parent) /\ \A j \in 1..(i - 1) : ~ has_verb(ps[j])

\* Mutant of passthrough: the parent's verb runs as the parent's.
PassthroughUnbound ==
    /\ AtWork
    /\ \E parent \in Callee : IsNext(parent) /\ Verb_call(parent, bind(bound, parent), PassedBy)
    /\ UNCHANGED <<phase, job, hooks, posted>>

\* The parent's verb, bound as this one is bound now.
passthrough ==
    /\ AtWork
    /\ \E parent \in Callee :
          IsNext(parent) /\ Verb_call(parent, [bound EXCEPT ![parent] = bound[running[Top].inst]], PassedBy)
    /\ UNCHANGED <<phase, job, hooks, posted>>

\* with set_task_perms(who): wizards' verbs and wizards' sessions may.
set_task_perms(who) ==
    /\ AtWork /\ Len(running) < MaxFrames
    /\ {caller, job.player} \cap Wizards # {}
    /\ override_caller(who, None, None)
    /\ running' = Append(running, [is |-> "block", inst |-> None, this |-> None, origin |-> None,
                                   as |-> who, by |-> "with", early |-> FALSE])
    /\ UNCHANGED <<phase, job, bound, hooks, posted>>

\* The bound on scheduled calls leaves room for another.
Slots == Cardinality(posted) + Len(hooks) + (IF job.back = None THEN 0 ELSE 1) < MaxPosted

\* invoke(verb=o.get_verb(...), callback=back.get_verb(...))
invoke_later(o, back) ==
    /\ AtWork /\ has_verb(o)
    /\ Slots
    /\ posted' = posted \cup {[caller |-> caller, player |-> job.player, this |-> o, back |-> back, reply |-> job.reply]}
    /\ bound' = IF back = None THEN bind(bound, o) ELSE bind(bind(bound, o), back)
    /\ LookUp
    /\ UNCHANGED <<phase, job, caller, stack, hooks>>

\* A save moves something: a verb of the room, looked up now, is called at commit.
save(o) ==
    /\ AtWork /\ has_verb(o) /\ Slots
    /\ hooks' = Append(hooks, [inst |-> o, caller |-> caller, player |-> job.player])
    /\ bound' = bind(bound, o)
    /\ LookUp
    /\ UNCHANGED <<phase, job, caller, stack, posted>>

-----------------------------------------------------------------------------
\* Calls end

Leave == pop_caller /\ running' = SubSeq(running, 1, Len(running) - 1)

\* The top-most verb returns, or the block in it is at its end.
Return == AtWork /\ Leave /\ UNCHANGED <<phase, job, bound, hooks, posted>>

\* An exception: an error, a permission that is missing, the time limit.
Raise == AtWork /\ phase' = "raising" /\ UNCHANGED <<job, caller, stack, running, bound, hooks, posted>>

\* Mutant of Unwind: only what returns restores the caller.
UnwindAlone ==
    /\ phase = "raising" /\ running # <<>>
    /\ running' = SubSeq(running, 1, Len(running) - 1)
    /\ UNCHANGED <<phase, job, caller, stack, bound, hooks, posted>>

\* A verb or a block does not catch it.
Unwind == phase = "raising" /\ running # <<>> /\ Leave /\ UNCHANGED <<phase, job, bound, hooks, posted>>

\* A verb does.
Catch ==
    /\ phase = "raising" /\ running # <<>>
    /\ phase' = "working"
    /\ UNCHANGED <<job, caller, stack, running, bound, hooks, posted>>

\* Mutant of Hooked: the hooks ask the context for the player when it is gone.
HookedAfterwards ==
    {[caller |-> hooks[i].caller, player |-> None, this |-> bound[hooks[i].inst], back |-> None,
      reply |-> job.reply] : i \in DOMAIN hooks}

\* The hooks were told caller and player; the object is asked for now.
Hooked ==
    {[caller |-> hooks[i].caller, player |-> hooks[i].player, this |-> bound[hooks[i].inst], back |-> None,
      reply |-> job.reply] : i \in DOMAIN hooks}

\* The result, to the callback, if there was no exception; without the player.
Reply ==
    IF phase = "working" /\ job.back # None
    THEN {[caller |-> job.caller, player |-> None, this |-> job.back, back |-> None, reply |-> TRUE]} ELSE {}

\* The task ends.  An exception has been reported, and the transaction commits
\* all the same.
Commit ==
    /\ phase # "idle" /\ running = <<>>
    /\ posted' = posted \cup Hooked \cup Reply
    /\ phase' = "idle" /\ job' = NoJob /\ caller' = None
    /\ bound' = [i \in Callee \cup {Own} |-> None]
    /\ hooks' = <<>>
    /\ UNCHANGED <<stack, running>>

CallNext ==
    \/ \E p \in Typists : parse_command(p)
    \/ \E o \in Called : interpret_one(o) \/ Surrounding(o) \/ CallVerb(o) \/ save(o)
    \/ \E c \in posted : invoke_verb(c)
    \/ passthrough
    \/ \E who \in Assumed : set_task_perms(who)
    \/ \E o \in Called, back \in Replies \cup {None} : invoke_later(o, back)
    \/ Return \/ Raise \/ Unwind \/ Catch \/ Commit

CallSpec == CallInit /\ [][CallNext]_callVars

-----------------------------------------------------------------------------
CallsTypeOK ==
    /\ phase \in {"idle", "working", "raising"}
    /\ IF phase = "idle" THEN job = NoJob ELSE job \in Task
    /\ caller \in Runner \cup {None}
    /\ stack \in Seq(Frame) /\ running \in Seq(Activation)
    /\ bound \in [Callee \cup {Own} -> Callee \cup {None}]
    /\ hooks \in Seq(Hook)
    /\ posted \subseteq Call

\* Who the code that runs now answers to: the owner of the verb, or the one it
\* has named in the innermost block; between verbs, the task's own caller.
InForce ==
    IF running = <<>> THEN job.caller
    ELSE LET e == running[Len(running)] IN IF e.is = "block" THEN e.as ELSE VerbOwner[e.origin]

\* After any calls, blocks, exceptions and catches the rights in force are those
\* of the verb that runs: none are left over and none are lost.
CallerIsRestored == caller = InForce

\* current_provenance: what a message is tagged with.
current_provenance ==
    IF stack = <<>> THEN [origin |-> None, owner |-> None]
    ELSE [origin |-> stack[Len(stack)].this, owner |-> stack[Len(stack)].caller]

\* A message is tagged with the object of the verb that prints it and with whose
\* rights it has; in a block, with those and no object.
MessagesAreTagged ==
    running # <<>> => current_provenance =
        [origin |-> IF running[Len(running)].is = "verb" THEN running[Top].this ELSE None, owner |-> InForce]

\* passthrough keeps `this', as long as the verb has not looked up another one
\* first, which may be the same cached instance, and bind it to something else.
ThisIsKept ==
    \A i, j \in DOMAIN running :
        /\ i < j /\ running[i].is = "verb" /\ running[j].by = "early"
        /\ \A k \in DOMAIN running : i < k /\ k < j => running[k].is = "block"
        => running[j].this = running[i].this

\* The player stays the one who typed the line, through all the tasks that come
\* of it, except where a result is sent to a callback.
PlayerStays == phase # "idle" => job.player \in Typists \/ job.reply

CallsAreAttributed == CallerIsRestored /\ MessagesAreTagged /\ ThisIsKept /\ PlayerStays
=============================================================================
