------------------------------ MODULE Commands ------------------------------
(***************************************************************************)
(* Players type lines.  Each is parsed, its verb is found and runs in one  *)
(* task; the exitfunc of a room that a player left runs in another, once   *)
(* the first has committed.  Mail, the agents, the long listings, the      *)
(* rights to one object and calls among verbs are scenes of their own.     *)
(***************************************************************************)
EXTENDS Building, Mail, Agents, AccessControl, Invocation

CONSTANTS
    Scenes,      \* Scenes[s]: [lines: pairs <<player, words>>, start: a world, part]
    MaxLeaving,  \* bound on the exitfuncs of a player that wait
    MaxExits     \* bound on the exits of a room

VARIABLES scene, world

vars == <<scene, world, mailVars, agentVars, accessVars, callVars>>

\* What a scene is about: "lines", "mail", "agents", "batches", "access"
\* or "calls".
Part == Scenes[scene].part

-----------------------------------------------------------------------------
\* The verbs of the default world, read from the first lines of their files.
\* A verb's option --ispec given again replaces what it said before.

VerbOf(on, names, dspec, ispecs, does) ==
    [on |-> on, names |-> names, dspec |-> dspec, ispecs |-> ispecs, does |-> does]

ISpec(prep, spec) == [prep |-> prep, spec |-> spec]

WorldVerbs ==
  << VerbOf("$thing", {"throw", "drop"}, "this", {}, "drop"),
     VerbOf("$thing", {"place"}, "this", {ISpec("over", "any")}, "place"),
     VerbOf("$thing", {"take"}, "this", {ISpec("from", "any")}, "take"),
     VerbOf("$container", {"@lock_for_open", "lock_for_open"}, "this", {ISpec("with", "any")}, "lock_for_open"),
     VerbOf("$container", {"@unlock_for_open", "unlock_for_open"}, "this", {}, "unlock_for_open"),
     VerbOf("$container", {"close"}, "this", {}, "close"),
     VerbOf("$container", {"insert", "put"}, "any", {ISpec("on", "this")}, "put"),
     VerbOf("$container", {"open"}, "this", {}, "open"),
     VerbOf("$container", {"get", "remove", "take"}, "any", {ISpec("from", "this")}, "take out"),
     VerbOf("$furniture", {"sit"}, "this", {}, "sit"),
     VerbOf("$player", {"gi", "giv", "give", "ha", "han", "hand"}, "any", {ISpec("at", "any")}, "give"),
     VerbOf("$player", {"g", "ge", "get", "take"}, "this", {}, "take player"),
     VerbOf("$player", {"home"}, "none", {}, "home"),
     VerbOf("$player", {"stand"}, "either", {}, "stand"),
     VerbOf("$player", {"@sethome"}, "none", {}, "@sethome"),
     VerbOf("$room", {"n", "no", "nor", "nort", "north", "e", "ea", "eas", "east", "s", "so", "sou",
                      "sout", "south", "w", "we", "wes", "west", "northwest", "northeast",
                      "southwest", "southeast", "up", "down"}, "none", {}, "cardinals"),
     VerbOf("$room", {"go"}, "any", {}, "go"),
     VerbOf("$room", {"lock", "unlock"}, "any", {ISpec("with", "any")}, "lock"),
     VerbOf("$room", {"@add-exit"}, "any", {}, "@add-exit"),
     VerbOf("$builder", {"@alias", "add"}, "any", {ISpec("as", "any")}, "@alias"),
     VerbOf("$builder", {"@burrow"}, "either", {ISpec("at", "any")}, "@burrow"),
     VerbOf("$builder", {"@dig", "@tunnel"}, "either", {ISpec("at", "any")}, "@dig"),
     VerbOf("$builder", {"@lock"}, "any", {ISpec("with", "any")}, "@lock"),
     VerbOf("$builder", {"@move"}, "any", {ISpec("at", "any")}, "@move"),
     VerbOf("$builder", {"teleport"}, "any", {ISpec("at", "any")}, "teleport"),
     VerbOf("$builder", {"@unlock"}, "any", {}, "@unlock") >>

\* What a verb may leave of the world.
Perform(w, parse, this, does) ==
    CASE does = "drop" -> {thing_drop(w, parse, this)}
      [] does = "place" -> {thing_place(w, parse, this)}
      [] does = "take" -> {thing_take(w, parse, this)}
      [] does = "lock_for_open" -> {container_lock(w, parse, this)}
      [] does = "unlock_for_open" -> {container_unlock(w, parse, this)}
      [] does = "open" -> {container_open(w, parse, this)}
      [] does = "close" -> {container_close(w, parse, this)}
      [] does = "put" -> {container_put(w, parse, this)}
      [] does = "take out" -> container_take(w, parse, this)
      [] does = "sit" -> {furniture_sit(w, parse, this)}
      [] does = "give" -> {player_give(w, parse)}
      [] does = "take player" -> {Done(w)}
      [] does = "home" -> {player_home(w, parse)}
      [] does = "stand" -> {player_stand(w, parse)}
      [] does = "@sethome" -> {at_sethome(w, parse)}
      [] does = "cardinals" -> {room_cardinals(w, parse, this)}
      [] does = "go" -> {room_go(w, parse)}
      [] does = "lock" -> {room_lock(w, parse)}
      [] does = "@add-exit" -> {at_add_exit(w, parse, this)}
      [] does = "@alias" -> at_alias(w, parse)
      [] does = "@burrow" -> at_burrow(w, parse)
      [] does = "@dig" -> at_dig(w, parse)
      [] does = "@lock" -> {at_lock(w, parse)}
      [] does = "@unlock" -> {at_unlock(w, parse)}
      [] does = "@move" -> at_move(w, parse)
      [] does = "teleport" -> at_teleport(w, parse)

\* A command without a verb goes to the room's huh.
Run(w, parse, found) ==
    IF Raises(parse) THEN {Error(w)}
    ELSE IF found = {} THEN {IF w.loc[parse.caller] \in Room THEN room_huh(w, parse) ELSE Error(w)}
    ELSE UNION {Perform(w, parse, c.this, Verbs[c.verb].does) : c \in found}

Execute(w, parse) == Run(w, parse, get_verb(w, parse))

_interpret_one(w, p, fragment) == Execute(w, Parse(w, p, Lex(fragment)))

\* An exception ends the line; what was done before it stays.
RECURSIVE InterpretAll(_, _, _)
InterpretAll(w, p, fragments) ==
    IF fragments = <<>> THEN {Done(w)}
    ELSE UNION {IF r.raised THEN {r} ELSE InterpretAll(r.w, p, Tail(fragments)) :
                    r \in _interpret_one(w, p, Head(fragments))}

interpret(w, p, line) == InterpretAll(w, p, split_command_fragments(line))

-----------------------------------------------------------------------------
Init ==
    /\ scene \in DOMAIN Scenes
    /\ world = Scenes[scene].start
    /\ MailInit
    /\ AgentsInit
    /\ AccessInit /\ (Part # "access" => kind = "object")
    /\ CallInit

Bounded(w) ==
    /\ \A p \in Player : w.leaving[p] <= MaxLeaving
    /\ \A r \in Room : Len(w.exits[r]) <= MaxExits

Lines == Scenes[scene].lines

\* parse_command
Type(p, line) ==
    /\ <<p, line>> \in Lines
    /\ \E r \in interpret(world, p, line) : world' = r.w /\ Bounded(r.w)
    /\ UNCHANGED <<scene, mailVars, agentVars, accessVars, callVars>>

\* The exitfunc a committed move has queued.
RunExitfunc(p) ==
    /\ world.leaving[p] > 0
    /\ world' = exitfunc(world, p)
    /\ UNCHANGED <<scene, mailVars, agentVars, accessVars, callVars>>

\* A player's connection ends.
FireDisfunc(p) ==
    /\ Part = "lines"
    /\ world.loc[p] \in Room
    /\ LET after == disfunc(world, p).w IN world' = after /\ Bounded(after)
    /\ UNCHANGED <<scene, mailVars, agentVars, accessVars, callVars>>

Correspond ==
    /\ Part = "mail"
    /\ MailNext
    /\ UNCHANGED <<scene, world, agentVars, accessVars, callVars>>

\* Agents come and go; their schedules tick, or long listings run meanwhile.
Act ==
    /\ Part \in {"agents", "batches"}
    /\ LifeNext \/ (Part = "agents" /\ ScheduleNext) \/ (Part = "batches" /\ BatchNext)
    /\ UNCHANGED <<scene, world, mailVars, accessVars, callVars>>

\* Rights to one subject are granted, denied and used.
Administer ==
    /\ Part = "access"
    /\ AccessNext
    /\ UNCHANGED <<scene, world, mailVars, agentVars, callVars>>

\* Verbs call each other, and others later.
CallEachOther ==
    /\ Part = "calls"
    /\ CallNext
    /\ UNCHANGED <<scene, world, mailVars, agentVars, accessVars>>

Next ==
    \/ \E l \in Lines : Type(l[1], l[2])
    \/ \E p \in Player : RunExitfunc(p) \/ FireDisfunc(p)
    \/ Correspond
    \/ Act
    \/ Administer
    \/ CallEachOther

Spec == Init /\ [][Next]_vars

-----------------------------------------------------------------------------
\* The world, which stands still in the other scenes; a key that is set is one
\* that was parsed.
WorldTypeOK ==
    /\ \A o \in Object :
          /\ world.loc[o] \in Object \cup {Nil}
          /\ world.placed[o].prep \in ToSet(PLACEMENT_PREPS) \cup {Nil}
          /\ world.placed[o].on \in Object \cup {Nil}
          /\ BadKey \notin {world.key[o], world.openKey[o]}
          /\ world.dest[o] \in Object \cup {Nil}
    /\ \A p \in Player : world.seat[p] \in Object \cup {Nil, Unset} /\ world.home[p] \in Object \cup {Nil}
    /\ \A r \in Room : ToSet(world.exits[r]) \subseteq Object
    /\ Bounded(world)

\* Types.
CommandsTypeOK ==
    /\ Part = "lines" => WorldTypeOK
    /\ MailTypeOK
    /\ AgentsTypeOK
    /\ AccessTypeOK
    /\ CallsTypeOK

Near(p) == Contents(world, p) \cup (IF world.loc[p] = Nil THEN {} ELSE Contents(world, world.loc[p]))

Named(name, here) == {o \in here : is_named(world, o, name)}

\* A thing in an open container that its command names, and nothing else near
\* the player has that name or the container's, can be taken out, whatever
\* other containers and placed or hidden things are about: of all the verbs
\* called `take' the container's is found (parse.py:507, container/take.py).
ContainersYield ==
    Part = "lines" => \A box \in {b \in Object : IsA(b, "$container") /\ world.open[b]}, p \in Player :
        box \in Near(p) =>
            \A o \in Contents(world, box) : \A n \in NamesOf[o] \cup world.alias[o], c \in NamesOf[box] :
                /\ IsA(o, "$thing") /\ ~ IsA(o, "$furniture") /\ is_unlocked_for(world, p, o)
                /\ Named(c, Near(p)) = {box} /\ Named(n, Near(p) \cup {world.loc[p]}) = {}
                => \A r \in interpret(world, p, <<"take", n, "from", c>>) :
                      \E x \in Contents(world, box) : is_named(world, x, n) /\ r.w.loc[x] = p

\* Commands that take a player to a place without an exit.
Unguarded == {"home", "teleport", "@move", "@burrow"}

\* A command moves a player to another room only if that room accepts him, and
\* only by an exit that leads there and is not locked to him; only `home' goes
\* anywhere, and a builder's teleport, @move and @burrow need no exit.
LocksHold ==
    \A l \in Lines : split_command_fragments(l[2]) = <<l[2]>> /\ l[2][1] # "home" =>
        \A r \in interpret(world, l[1], l[2]), p \in Player :
            LET there == r.w.loc[p]
            IN there # world.loc[p] =>
                  /\ RoomAccepts(r.w, there, p)
                  /\ \/ l[2][1] \in Unguarded
                     \/ \E room \in Room : \E e \in ToSet(world.exits[room]) :
                           world.dest[e] = there /\ is_unlocked_for(world, e, p)

\* @burrow with a direction that has an opposite takes the builder to a room
\* that is connected both ways, and the opposite, typed bare or after `go',
\* takes him back to where he was if he may enter there.
BurrowLeadsBack ==
    \A l \in Lines : l[2][1] = "@burrow" =>
        LET p == l[1]
            source == world.loc[p]
            back(w) == OPPOSITE_DIRECTIONS(direction_argument(Parse(w, p, Lex(l[2]))))
        IN \A r \in interpret(world, p, l[2]) :
              r.w.made # world.made /\ ~ r.raised /\ back(world) # Nil =>
                 /\ r.w.loc[p] \in r.w.made \ world.made
                 /\ WellConnected(r.w, r.w.loc[p])
                 /\ RoomAccepts(r.w, source, p) =>
                       \E way \in {<<back(world)>>, <<"go", back(world)>>} :
                          \A again \in interpret(r.w, p, way) : again.w.loc[p] = source

=============================================================================
