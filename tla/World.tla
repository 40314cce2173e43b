------------------------------- MODULE World --------------------------------
(***************************************************************************)
(* The verbs of the default world that move and lock things, from          *)
(* moo/bootstrap/default/verbs, each as the world it leaves.  A world `w'  *)
(* has the locations and placements of objects and the properties the      *)
(* verbs set: open, key, open_key, seated_on, home, exits and dest.        *)
(* Verbs run in the task of one command; what they did before an exception *)
(* stays done, as parse_command catches it inside the transaction.         *)
(***************************************************************************)
EXTENDS Parser

CONSTANTS Owner,        \* Owner[o]
          Unfree,       \* the rooms whose free_entry is false
          Residents,    \* Residents[r]
          Surfaces,     \* Surfaces[o]: its surface_types, or every preposition
          PlayerStart   \* $player_start

IsA(o, class) == \E row \in Ancestors[o] : row.of = class

Player == {o \in Object : IsA(o, "$player")}
Room == {o \in Object : IsA(o, "$room")}

NotPlaced == [prep |-> Nil, on |-> Nil]
NoKey == <<"none">>
Unset == "unset"  \* the property does not exist

\* What a verb leaves: the world, whether it answered true, whether it raised.
Done(w) == [w |-> w, ok |-> TRUE, raised |-> FALSE]
Refused(w) == [w |-> w, ok |-> FALSE, raised |-> FALSE]
Error(w) == [w |-> w, ok |-> FALSE, raised |-> TRUE]

-----------------------------------------------------------------------------
\* $lock_utils

KeySymbols(text) == IF text \in DOMAIN KeyText THEN KeyText[text] ELSE <<text>>

BadKey == <<"ValueError">>

Pair(op, left, right) ==
    IF BadKey \in {left, right} THEN BadKey ELSE <<op, left, right>>

\* parse_keyexp: parentheses are stripped and never matched; `&&' splits
\* first, then `||', each at its last occurrence.
RECURSIVE ParseSymbols(_)
ParseSymbols(s) ==
    LET last(op) == Max({0} \cup {i \in DOMAIN s : s[i] = op})
        split(op) == Pair(op, ParseSymbols(SubSeq(s, 1, last(op) - 1)),
                              ParseSymbols(SubSeq(s, last(op) + 1, Len(s))))
    IN CASE last("&&") # 0 -> split("&&")
         [] last("||") # 0 /\ last("&&") = 0 -> split("||")
         [] OTHER ->
              CASE Len(s) = 1 /\ (\E o \in Object : Id(o) = s[1]) ->
                        <<"#", CHOOSE o \in Object : Id(o) = s[1]>>
                [] Len(s) > 1 /\ s[1] = "!" ->
                        LET operand == ParseSymbols(Tail(s))
                        IN IF operand = BadKey THEN BadKey ELSE <<"!", operand>>
                [] Len(s) = 2 /\ s[1] = "?" /\ (\E o \in Object : Id(o) = s[2]) ->
                        <<"?", CHOOSE o \in Object : Id(o) = s[2]>>
                [] OTHER -> BadKey

parse_keyexp(text) == ParseSymbols(SelectSeq(KeySymbols(text), LAMBDA x : x \notin {"(", ")"}))

\* Object.contains
RECURSIVE Holds(_, _, _)
Holds(w, x, y) == w.loc[y] # Nil /\ (w.loc[y] = x \/ Holds(w, x, w.loc[y]))

\* eval_key: an object without a key makes `? object' false.
RECURSIVE eval_key(_, _, _)
eval_key(w, key, who) ==
    CASE key[1] = "#" -> key[2] = who \/ Holds(w, who, key[2])
      [] key[1] = "&&" -> eval_key(w, key[2], who) /\ eval_key(w, key[3], who)
      [] key[1] = "||" -> eval_key(w, key[2], who) \/ eval_key(w, key[3], who)
      [] key[1] = "!" -> ~ eval_key(w, key[2], who)
      [] key[1] = "?" -> eval_key(w, w.key[key[2]], who)
      [] OTHER -> FALSE

is_unlocked_for(w, o, who) == w.key[o] = NoKey \/ eval_key(w, w.key[o], who)

is_openable_by(w, box, who) == w.openKey[box] = NoKey \/ eval_key(w, w.openKey[box], who)

-----------------------------------------------------------------------------
\* Moving.

\* room.accept, player.accept, container.accept, root_class.accept.
RoomAccepts(w, room, what) ==
    /\ is_unlocked_for(w, room, what)
    /\ room \notin Unfree \/ Owner[what] = Owner[room] \/ what \in Residents[room]

accept(w, where, what) ==
    \/ where \in Room /\ RoomAccepts(w, where, what)
    \/ (where \in Player \/ IsA(where, "$container")) /\ what \notin Player

\* A committed change of location queues the exitfunc of the room that was left.
Relocated(w, o, where) ==
    [w EXCEPT !.loc[o] = where,
              !.leaving = IF o \in Player /\ w.loc[o] # where /\ w.loc[o] \in Room
                          THEN [@ EXCEPT ![o] = @ + 1] ELSE @]

\* Mutant of RootMoveto: save() does not ask the destination.
RootMovetoUnasked(w, o, where) ==
    IF Holds(w, o, where) THEN Error(w) ELSE Done(Relocated(w, o, where))

\* root_class.moveto and the save() of the object.
RootMoveto(w, o, where) ==
    IF Holds(w, o, where) \/ (where # w.loc[o] /\ ~ accept(w, where, o))
    THEN Error(w) ELSE Done(Relocated(w, o, where))

\* What stands on a thing that is moved is no longer placed.
WithoutPlaced(w, o) ==
    [w EXCEPT !.placed = [x \in Object |-> IF @[x].on = o /\ w.loc[x] = w.loc[o] THEN NotPlaced ELSE @[x]]]

ThingMoveto(w, o, where) ==
    LET cleared == WithoutPlaced(w, o)
    IN IF is_unlocked_for(cleared, where, o) THEN RootMoveto(cleared, o, where) ELSE Refused(cleared)

\* furniture.moveto, thing.moveto, root_class.moveto: the nearest wins; no
\* player of these worlds is a wizard.
moveto(w, o, where) ==
    CASE IsA(o, "$furniture") -> Refused(w)
      [] IsA(o, "$thing") /\ ~ IsA(o, "$furniture") -> ThingMoveto(w, o, where)
      [] OTHER -> RootMoveto(w, o, where)

Unplaced(w, o) == [w EXCEPT !.placed[o] = NotPlaced]

\* The caller goes on, whatever moveto answered.
Whatever(result) == IF result.raised THEN Error(result.w) ELSE Done(result.w)

-----------------------------------------------------------------------------
\* $thing

thing_take(w, parse, this) ==
    LET p == parse.caller
        target == get_pobj(parse, "from")
        result == moveto(w, this, p)
    IN IF has_pobj_str(parse, "from") /\ target = Ambiguous THEN Error(w)
       ELSE IF \/ has_pobj_str(parse, "from")
                  /\ (target = Absent \/ w.placed[this].prep = Nil \/ w.placed[this].on # target)
               \/ w.loc[this] = p
       THEN Done(w)
       ELSE IF result.ok THEN Done(Unplaced(result.w, this)) ELSE result

thing_drop(w, parse, this) ==
    LET p == parse.caller
        result == moveto(w, this, w.loc[p])
    IN CASE w.loc[this] # p \/ ~ accept(w, p, this) -> Done(w)
         [] w.loc[this] = p /\ accept(w, p, this) /\ result.raised -> result
         [] OTHER -> Done(Unplaced(result.w, this))

thing_place(w, parse, this) ==
    LET given == SelectSeq(PLACEMENT_PREPS, LAMBDA prep : has_pobj_str(parse, prep))
        prep == given[1]
        target == get_pobj(parse, prep)
        result == IF w.loc[this] = parse.caller THEN moveto(w, this, w.loc[parse.caller]) ELSE Done(w)
    IN IF given = <<>> THEN Error(w)
       ELSE IF Failed(target) THEN Error(w)
       ELSE IF target = this \/ prep \notin Surfaces[target] THEN Done(w)
       ELSE IF result.raised THEN result
       ELSE Done([result.w EXCEPT !.placed[this] = [prep |-> prep, on |-> target]])

-----------------------------------------------------------------------------
\* $container

container_open(w, parse, this) ==
    Done(IF ~ w.open[this] /\ is_openable_by(w, this, parse.caller)
         THEN [w EXCEPT !.open[this] = TRUE] ELSE w)

container_close(w, parse, this) ==
    Done(IF w.open[this] /\ is_openable_by(w, this, parse.caller)
         THEN [w EXCEPT !.open[this] = FALSE] ELSE w)

container_put(w, parse, this) ==
    IF ~ (has_pobj_str(parse, "in") \/ has_pobj_str(parse, "on")) \/ get_dobj(parse) = Absent
    THEN Error(w)
    ELSE IF w.open[this] THEN Whatever(moveto(w, parse.dobj, this)) ELSE Done(w)

\* The object the parser found, else any one inside of that name.
container_take(w, parse, this) ==
    LET chosen == IF parse.dobj # Nil THEN {parse.dobj} ELSE Find(w, this, parse.dobjStr)
    IN IF ~ w.open[this] \/ \A o \in chosen : w.loc[o] # this THEN {Done(w)}
       ELSE {Whatever(moveto(w, o, parse.caller)) : o \in chosen}

container_lock(w, parse, this) ==
    LET key == parse_keyexp(get_pobj_str(parse, "with"))
    IN IF ~ has_pobj_str(parse, "with") THEN Error(w)
       ELSE IF key = BadKey THEN Error(w) ELSE Done([w EXCEPT !.openKey[this] = key])

container_unlock(w, parse, this) == Done([w EXCEPT !.openKey[this] = NoKey])

-----------------------------------------------------------------------------
\* $furniture and $player

furniture_sit(w, parse, this) ==
    Done(IF w.seat[parse.caller] = Unset THEN [w EXCEPT !.seat[parse.caller] = this] ELSE w)

player_stand(w, parse) ==
    LET p == parse.caller
        seat == IF w.seat[p] = Unset THEN Nil ELSE w.seat[p]
    IN IF parse.dobj \notin {Nil, seat} THEN IF IsA(parse.dobj, "$furniture") THEN Done(w) ELSE Error(w)
       ELSE IF seat = Nil THEN Done(w) ELSE Done([w EXCEPT !.seat[p] = Nil])

player_give(w, parse) ==
    LET recipient == get_pobj(parse, "at")  \* `to' is a name of `at'
    IN IF ~ has_pobj_str(parse, "at") \/ ~ has_dobj_str(parse) THEN Done(w)
       ELSE IF Failed(recipient) THEN Error(w)
       ELSE IF recipient = parse.caller THEN Done(w)
       ELSE IF get_dobj(parse) = Absent THEN Error(w)
       ELSE Whatever(moveto(w, parse.dobj, recipient))

\* sdk.escape.guaranteed_moveto
guaranteed_moveto(w, o, where) == Relocated(w, o, where)

player_home(w, parse) ==
    LET p == parse.caller
        homed == IF w.home[p] = Nil THEN [w EXCEPT !.home[p] = PlayerStart] ELSE w
    IN Done(IF w.home[p] = w.loc[p] THEN w ELSE guaranteed_moveto(homed, p, homed.home[p]))

at_sethome(w, parse) ==
    LET p == parse.caller
    IN Done(IF accept(w, w.loc[p], p) THEN [w EXCEPT !.home[p] = w.loc[p]] ELSE w)

\* room.disfunc: a player who disconnects goes home, if home accepts.
disfunc(w, p) ==
    LET home == IF w.home[p] = Nil THEN PlayerStart ELSE w.home[p]
    IN IF w.loc[p] = home THEN Done(w) ELSE moveto(w, p, home)

\* room.exitfunc, a task of its own: who leaves a room no longer sits.
exitfunc(w, p) ==
    [w EXCEPT !.leaving[p] = @ - 1, !.seat[p] = IF @ = Unset THEN Unset ELSE Nil]

-----------------------------------------------------------------------------
\* $exit and $room

\* room.match_exit: no exit, an exit, or a list of them.
match_exit(w, room, name) ==
    LET named == SelectSeq(w.exits[room], LAMBDA e : is_named(w, e, name))
    IN CASE named = <<>> -> Nil [] Len(named) = 1 -> named[1] [] OTHER -> Ambiguous

\* Mutant of exit_move: only a room with free entry minds the lock of the exit.
ExitMoveBlessed(w, e, p) ==
    LET dest == w.dest[e]
    IN IF dest = Nil THEN Error(w)
       ELSE IF dest \notin Unfree /\ ~ is_unlocked_for(w, e, p) THEN Refused(w)
       ELSE IF dest \notin Room THEN Error(w)
       ELSE IF dest \notin Unfree \/ accept(w, dest, p) THEN moveto(w, p, dest) ELSE Refused(w)

\* exit.invoke and exit.move.  accept does not read the blessing, and what is
\* not a room cannot give one.
exit_move(w, e, p) ==
    LET dest == w.dest[e]
    IN IF dest = Nil THEN Error(w)
       ELSE IF ~ is_unlocked_for(w, e, p) THEN Refused(w)
       ELSE IF dest \notin Room THEN Error(w)
       ELSE IF dest \notin Unfree \/ accept(w, dest, p) THEN moveto(w, p, dest) ELSE Refused(w)

\* room.go: every further word is an exit of the room the player is in by then.
RECURSIVE GoAlong(_, _, _)
GoAlong(w, p, words) ==
    IF words = <<>> THEN Done(w)
    ELSE LET e == match_exit(w, w.loc[p], Head(words))
             result == exit_move(w, e, p)
         IN CASE e = Nil -> GoAlong(w, p, Tail(words))
              [] e = Ambiguous -> Error(w)
              [] OTHER -> IF result.raised THEN result ELSE GoAlong(result.w, p, Tail(words))

room_go(w, parse) == GoAlong(w, parse.caller, Tail(parse.words))

\* room.n*orth and the others: the exit of the room that has the verb.
Through(w, room, name, p) ==
    LET e == match_exit(w, room, name)
    IN IF e \in {Nil, Ambiguous} THEN Done(w) ELSE Whatever(exit_move(w, e, p))

room_cardinals(w, parse, this) == Through(w, this, parse.words[1], parse.caller)

\* Mutant of room_lock: a key that does not parse is set as well.
RoomLockUnparsed(w, parse) ==
    LET door == match_exit(w, w.loc[parse.caller], parse.dobjStr)
        key == IF has_pobj_str(parse, "with") THEN parse_keyexp(get_pobj_str(parse, "with")) ELSE <<"#", door>>
    IN IF door = Ambiguous THEN Error(w)
       ELSE IF door = Nil THEN Done(w)
       ELSE IF parse.words[1] = "unlock" THEN Done([w EXCEPT !.key[door] = NoKey])
       ELSE Done(IF w.key[door] = NoKey THEN [w EXCEPT !.key[door] = key] ELSE w)

\* room.lock, room.unlock
room_lock(w, parse) ==
    LET door == match_exit(w, w.loc[parse.caller], parse.dobjStr)
        key == IF has_pobj_str(parse, "with") THEN parse_keyexp(get_pobj_str(parse, "with")) ELSE <<"#", door>>
    IN IF door = Ambiguous THEN Error(w)
       ELSE IF door = Nil THEN Done(w)
       ELSE IF parse.words[1] = "unlock" THEN Done([w EXCEPT !.key[door] = NoKey])
       ELSE Done(IF w.key[door] = NoKey /\ key # BadKey THEN [w EXCEPT !.key[door] = key] ELSE w)

CARDINAL_ALIASES(verb) ==
    CASE verb = "n" -> "north" [] verb = "s" -> "south" [] verb = "e" -> "east" [] verb = "w" -> "west"
      [] verb = "nw" -> "northwest" [] verb = "ne" -> "northeast"
      [] verb = "sw" -> "southwest" [] verb = "se" -> "southeast" [] OTHER -> verb

\* room.huh, room.huh2: a command that is no verb may be the name of an exit.
room_huh(w, parse) ==
    Through(w, w.loc[parse.caller], CARDINAL_ALIASES(parse.words[1]), parse.caller)

=============================================================================
