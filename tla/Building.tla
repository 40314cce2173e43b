------------------------------ MODULE Building ------------------------------
(***************************************************************************)
(* The verbs of builders that connect rooms, lock things and move them:    *)
(* moo/bootstrap/default/verbs/builder and room.  New rooms and exits are  *)
(* taken from the objects that are not yet in w.made; a command that needs *)
(* more of them than there are is not taken.  The builder's quota lasts.   *)
(***************************************************************************)
EXTENDS World

\* The objects a command may create.
Spare(w, class) == {o \in Object \ w.made : IsA(o, class)}

Next_(w, class) == CHOOSE o \in Spare(w, class) : TRUE

\* sdk.lookup: any object of that name, else what the pronoun means.
lookup(w, caller, name) ==
    LET named == {o \in w.made : is_named(w, o, name)}
    IN IF named # {} THEN named ELSE {OrElse(get_pronoun_object(w, caller, name), Absent)}

\* get_dobj(lookup=True), get_pobj(prep, lookup=True)
lookup_dobj(w, parse) ==
    IF parse.dobj # Nil THEN {parse.dobj}
    ELSE IF has_dobj_str(parse) THEN lookup(w, parse.caller, parse.dobjStr) ELSE {Absent}

lookup_pobj(w, parse, prep) ==
    LET records == Records(parse, prep)
    IN CASE records = <<>> -> {Absent}
         [] Len(records) > 1 -> {Ambiguous}
         [] OTHER -> IF records[1].obj # Nil THEN {records[1].obj}
                     ELSE lookup(w, parse.caller, records[1].name)

-----------------------------------------------------------------------------
\* @lock, @unlock

at_lock(w, parse) ==
    LET key == parse_keyexp(get_pobj_str(parse, "with"))
    IN IF get_dobj(parse) = Absent \/ ~ has_pobj_str(parse, "with") THEN Error(w)
       ELSE IF key = BadKey THEN Error(w) ELSE Done([w EXCEPT !.key[parse.dobj] = key])

at_unlock(w, parse) ==
    IF get_dobj(parse) = Absent THEN Error(w) ELSE Done([w EXCEPT !.key[parse.dobj] = NoKey])

-----------------------------------------------------------------------------
\* @alias

\* room.match_object: what is in the room, else what the player has.
match_object(w, p, name) ==
    LET here == Find(w, w.loc[p], name)
        found == TheOne(IF here # {} THEN here ELSE Find(w, p, name))
    IN IF found = Nil THEN Absent ELSE found

\* What is neither here nor held is looked up everywhere.
at_alias(w, parse) ==
    LET here == match_object(w, parse.caller, parse.dobjStr)
    IN IF ~ has_dobj_str(parse) THEN {Error(w)}
       ELSE {IF Failed(o) \/ ~ has_pobj_str(parse, "as") THEN Error(w)
             ELSE Done([w EXCEPT !.alias[o] = @ \cup {get_pobj_str(parse, "as")}]) :
                o \in IF here = Absent THEN lookup_dobj(w, parse) ELSE {here}}

-----------------------------------------------------------------------------
\* @move, teleport

\* `@move <name> here': the name is looked up everywhere.
MovedHere(w, parse) ==
    LET says(name) == name \o " here" = parse.dobjStr
        named == {o \in w.made : \E name \in NamesOf[o] \cup w.alias[o] : says(name)}
    IN IF named # {} THEN named
       ELSE {o \in w.made : says(Id(o)) \/ (o = parse.caller /\ says("me"))}

at_move(w, parse) ==
    IF has_pobj_str(parse, "at")
    THEN {IF parse.dobj = Nil \/ Failed(where) THEN Error(w) ELSE Whatever(moveto(w, parse.dobj, where))
             : where \in lookup_pobj(w, parse, "at")}
    ELSE IF MovedHere(w, parse) = {} THEN {Error(w)}
    ELSE {Whatever(moveto(w, o, w.loc[parse.caller])) : o \in MovedHere(w, parse)}

\* A room that does not accept the builder is reported, not raised.
at_teleport(w, parse) ==
    LET dests == IF has_pobj_str(parse, "at") THEN lookup_pobj(w, parse, "at") ELSE lookup_dobj(w, parse)
    IN {CASE Failed(d) -> Error(w)
          [] ~ Failed(d) /\ d \notin Room -> Done(w)
          [] OTHER -> Done(moveto(w, parse.caller, d).w) : d \in dests}

-----------------------------------------------------------------------------
\* @dig, @tunnel, @burrow

\* direction_argument: `up' and `down' are prepositions as well.
direction_argument(parse) ==
    LET particles == Present(parse) \cap {"up", "down"}
    IN CASE has_dobj_str(parse) -> parse.dobjStr
         [] ~ has_dobj_str(parse) /\ particles # {} -> IF "up" \in particles THEN "up" ELSE "down"
         [] OTHER -> IF Len(parse.words) > 1 THEN parse.words[2] ELSE ""

OPPOSITE_DIRECTIONS(direction) ==
    CASE direction = "north" -> "south" [] direction = "south" -> "north"
      [] direction = "east" -> "west" [] direction = "west" -> "east"
      [] direction = "up" -> "down" [] direction = "down" -> "up"
      [] direction = "northeast" -> "southwest" [] direction = "southwest" -> "northeast"
      [] direction = "northwest" -> "southeast" [] direction = "southeast" -> "northwest"
      [] direction = "ne" -> "sw" [] direction = "sw" -> "ne"
      [] direction = "nw" -> "se" [] direction = "se" -> "nw" [] OTHER -> Nil

\* create() and add_alias()
Made(w, o, name) == [w EXCEPT !.made = @ \cup {o}, !.alias[o] = @ \cup {name}]

\* Mutant of Wired: the exit is listed where it leads to.
WiredBackwards(w, door, source, dest) ==
    [w EXCEPT !.dest[door] = dest, !.exits[dest] = Append(@, door)]

\* The properties of an exit and room.add_exit; nothing reads the entrances.
Wired(w, door, source, dest) ==
    [w EXCEPT !.dest[door] = dest, !.exits[source] = Append(@, door)]

at_dig(w, parse) ==
    LET direction == direction_argument(parse)
        source == w.loc[parse.caller]
        through == \E i \in DOMAIN parse.iobjs : parse.iobjs[i].prep = "through" /\ parse.iobjs[i].obj # Nil
        old == get_pobj(parse, "through")
        door == IF through THEN old ELSE Next_(w, "$exit")
        named == Made(w, door, direction)
        room == Next_(named, "$room")
        dests == IF parse.words[1] = "@dig" THEN {room} ELSE lookup_pobj(named, parse, "at")
        ready == IF parse.words[1] = "@dig" THEN Made(named, room, get_pobj_str(parse, "at")) ELSE named
    IN IF direction = "" \/ match_exit(w, source, direction) # Nil THEN {Done(w)}
       ELSE IF through /\ old = Ambiguous THEN {Error(w)}
       ELSE IF through /\ ~ IsA(old, "$exit") THEN {Done(w)}
       ELSE IF ~ through /\ Spare(w, "$exit") = {} THEN {}
       ELSE IF ~ has_pobj_str(parse, "at") THEN {Error(named)}
       ELSE IF parse.words[1] = "@dig" /\ Spare(w, "$room") = {} THEN {}
       ELSE {IF Failed(dest) THEN Error(named)
             ELSE IF dest \in Room THEN Done(Wired(ready, door, source, dest))
             ELSE Error(Wired(ready, door, source, dest)) : dest \in dests}

at_burrow(w, parse) ==
    LET p == parse.caller
        direction == direction_argument(parse)
        back == OPPOSITE_DIRECTIONS(direction)
        source == w.loc[p]
        door == Next_(w, "$exit")
        room == Next_(w, "$room")
        dug == Wired(Made(Made(w, door, direction), room, get_pobj_str(parse, "at")), door, source, room)
        entered == moveto(dug, p, room)
        return == Next_(entered.w, "$exit")
    IN IF ~ has_pobj_str(parse, "at") THEN {Error(w)}
       ELSE IF match_exit(w, source, direction) # Nil THEN {Done(w)}
       ELSE IF Cardinality(Spare(w, "$exit")) < 2 \/ Spare(w, "$room") = {} THEN {}
       ELSE IF entered.raised \/ back = Nil THEN {Whatever(entered)}
       ELSE {Done(Wired(Made(entered.w, return, back), return, room, source))}

\* room.@add-exit
at_add_exit(w, parse, this) ==
    CASE parse.dobj = Nil -> Error(w)
      [] parse.dobj # Nil /\ ~ IsA(parse.dobj, "$exit") -> Done(w)
      [] OTHER -> Done([w EXCEPT !.exits[this] = Append(@, parse.dobj)])

-----------------------------------------------------------------------------
\* sdk.escape.check_room_connectivity: a way out, and a way back from each exit.

one_way_exits(w, room) ==
    {e \in ToSet(w.exits[room]) :
        w.dest[e] # Nil /\ \A back \in ToSet(w.exits[w.dest[e]]) : w.dest[back] # room}

WellConnected(w, room) == w.exits[room] # <<>> /\ one_way_exits(w, room) = {}

=============================================================================
