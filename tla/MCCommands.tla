----------------------------- MODULE MCCommands -----------------------------
(***************************************************************************)
(* A small world for Commands, and the lines its players type.             *)
(***************************************************************************)
EXTENDS Commands

People == {"ann", "bob"}
Rooms == {"hall", "vault", "yard", "room8", "room9"}
Exits == {"gate", "back", "lane", "lawn", "exit6", "exit7", "exit8", "exit9"}
Containers == {"box", "bag"}
Things == {"coin", "dime", "key", "rug"}

MCObject == People \cup Rooms \cup Exits \cup Containers \cup Things \cup {"chair"}

Unmade == {"room8", "room9", "exit6", "exit7", "exit8", "exit9"}

MCNamesOf ==
    [o \in MCObject |->
        CASE o = "dime" -> {"dime", "coin"}
          [] o = "gate" -> {"gate", "north"} [] o = "back" -> {"south"}
          [] o = "lane" -> {"lane", "east"} [] o = "lawn" -> {"west"}
          [] o \in Unmade -> {}
          [] OTHER -> {o}]

Lineage(o) ==
    CASE o = "ann" -> <<o, "$builder", "$player", "$root">>
      [] o = "bob" -> <<o, "$player", "$root">>
      [] o \in Rooms -> <<o, "$room", "$root">>
      [] o \in Exits -> <<o, "$exit", "$root">>
      [] o \in Containers -> <<o, "$container", "$thing", "$root">>
      [] o = "chair" -> <<o, "$furniture", "$thing", "$root">>
      [] o \in Things -> <<o, "$thing", "$root">>

MCAncestors ==
    [o \in MCObject |-> {[of |-> Lineage(o)[i], depth |-> i - 1, weight |-> 0] : i \in DOMAIN Lineage(o)}]

MCPersonOf == "bob's" :> "bob" @@ "ann's" :> "ann"

MCKeyText ==
    "#key || #bob" :> <<"#key", "||", "#bob">> @@ "!#bob" :> <<"!", "#bob">>
    @@ "? #lane" :> <<"?", "#lane">> @@ "key" :> <<"key">>

MCOwner == [o \in MCObject |-> IF o \in People THEN o ELSE "wizard"]

MCResidents == [o \in MCObject |-> IF o = "vault" THEN {"ann"} ELSE {}]

MCSurfaces ==
    [o \in MCObject |-> IF o = "rug" THEN {"on", "under"} ELSE {"on", "under", "behind", "before", "beside", "over"}]

-----------------------------------------------------------------------------
\* Ann and Bob in the hall: north of it the vault, east of it the yard.
Start ==
    [loc |-> [o \in MCObject |-> Nil],
     placed |-> [o \in MCObject |-> NotPlaced],
     alias |-> [o \in MCObject |-> {}],
     open |-> [o \in MCObject |-> FALSE],
     key |-> [o \in MCObject |-> NoKey],
     openKey |-> [o \in MCObject |-> NoKey],
     seat |-> [o \in People |-> Unset],
     home |-> [o \in People |-> Nil],
     leaving |-> [o \in People |-> 0],
     dest |-> [o \in MCObject |-> CASE o = "gate" -> "vault" [] o = "lane" -> "yard"
                                    [] o \in {"back", "lawn"} -> "hall" [] OTHER -> Nil],
     exits |-> [r \in Rooms |-> CASE r = "hall" -> <<"gate", "lane">> [] r = "vault" -> <<"back">>
                                  [] r = "yard" -> <<"lawn">> [] OTHER -> <<>>],
     made |-> MCObject \ Unmade]

With(w, places) == [w EXCEPT !.loc = places @@ @]

By(p, lines) == {<<p, l>> : l \in lines}

Hall == "ann" :> "hall" @@ "bob" :> "hall"

\* Doors and keys: chains of exits, an exit of another room, home and seats.
Doors ==
    [part |-> "lines", start |-> With(Start, Hall @@ "key" :> "ann" @@ "chair" :> "hall"),
     lines |->
        By("ann", {<<"lock", "gate", "with", "#key">>, <<"lock", "gate", "with", "? #lane">>, <<"lock", "lane", "with", "#key || #bob">>,
                   <<"lock", "lane", "with", "!#bob">>,
                   <<"lock", "lane", "with", "key">>, <<"unlock", "lane">>, <<"go", "north">>, <<"south">>,
                   <<"go", "east", "west", "north">>, <<"drop", "key">>, <<"give", "key", "to", "bob">>})
        \cup By("bob", {<<"unlock", "gate", ".", "go", "north">>, <<"go", "north">>, <<"gate">>, <<"e">>, <<"w">>,
                        <<"west", "from", "#yard">>, <<"north", "from", "#hall">>, <<"home">>, <<"@sethome">>,
                        <<"take", "key">>, <<"sit", "on", "chair">>, <<"sit", "chair">>, <<"stand">>})]

\* Things, containers and what is placed.
Boxes ==
    [part |-> "lines",
     start |-> With(Start, Hall @@ "coin" :> "box" @@ "dime" :> "hall" @@ "box" :> "hall"
                                @@ "rug" :> "hall" @@ "bag" :> "bob"),
     lines |->
        By("ann", {<<"open", "the", "box">>, <<"take", "coin", "from", "box">>, <<"get", "dime", "out", "of", "box">>,
                   <<"drop", "coin">>, <<"put", "coin", "in", "box">>, <<"put", "bag", "in", "box">>, <<"place", "coin", "under", "rug">>,
                   <<"take", "coin", "from", "rug">>, <<"take", "rug", "then", "give", "rug", "to", "bob">>})
        \cup By("bob", {<<"close", "box">>, <<"take", "coin">>, <<"give", "dime", "to", "ann">>, <<"open", "bag">>,
                        <<"put", "dime", "in", "rug">>, <<"put", "box", "in", "bag">>, <<"drop", "bag">>, <<"drop", "rug">>, <<"take", "ann's", "coin">>,
                        <<"@lock_for_open", "box", "with", "!#bob">>, <<"@unlock_for_open", "box">>})]

\* A builder digs rooms to and fro, and another player finds the way.
Burrows ==
    [part |-> "lines", start |-> With(Start, Hall),
     lines |->
        By("ann", {<<"@burrow", "south", "to", "den">>, <<"@burrow", "ne", "to", "den">>, <<"@burrow", "up", "to", "den">>,
                   <<"@burrow", "north", "to", "den">>, <<"@burrow", "out", "to", "den">>,
                   <<"@lock", "here", "with", "!#ann">>, <<"@unlock", "#hall">>, <<"go", "ne", "sw">>})
        \cup By("bob", {<<"s">>, <<"go", "ne">>, <<"up">>, <<"go", "out">>, <<"go", "north", "then", "sw">>})]

\* The other ways to connect rooms and to get into them.
Works ==
    [part |-> "lines",
     start |-> [With(Start, Hall) EXCEPT !.made = @ \cup {"room8", "exit6", "exit7"}],
     lines |->
        By("ann", {<<"@dig", "west", "to", "den">>, <<"@dig", "down", "through", "#lane", "to", "den">>, <<"@dig", "out">>,
                   <<"@tunnel", "south", "to", "rug">>, <<"@tunnel", "west", "to", "vault">>, <<"@add-exit", "#gate">>,
                   <<"teleport", "vault">>, <<"teleport", "to", "hall">>,
                   <<"@alias", "bob", "as", "den">>, <<"@move", "bob", "to", "den">>, <<"@move", "bob", "here">>})]

\* Letters.
Post == [part |-> "mail", start |-> Start, lines |-> {}]

\* Agents, and what lists them.
Agency == [part |-> "agents", start |-> Start, lines |-> {}]
Listing == [part |-> "batches", start |-> Start, lines |-> {}]

\* Rights.
Rights == [part |-> "access", start |-> Start, lines |-> {}]

\* Calls among a ball, the class of things and the root.
Calls == [part |-> "calls", start |-> Start, lines |-> {}]

MCScenes == [doors |-> Doors, boxes |-> Boxes, burrows |-> Burrows, works |-> Works, post |-> Post,
             agency |-> Agency, listing |-> Listing, rights |-> Rights,
             calls |-> Calls]

MCRow ==
    {[rule |-> "deny", who |-> "everyone", perm |-> "write"], [rule |-> "allow", who |-> "bob", perm |-> "anything"],
     [rule |-> "deny", who |-> "owners", perm |-> "entrust"]}

MCLine == "ball" :> <<"ball", "thing", "root">> @@ "thing" :> <<"thing", "root">> @@ "root" :> <<"root">>

MCParents == "ball" :> <<"thing">> @@ "thing" :> <<"root">> @@ "root" :> <<>>

MCVerbOwner == "ball" :> "ann" @@ "thing" :> "wiz" @@ "root" :> "ann"

MCWrites == {<<"bob", "ann">>, <<"cyd", "ann">>}

=============================================================================
