---------------------------- MODULE MCConnection ----------------------------
(***************************************************************************)
(* Instances of Connection for TLC.  Each situation keeps one concern:     *)
(* either the accounts and the staff, with a client that says nothing, or  *)
(* one telnet client on an account nobody touches.                         *)
(***************************************************************************)
EXTENDS Connection

CONSTANTS a1, a2, a3, u1, u2, s1, s2, i1, t1, t2, c1, c2, line

Client(likes, does, names, says) ==
    [likes |-> likes, does |-> does, names |-> names, says |-> says]

Mute == Client({}, {}, <<"name">>, {})

Offered == {"GMCP", "MSSP", "MSP", "EOR", "CHARSET"}

\* One that has nothing but a line to type and an option nobody wants.
Typing == Client({}, {}, <<"name">>, {<<"text", "a">>, <<"WILL", "SGA">>})

\* One that takes everything; ones that change their mind, about an option of
\* the server and about their own; ones that ask for what was offered.
Chatting ==
    {Client(Offered, {"TTYPE", "NAWS"}, <<"name", "term", "mtts">>,
            {<<"text", "a", "IAC">>, <<"GMCP", "x", "IAC">>}),
     Client({"GMCP"}, {}, <<"name">>, {<<"DONT", "GMCP">>, <<"DO", "GMCP">>}),
     Client({}, {"TTYPE"}, <<"name", "term">>, {<<"WONT", "TTYPE">>, <<"WILL", "TTYPE">>}),
     Client({"CHARSET", "MSSP"}, {"CHARSET"}, <<"name">>,
            {<<"CHARSET", "REQUEST", "UTF-8">>, <<"MSSP">>}),
     Client({"CHARSET"}, {"TTYPE"}, <<"name">>, {<<"CHARSET", "REQUEST", "LATIN">>})}

AllClients == Chatting \cup {Typing, Mute}

Player(u, s, status) == [NoRow EXCEPT !.exists = TRUE, !.user = u, !.site = s, !.status = status]

Known(u, s, i) == [Player(u, s, "active") EXCEPT !.identity = i]

Players3(x, y, z) == [a \in Account |-> CASE a = a1 -> x [] a = a2 -> y [] a = a3 -> z]

Setup(players, wizards, ops, guests, tasks, callers, horizon) ==
    [players |-> players, wizards |-> wizards, ops |-> ops, guests |-> guests,
     serial |-> Cardinality(tasks) < 2, tasks |-> tasks, callers |-> callers, horizon |-> horizon]

\* The user of the telnet clients, with an account on one site or on two.
Calm == Setup(Players3(Player(u1, s1, "active"), NoRow, NoRow),
              {}, {}, FALSE, {}, {<<line, u1, None>>}, 0)

Choice == Setup(Players3(Player(u1, s1, "active"), Player(u1, s2, "active"), NoRow),
                {}, {}, FALSE, {}, {<<line, u1, None>>}, 0)

\* The staff at work on a user that has registered, call by call.
Sanctions == Setup(Players3(Known(u1, s1, i1), NoRow, NoRow), {},
                   {"suspend", "unsuspend", "ban", "register"}, FALSE, {t1},
                   {<<c1, u1, s1>>, <<c2, u1, None>>}, 2)

\* Two verbs at once: one bans an identity that another account registers.
Race == Setup(Players3(Player(u1, s1, "guest"), Known(u2, s2, i1), NoRow), {},
              {"ban", "register"}, FALSE, {t1, t2},
              {<<c1, u1, s1>>, <<c2, u1, None>>}, 0)

\* A suspension that lapses while the staff change their mind.
Lapse == Setup(Players3(Known(u1, s1, i1), NoRow, NoRow), {},
               {"ban", "suspend"}, FALSE, {t1, t2}, {<<c1, u1, s1>>}, 1)

\* A universal wizard, who has no account yet, and guests that come and go.
Wizards == Setup(Players3(Known(u2, s2, i1), NoRow, NoRow), {u1},
                 {"register", "remove_guest"}, TRUE, {t1, t2},
                 {<<c1, u1, None>>, <<c1, u1, s1>>, <<c2, u2, s2>>}, 0)

AllSetups == {Calm, Choice, Sanctions, Race, Lapse, Wizards}

AllCalls == ({Calm} \X Chatting) \cup ({Choice} \X {Typing})
               \cup ({Sanctions, Race, Lapse, Wizards} \X {Mute})
=============================================================================
