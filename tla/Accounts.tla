------------------------------ MODULE Accounts ------------------------------
(***************************************************************************)
(* Accounts and who may log in: the Player and Blacklist rows              *)
(* (moo/core/models/auth.py, moderation.py), the sanctions of the staff    *)
(* (moo/sdk/moderation.py), guests and registration (moo/sdk/onboarding.py)*)
(* and the login of the SSH server (moo/shell/server.py).                  *)
(* A verb that changes an account loads its row, decides, and saves every  *)
(* column of what it loaded; the rows of other transactions become visible *)
(* at their commit.  Both login functions run as one call on the server's  *)
(* only worker thread, so that one login is at work at a time, each of its *)
(* queries a transaction of its own.                                       *)
(***************************************************************************)
EXTENDS Naturals, FiniteSets

CONSTANTS Account,   \* Player rows, each used once
          User, Site, Identity,
          None,      \* NULL
          Task,      \* the verbs that can be at work at once
          Conn,      \* SSH connections, each used once
          MaxTime,   \* bound of the clock
          Setups     \* the situations of an instance, see SetupType

ASSUME NoneAssumption ==
    None \notin Account \cup User \cup Site \cup Identity \cup Task \cup Conn
ASSUME MaxTimeAssumption == MaxTime \in Nat

Status == {"active", "guest", "suspended", "banned"}

\* until: the deadline of a suspension; a row is absent before it is created
\* and after it is deleted.
Row == [exists : BOOLEAN, user : User \cup {None}, site : Site, wizard : BOOLEAN,
        status : Status, until : (0..MaxTime) \cup {None}, identity : Identity \cup {None}]

AllOps == {"suspend", "unsuspend", "ban", "register", "remove_guest"}

(***************************************************************************)
(* players: the rows at the beginning; wizards: the UniversalWizards; ops: *)
(* what the verbs do; guests: provision_guest is called; serial: verbs and *)
(* logins one at a time; tasks: those at work; callers: the connections    *)
(* that are made, with the user and the site their names give; horizon:    *)
(* how far the clock runs.                                                 *)
(***************************************************************************)
SetupType == [players : [Account -> Row], wizards : SUBSET User, ops : SUBSET AllOps,
              guests : BOOLEAN, serial : BOOLEAN, tasks : SUBSET Task,
              callers : SUBSET (Conn \X User \X (Site \cup {None})), horizon : 0..MaxTime]

ASSUME SetupsAssumption ==
    \A s \in Setups :
        DOMAIN s.players = Account /\ s.ops \subseteq AllOps /\ s.horizon \in 0..MaxTime

VARIABLES setup,      \* the situation, chosen once
          now,        \* the clock
          player,     \* player[a]: the committed row
          removed,    \* the rows that have been deleted
          blacklist,  \* the identities of the Blacklist rows
          task,       \* task[t]: the operation of t and the row it has loaded
          conn,       \* conn[c]: the connection
          sanction,   \* ghost: sanction[a]: what the staff decided last about a
          outlawed,   \* ghost: the identities of the accounts they have banned
          barred      \* ghost: barred[c]: why c's login must fail, as it began

vars == <<setup, now, player, removed, blacklist, task, conn, sanction, outlawed, barred>>

-----------------------------------------------------------------------------
\* Rows.

Players == {a \in Account : player[a].exists}

NoRow == [exists |-> FALSE, user |-> None, site |-> CHOOSE s \in Site : TRUE, wizard |-> FALSE,
          status |-> "active", until |-> None, identity |-> None]

\* is_suspended
Suspended(row) == row.status = "suspended" /\ (row.until = None \/ now < row.until)

\* Mutant of LoginBlocked: a suspension is looked at without its deadline.
LoginBlockedForGood(row) == row.status \in {"banned", "suspended"}

\* login_blocked_reason
LoginBlocked(row) == row.status = "banned" \/ Suspended(row)

Blacklisted(id) == id \in blacklist

\* The two unique constraints.
Unique(a, row) ==
    \A b \in Players \ {a} : player[b].site = row.site =>
        /\ row.user # None => player[b].user # row.user
        /\ row.identity # None => player[b].identity # row.identity

\* Mutant of Storable: a row that was deleted meanwhile is inserted again.
StorableUnseen(a, row) == Unique(a, row)

Storable(a, row) == player[a].exists /\ Unique(a, row)

-----------------------------------------------------------------------------
\* Verbs.

Idle == [op |-> "idle", account |-> None, row |-> NoRow, identity |-> None, checked |-> FALSE]

Working == {t \in Task : task[t].op # "idle"}

Stage == {"off", "checking", "listed", "picking", "in", "refused", "over"}

NoConn == [stage |-> "off", user |-> None, site |-> None, left |-> {}, row |-> NoRow]

\* The login that is at work on the worker thread.
LoggingIn == {c \in Conn : conn[c].stage \in {"checking", "listed"}}

MayBegin == setup.serial => Working = {} /\ LoggingIn = {}

\* _get_avatar: the account on this site, else any account of the user.
Played(c) ==
    LET mine == {a \in Players : player[a].user = conn[c].user}
        here == {a \in mine : player[a].site = conn[c].site}
    IN  IF conn[c].stage # "in" THEN {} ELSE IF here # {} THEN here ELSE mine

\* account_for: the verb loads the account of an avatar.  A player registers the
\* account that is played; the staff are refused as targets of a sanction.
Load(t) ==
    /\ t \in setup.tasks /\ task[t].op = "idle"
    /\ MayBegin
    /\ \E op \in setup.ops, a \in Players :
          /\ op \in {"suspend", "ban"} => ~ player[a].wizard
          /\ op = "remove_guest" => player[a].status = "guest"
          /\ \/ op # "register" /\ task' = [task EXCEPT ![t] =
                    [Idle EXCEPT !.op = op, !.account = a, !.row = player[a], !.checked = TRUE]]
             \/ /\ op = "register" /\ \E c \in Conn : a \in Played(c)
                /\ \E i \in Identity : task' = [task EXCEPT ![t] =
                    [Idle EXCEPT !.op = op, !.account = a, !.row = player[a], !.identity = i]]
    /\ UNCHANGED <<setup, now, player, removed, blacklist, conn, sanction, outlawed, barred>>

\* register: a banned identity is refused.
CheckIdentity(t) ==
    /\ task[t].op = "register" /\ ~ task[t].checked
    /\ task' = [task EXCEPT ![t] = IF Blacklisted(@.identity) THEN Idle
                                   ELSE [@ EXCEPT !.checked = TRUE]]
    /\ UNCHANGED <<setup, now, player, removed, blacklist, conn, sanction, outlawed, barred>>

\* suspend: for a while, or until it is lifted.
Suspend(row, until) == [row EXCEPT !.status = "suspended", !.until = until]

Unsuspend(row) == [row EXCEPT !.status = "active", !.until = None]

Ban(row) == [row EXCEPT !.status = "banned"]

\* Mutant of Register: whatever the status was, the account becomes active.
RegisterAnyStatus(row, i) == [row EXCEPT !.identity = i, !.status = "active"]

Register(row, i) ==
    [row EXCEPT !.identity = i, !.status = IF @ = "guest" THEN "active" ELSE @]

\* What the verb of t can save.
Changed(t) ==
    LET row == task[t].row
    IN  CASE task[t].op = "suspend" -> {Suspend(row, u) : u \in (now..setup.horizon) \cup {None}}
          [] task[t].op = "unsuspend" -> {Unsuspend(row)}
          [] task[t].op = "ban" -> {Ban(row)}
          [] task[t].op = "register" -> {Register(row, task[t].identity)}
          [] OTHER -> {}

\* The identity that a ban puts on the blacklist.
Durable(op, row) == IF op = "ban" /\ row.identity # None THEN {row.identity} ELSE {}

\* Ghosts: the decision a save stands for.
Decide(op, a, row) ==
    /\ sanction' = IF op = "register" THEN sanction
                   ELSE [sanction EXCEPT ![a] = [status |-> row.status, until |-> row.until]]
    /\ outlawed' = outlawed \cup Durable(op, row)

\* The whole row is written at the commit, and for a ban the Blacklist row with
\* it.  An identity that is taken is reported; a row that was deleted meanwhile
\* would be inserted without its avatar, and the transaction fails.
Save(t) ==
    /\ task[t].checked
    /\ \E row \in Changed(t) :
          LET a == task[t].account
          IN  IF Storable(a, row)
              THEN /\ player' = [player EXCEPT ![a] = row]
                   /\ blacklist' = blacklist \cup Durable(task[t].op, row)
                   /\ Decide(task[t].op, a, row)
              ELSE UNCHANGED <<player, blacklist, sanction, outlawed>>
    /\ task' = [task EXCEPT ![t] = Idle]
    /\ UNCHANGED <<setup, now, removed, conn, barred>>

\* remove_guest: the account and its avatar.
RemoveGuest(t) ==
    /\ task[t].op = "remove_guest"
    /\ player' = [player EXCEPT ![task[t].account] = NoRow]
    /\ removed' = removed \cup {task[t].account}
    /\ task' = [task EXCEPT ![t] = Idle]
    /\ UNCHANGED <<setup, now, blacklist, conn, sanction, outlawed, barred>>

\* Some row is created for this user on this site, unless it has one there.
Create(row) ==
    \E a \in Account \ (Players \cup removed) :
        /\ Unique(a, row)
        /\ player' = [player EXCEPT ![a] = row]

ProvisionGuest ==
    /\ setup.guests
    /\ MayBegin
    /\ \E u \in User \cup {None}, s \in Site :
          Create([NoRow EXCEPT !.exists = TRUE, !.user = u, !.site = s, !.status = "guest"])
    /\ UNCHANGED <<setup, now, removed, blacklist, task, conn, sanction, outlawed, barred>>

-----------------------------------------------------------------------------
\* Logins.

\* The accounts a login looks at: of one site, or all of the user's.
Scope(u, s) == {a \in Players : player[a].user = u /\ (s # None => player[a].site = s)}

NotBarred == [listed |-> {}, shut |-> {}]

\* Ghost: accounts whose identity is banned, or that the staff have shut out.
Outcasts(as) == {a \in as : player[a].identity \in outlawed}

ShutOut(a) ==
    \/ sanction[a].status = "banned"
    \/ sanction[a].status = "suspended" /\ (sanction[a].until = None \/ now < sanction[a].until)

Wizard(u, s) == [NoRow EXCEPT !.exists = TRUE, !.user = u, !.site = s, !.wizard = TRUE]

NeedsPlayer(u, s) == u \in setup.wizards /\ s # None /\ Scope(u, s) = {}

\* validate_password, validate_public_key: the credentials are right.  A suffix
\* of the name gives the site; an unknown one, and none, leave it open.  A
\* universal wizard gets an account there.  The accounts are fetched at once.
Authenticate(c, u, s) ==
    /\ <<c, u, s>> \in setup.callers /\ conn[c].stage = "off"
    /\ LoggingIn = {} /\ MayBegin
    /\ IF NeedsPlayer(u, s) THEN Create(Wizard(u, s)) ELSE UNCHANGED player
    /\ conn' = [conn EXCEPT ![c] = [NoConn EXCEPT !.stage = "checking", !.user = u, !.site = s,
                  !.left = {[a |-> a, row |-> player[a]] : a \in Scope(u, s)}]]
    /\ barred' = [barred EXCEPT ![c] =
                    [listed |-> Outcasts(Scope(u, s)),
                     shut |-> {a \in Scope(u, s) : ShutOut(a)}]]
    /\ UNCHANGED <<setup, now, removed, blacklist, task, sanction, outlawed>>

Refused == [NoConn EXCEPT !.stage = "refused"]

Stays(c, stage) == [conn[c] EXCEPT !.stage = stage]

\* account_login_blocked: the status first.  A suspension that has lapsed is
\* cleared, by a save of the row as it was fetched.
CheckStatus(c) ==
    /\ conn[c].stage = "checking"
    /\ \E x \in conn[c].left :
          IF LoginBlocked(x.row)
          THEN conn' = [conn EXCEPT ![c] = Refused] /\ UNCHANGED player
          ELSE IF x.row.status = "suspended"
          THEN IF Storable(x.a, x.row)
               THEN /\ player' = [player EXCEPT ![x.a] = Unsuspend(x.row)]
                    /\ conn' = [conn EXCEPT ![c] =
                          [Stays(c, "listed") EXCEPT !.left = @ \ {x}, !.row = x.row]]
               ELSE conn' = [conn EXCEPT ![c] = Refused] /\ UNCHANGED player
          ELSE /\ conn' = [conn EXCEPT ![c] =
                      [Stays(c, "listed") EXCEPT !.left = @ \ {x}, !.row = x.row]]
               /\ UNCHANGED player
    /\ UNCHANGED <<setup, now, removed, blacklist, task, sanction, outlawed, barred>>

\* Mutant of CheckBlacklist: an account that was let in by its status is let in.
CheckBlacklistNever(c) ==
    /\ conn[c].stage = "listed"
    /\ conn' = [conn EXCEPT ![c] = Stays(c, "checking")]
    /\ UNCHANGED <<setup, now, player, removed, blacklist, task, sanction, outlawed, barred>>

\* Then the identity; is_blacklisted finds a row of any site.
CheckBlacklist(c) ==
    /\ conn[c].stage = "listed"
    /\ conn' = [conn EXCEPT ![c] =
                  IF Blacklisted(@.row.identity) THEN Refused ELSE Stays(c, "checking")]
    /\ UNCHANGED <<setup, now, player, removed, blacklist, task, sanction, outlawed, barred>>

\* Nothing was found against the user; without a site, interact asks for it.
Admit(c) ==
    /\ conn[c].stage = "checking"
    /\ conn[c].left = {}
    /\ conn' = [conn EXCEPT ![c] = [NoConn EXCEPT !.user = conn[c].user, !.site = conn[c].site,
                  !.stage = IF conn[c].site = None THEN "picking" ELSE "in"]]
    /\ UNCHANGED <<setup, now, player, removed, blacklist, task, sanction, outlawed, barred>>

\* _available_sites_for_user
Available(u) == {s \in Site : u \in setup.wizards \/ Scope(u, s) # {}}

\* _pick_site and _provision_after_pick.
Pick(c) ==
    /\ conn[c].stage = "picking"
    /\ \E s \in Available(conn[c].user) :
          /\ conn' = [conn EXCEPT ![c] = [@ EXCEPT !.stage = "in", !.site = s]]
          /\ IF NeedsPlayer(conn[c].user, s) THEN Create(Wizard(conn[c].user, s))
                                             ELSE UNCHANGED player
    /\ UNCHANGED <<setup, now, removed, blacklist, task, sanction, outlawed, barred>>

\* The user leaves; also the picker, or it has nothing to offer.
Leave(c) ==
    /\ conn[c].stage \in {"in", "picking"}
    /\ conn' = [conn EXCEPT ![c] = [NoConn EXCEPT !.stage = "over"]]
    /\ barred' = [barred EXCEPT ![c] = NotBarred]
    /\ UNCHANGED <<setup, now, player, removed, blacklist, task, sanction, outlawed>>

Tick ==
    /\ now < setup.horizon
    /\ now' = now + 1
    /\ UNCHANGED <<setup, player, removed, blacklist, task, conn, sanction, outlawed, barred>>

-----------------------------------------------------------------------------

Init ==
    /\ setup \in Setups
    /\ now = 0
    /\ player = setup.players
    /\ removed = {}
    /\ blacklist = {}
    /\ task = [t \in Task |-> Idle]
    /\ conn = [c \in Conn |-> NoConn]
    /\ outlawed = {}
    /\ sanction = [a \in Account |-> [status |-> "none", until |-> None]]
    /\ barred = [c \in Conn |-> NotBarred]

TaskStep(t) == CheckIdentity(t) \/ Save(t) \/ RemoveGuest(t)

LoginStep(c) == CheckStatus(c) \/ CheckBlacklist(c) \/ Admit(c)

Next ==
    \/ \E t \in Task : Load(t) \/ TaskStep(t)
    \/ \E c \in Conn : LoginStep(c) \/ Pick(c) \/ Leave(c)
    \/ \E c \in Conn, u \in User, s \in Site \cup {None} : Authenticate(c, u, s)
    \/ ProvisionGuest
    \/ Tick

Spec == Init /\ [][Next]_vars

-----------------------------------------------------------------------------
\* Properties.

\* The variables hold values of their kinds.
TypeOK ==
    /\ now \in 0..setup.horizon
    /\ player \in [Account -> Row]
    /\ removed \subseteq Account \ Players
    /\ blacklist \subseteq Identity
    /\ \A t \in Task : task[t].op \in AllOps \cup {"idle"} /\ task[t].row \in Row
    /\ \A c \in Conn : conn[c].stage \in Stage /\ conn[c].row \in Row

\* One call at a time, what the staff decided last about an account stays in
\* force until they decide again or the deadline passes, whatever is registered
\* and whoever logs in meanwhile (the docstring of moderation.py: "a reversible
\* suspend and a scarring ban").
SanctionsStand ==
    setup.serial =>
       \A a \in Players :
          /\ sanction[a].status = "banned" => player[a].status = "banned"
          /\ sanction[a].status = "suspended" /\ ShutOut(a) =>
                player[a].status = "suspended" /\ player[a].until = sanction[a].until
          /\ sanction[a].status = "active" => player[a].status = "active"

\* However verbs and logins interleave: a login for which an identity in its
\* scope was banned when it began does not get in (docstring of Blacklist: the
\* denylist is checked at login "so a scarring ban actually holds").
BlacklistBars ==
    \A c \in Conn : barred[c].listed # {} => conn[c].stage \notin {"picking", "in"}

\* One call at a time, a login is refused only for an account in its scope that
\* the staff have shut out at that time or whose identity is banned: a suspension
\* that has lapsed or been lifted keeps nobody out.
RefusalsAreJustified ==
    setup.serial =>
       \A c \in Conn : conn[c].stage = "refused" => barred[c].listed \cup barred[c].shut # {}

\* Whoever is refused, and whoever gets in, is so for a reason that held when
\* the login began: no banned identity passes, nobody else is kept out
\* (account_login_blocked and the callers of it).
LoginsAreJudged == BlacklistBars /\ RefusalsAreJustified

=============================================================================
