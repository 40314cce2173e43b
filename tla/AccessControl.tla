---------------------------- MODULE AccessControl ----------------------------
(***************************************************************************)
(* Who may do what to an object, a verb or a property: the rows of its     *)
(* access list (moo/core/models/acl.py), Object.is_allowed and the cache   *)
(* of permissions a task keeps until it ends.  One subject is looked at:   *)
(* what is answered about it depends on no other.  The caller changes with *)
(* every verb a task calls, so each step may be anyone's.                  *)
(***************************************************************************)
EXTENDS Integers, FiniteSets

CONSTANTS
    Actor,        \* who calls
    Permission,   \* the permissions that are asked for, besides "anything"
    Row,          \* the rows that are made by allow() and deny(): [rule, who, perm]
    FirstOwner,
    FirstWizards

Group == {"everyone", "owners", "wizards"}

Kind == {"object", "property"}

\* A row's `who' is an accessor or a group.
Access == [rule : {"allow", "deny"}, who : Actor \cup Group, perm : Permission \cup {"anything"}]

ASSUME AccessAssumption ==
    /\ {"grant", "entrust"} \subseteq Permission
    /\ Row \subseteq Access
    /\ FirstOwner \in Actor
    /\ FirstWizards \subseteq Actor

VARIABLES
    kind,     \* of the subject; a verb is like a property
    rules,    \* the rows of the subject
    owner,    \* its owner
    wizards,  \* who has a Player row that says so
    known,    \* perm_cache: the pairs that were allowed, and who was found to be a wizard or not
    shaken    \* something that the cache does not follow has happened in this task

accessVars == <<kind, rules, owner, wizards, known, shaken>>

NothingKnown == [allowed |-> {}, wizard |-> {}, other |-> {}]

\* apply_default_permissions
Defaults ==
    {[rule |-> "allow", who |-> "wizards", perm |-> "anything"],
     [rule |-> "allow", who |-> "owners", perm |-> "anything"],
     [rule |-> "allow", who |-> "everyone", perm |-> "read"]}

-----------------------------------------------------------------------------
\* What the rows say of someone who is or is not a wizard, when o is the owner.

Applies(row, a, perm, o, wizard) ==
    /\ row.perm \in {perm, "anything"}
    /\ \/ row.who \in {a, "everyone"}
       \/ row.who = "owners" /\ o = a
       \/ row.who = "wizards" /\ wizard

Decision(a, perm, o, wizard) ==
    LET rows == {row \in rules : Applies(row, a, perm, o, wizard)}
    IN rows # {} /\ \A row \in rows : row.rule # "deny"

\* Player.objects.filter(avatar=self, wizard=True), asked for once in a task
IsWizard(k, a) == a \in k.wizard \/ (a \notin k.other /\ a \in wizards)

Noticed(k, a) ==
    IF a \in k.wizard \cup k.other THEN k
    ELSE IF a \in wizards THEN [k EXCEPT !.wizard = @ \cup {a}] ELSE [k EXCEPT !.other = @ \cup {a}]

is_allowed(k, a, perm, o) == <<a, perm>> \in k.allowed \/ Decision(a, perm, o, IsWizard(k, a))

\* Mutant of Remembered: a refusal is remembered as well, as what was allowed
\* before it.
RememberedAlways(k, a, perm, o) == [Noticed(k, a) EXCEPT !.allowed = @ \cup {<<a, perm>>}]

\* Only what was allowed is kept.
Remembered(k, a, perm, o) ==
    IF <<a, perm>> \in k.allowed THEN k
    ELSE IF is_allowed(k, a, perm, o) THEN [Noticed(k, a) EXCEPT !.allowed = @ \cup {<<a, perm>>}]
    ELSE Noticed(k, a)

\* Mutant of Evicted: what the owner was allowed is kept.
EvictedButOwner(k) == [k EXCEPT !.allowed = {q \in @ : q[1] = owner}]

Evicted(k) == [k EXCEPT !.allowed = {}]

\* can_caller: the owner may grant whatever the rows say.
can_caller(k, a, perm, o) == (perm = "grant" /\ o = a) \/ is_allowed(k, a, perm, o)

AfterAsking(k, a, perm, o) == IF perm = "grant" /\ o = a THEN k ELSE Remembered(k, a, perm, o)

-----------------------------------------------------------------------------
Ask(a, perm) ==
    /\ known' = AfterAsking(known, a, perm, owner)
    /\ UNCHANGED <<kind, rules, owner, wizards, shaken>>

Granted(a) == can_caller(known, a, "grant", owner)

Allow(a, row) ==
    /\ row.rule = "allow" /\ row \notin rules
    /\ Granted(a)
    /\ rules' = rules \cup {row}
    /\ known' = AfterAsking(known, a, "grant", owner)
    /\ UNCHANGED <<kind, owner, wizards, shaken>>

\* What was allowed before is forgotten, also that the caller may grant.
Deny(a, row) ==
    /\ row.rule = "deny" /\ row \notin rules
    /\ Granted(a)
    /\ rules' = rules \cup {row}
    /\ known' = Evicted(AfterAsking(known, a, "grant", owner))
    /\ UNCHANGED <<kind, owner, wizards, shaken>>

\* Access.delete
DeleteRow(a, row) ==
    /\ row \in rules
    /\ Granted(a)
    /\ rules' = rules \ {row}
    /\ known' = AfterAsking(known, a, "grant", owner)
    /\ shaken' = (shaken \/ row.rule = "allow")
    /\ UNCHANGED <<kind, owner, wizards>>

\* Mutant of Reowned: the permissions of the old owner are kept.
ReownedKeeping(k) == k

\* The cache at a change of owner: that of an object is evicted.
Reowned(k) == IF kind = "object" THEN Evicted(k) ELSE k

\* save() with another owner asks for entrust, with the new owner in place; a
\* refused save changes nothing but the cache.
Save(a, o) ==
    LET k == Reowned(known)
    IN /\ o # owner
       /\ owner' = IF is_allowed(k, a, "entrust", o) THEN o ELSE owner
       /\ known' = Remembered(k, a, "entrust", o)
       /\ shaken' = (shaken \/ kind = "property")
       /\ UNCHANGED <<kind, rules, wizards>>

\* Another task commits a change to the rows or the owner, or makes or unmakes a
\* wizard.
Elsewhere ==
    /\ shaken' = TRUE
    /\ \/ (\E row \in Row : rules' \in {rules \cup {row}, rules \ {row}}) /\ UNCHANGED <<owner, wizards>>
       \/ owner' \in Actor /\ UNCHANGED <<rules, wizards>>
       \/ (\E a \in Actor : wizards' \in {wizards \cup {a}, wizards \ {a}}) /\ UNCHANGED <<rules, owner>>
    /\ UNCHANGED <<kind, known>>

\* The task ends, and its ContextManager with it; another begins.
NextTask ==
    /\ known' = NothingKnown
    /\ shaken' = FALSE
    /\ UNCHANGED <<kind, rules, owner, wizards>>

AccessInit ==
    /\ kind \in Kind
    /\ rules = {row \in Defaults : row.perm \in Permission \cup {"anything"}}
    /\ owner = FirstOwner
    /\ wizards = FirstWizards
    /\ known = NothingKnown
    /\ shaken = FALSE

AccessNext ==
    \/ \E a \in Actor :
          \/ \E perm \in Permission : Ask(a, perm)
          \/ \E row \in Row : Allow(a, row) \/ Deny(a, row) \/ DeleteRow(a, row)
          \/ \E o \in Actor : Save(a, o)
    \/ Elsewhere \/ NextTask

AccessSpec == AccessInit /\ [][AccessNext]_accessVars

AccessTypeOK ==
    /\ kind \in Kind
    /\ rules \subseteq Access
    /\ owner \in Actor
    /\ wizards \subseteq Actor
    /\ known \in [allowed : SUBSET (Actor \X Permission), wizard : SUBSET Actor, other : SUBSET Actor]
    /\ known.wizard \cap known.other = {}
    /\ shaken \in BOOLEAN

-----------------------------------------------------------------------------
\* In a task nobody is answered anything but what the rows say now, in whatever
\* order rights are granted, denied and used and objects change hands: unless a
\* row that allows was deleted, a verb or property got another owner, or another
\* task has changed something, which the cache of permissions does not follow
\* (Object.is_allowed: "only True results are cached", and who evicts them).
AnswersFollowRules ==
    ~ shaken =>
        \A a \in Actor, perm \in Permission :
            is_allowed(known, a, perm, owner) <=> Decision(a, perm, owner, a \in wizards)

=============================================================================
