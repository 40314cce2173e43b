----------------------------- MODULE Lifecycle ------------------------------
(***************************************************************************)
(* How an object comes and goes, and the quota that pays for it: `create`  *)
(* (moo/sdk/objects.py), `soft_recycle`, `restore`, `destroy` and the      *)
(* sweep (moo/sdk/recovery.py), `Object.delete` and saves with a new owner *)
(* (moo/core/models/object.py).  Each runs in the transaction of a task:   *)
(* the object is loaded, the quota property is read, and what is written   *)
(* is computed from those two.  Others see the writes at the commit; the   *)
(* row locks they hold until then only delay, for nothing is read again.   *)
(* The quota is read from its row, without the attribute cache.            *)
(***************************************************************************)
EXTENDS Integers, FiniteSets

CONSTANTS Object,     \* primary keys the objects of this instance will have
          Player,     \* those who own objects, each with an ownership_quota
          Nobody,
          Allowance,  \* the quota each player starts with
          Task,       \* task slots
          MaxQuota,   \* bound: nothing is loaded once a quota has come so far
          Setups      \* the setups that are looked at

AllOps == {"create", "recycle", "restore", "destroy", "edit", "refuse"}

ASSUME PlayerAssumption == Nobody \notin Player /\ IsFiniteSet(Player)
ASSUME ObjectAssumption == IsFiniteSet(Object)
ASSUME AllowanceAssumption == Allowance \in Nat
ASSUME TaskAssumption == IsFiniteSet(Task)
ASSUME MaxQuotaAssumption == MaxQuota \in Nat
ASSUME SetupAssumption ==
          \A s \in Setups : s.workers \in Nat \ {0} /\ s.ops \subseteq AllOps

VARIABLES setup,  \* the one of this behaviour; it never changes
          life,   \* life[x]: "absent", "live", "recycled", or "gone"
          owner,  \* owner[x]: the owner in the row of x, the last one when it is gone
          quota,  \* quota[p]: the ownership_quota of p
          phase,  \* phase[t]: how far the transaction of slot t has come
          tx      \* tx[t]: what it does, with what it has loaded

vars == <<setup, life, owner, quota, phase, tx>>

\* How many transactions run at once, and what the tasks do.
Workers == setup.workers

Ops == setup.ops

(***************************************************************************)
(* The instance in a transaction's hands: the object, the owner it will    *)
(* write, whether it was loaded recycled; whose quota is changed; and the  *)
(* quota that was read.                                                    *)
(***************************************************************************)
Transaction == [op : AllOps \ {"refuse"}, obj : Object, owner : Player, hidden : BOOLEAN,
                payer : Player, seen : Int]

Idle == [op |-> "none"]

Open == {t \in Task : phase[t] # "idle"}

Live == {x \in Object : life[x] = "live"}

Recycled == {x \in Object : life[x] = "recycled"}

\* A new row has a primary key no other transaction has used.
Fresh == {x \in Object : life[x] = "absent" /\ \A t \in Open : tx[t].obj # x}

-----------------------------------------------------------------------------

\* Mutant of Loadable: restore takes what is not visible for recycled.
LoadableUnseen(op) ==
    CASE op = "create" -> Fresh
      [] op \in {"recycle", "edit"} -> Live
      [] op = "restore" -> Object \ (Live \cup Fresh)
      [] op = "destroy" -> Live \cup Recycled

\* What each operation starts from: visible objects, for a restore recycled
\* ones; a destroy is of a visible object, or by the sweep of a recycled one.
Loadable(op) ==
    CASE op = "create" -> Fresh
      [] op \in {"recycle", "edit"} -> Live
      [] op = "restore" -> Recycled
      [] op = "destroy" -> Live \cup Recycled

\* The owner the save will write, and whose quota changes.  A creator owns the
\* new object; an edit may give the object to another player.
Owners(op, x) == IF op \in {"create", "edit"} THEN Player ELSE {owner[x]}

Load(t) ==
    /\ phase[t] = "idle"
    /\ Cardinality(Open) < Workers
    /\ \A p \in Player : quota[p] < MaxQuota
    /\ \E op \in Ops \ {"refuse"} : \E x \in Loadable(op) : \E r \in Owners(op, x) :
          tx' = [tx EXCEPT ![t] = [op |-> op, obj |-> x, owner |-> r,
                                   hidden |-> life[x] = "recycled",
                                   payer |-> r, seen |-> 0]]
    /\ phase' = [phase EXCEPT ![t] = "loaded"]
    /\ UNCHANGED <<life, owner, quota>>

Charged(t) == tx[t].op \in {"create", "restore"}

\* Mutant of Refunded: delete() refunds whatever has been refunded before.
RefundedTwice(t) == tx[t].op \in {"recycle", "destroy"}

\* A recycle refunds; a delete does, unless the object was recycled when it was
\* loaded.
Refunded(t) ==
    \/ tx[t].op = "recycle"
    \/ tx[t].op = "destroy" /\ ~ tx[t].hidden

UsesQuota(t) == Charged(t) \/ Refunded(t)

Delta(t) == IF Charged(t) THEN -1 ELSE 1

\* get_property("ownership_quota", recurse=False)
ReadQuota(t) ==
    /\ phase[t] = "loaded"
    /\ UsesQuota(t)
    /\ tx' = [tx EXCEPT ![t].seen = quota[tx[t].payer]]
    /\ phase' = [phase EXCEPT ![t] = "read"]
    /\ UNCHANGED <<life, owner, quota>>

\* Mutant of OutOfQuota: zero still pays for an object.
OutOfQuotaBelowZero(t) == tx[t].op = "create" /\ tx[t].seen < 0

\* create() raises QuotaError; a restore is not asked.
OutOfQuota(t) == tx[t].op = "create" /\ tx[t].seen <= 0

End(t) ==
    /\ phase' = [phase EXCEPT ![t] = "idle"]
    /\ tx' = [tx EXCEPT ![t] = Idle]

RaiseQuota(t) ==
    /\ phase[t] = "read"
    /\ OutOfQuota(t)
    /\ End(t)
    /\ UNCHANGED <<life, owner, quota>>

Payment(t) ==
    IF UsesQuota(t) THEN [quota EXCEPT ![tx[t].payer] = tx[t].seen + Delta(t)] ELSE quota

ReadyToCommit(t) ==
    \/ phase[t] = "read" /\ ~ OutOfQuota(t)
    \/ phase[t] = "loaded" /\ ~ UsesQuota(t)

\* Mutants of Kept: a destroyed row leaves its key to be used again; a restore
\* leaves the object hidden.
KeptReusable(t) ==
    CASE tx[t].op \in {"create", "restore", "edit"} -> "live"
      [] tx[t].op = "recycle" -> "recycled"
      [] tx[t].op = "destroy" -> "absent"

KeptHidden(t) ==
    CASE tx[t].op \in {"create", "edit"} -> "live"
      [] tx[t].op \in {"recycle", "restore"} -> "recycled"
      [] tx[t].op = "destroy" -> "gone"

\* What is left of the object: a save writes every column, and inserts the row
\* again when it is gone.
Kept(t) ==
    CASE tx[t].op \in {"create", "restore", "edit"} -> "live"
      [] tx[t].op = "recycle" -> "recycled"
      [] tx[t].op = "destroy" -> "gone"

Commit(t) ==
    /\ ReadyToCommit(t)
    /\ quota' = Payment(t)
    /\ life' = [life EXCEPT ![tx[t].obj] = Kept(t)]
    /\ owner' = [owner EXCEPT ![tx[t].obj] = tx[t].owner]
    /\ End(t)

\* The save of the new or restored object is refused (`accept`, `move`, the
\* recursion check).  The command reports the error and commits what it wrote
\* before, the quota.
Refuse(t) ==
    /\ "refuse" \in Ops
    /\ ReadyToCommit(t)
    /\ Charged(t)
    /\ quota' = Payment(t)
    /\ End(t)
    /\ UNCHANGED <<life, owner>>

\* The time limit, or an error nobody catches.
Kill(t) ==
    /\ phase[t] # "idle"
    /\ End(t)
    /\ UNCHANGED <<life, owner, quota>>

-----------------------------------------------------------------------------

Init ==
    /\ setup \in Setups
    /\ life = [x \in Object |-> "absent"]
    /\ owner = [x \in Object |-> Nobody]
    /\ quota = [p \in Player |-> Allowance]
    /\ phase = [t \in Task |-> "idle"]
    /\ tx = [t \in Task |-> Idle]

Step(t) == ReadQuota(t) \/ RaiseQuota(t) \/ Commit(t) \/ Refuse(t) \/ Kill(t)

Next ==
    /\ \E t \in Task : Load(t) \/ Step(t)
    /\ UNCHANGED setup

Spec == Init /\ [][Next]_vars

-----------------------------------------------------------------------------
\* Properties.

TypeOK ==
    /\ setup \in Setups
    /\ life \in [Object -> {"absent", "live", "recycled", "gone"}]
    /\ owner \in [Object -> Player \cup {Nobody}]
    /\ \A x \in Object : owner[x] = Nobody <=> life[x] = "absent"
    /\ quota \in [Player -> Int]
    /\ phase \in [Task -> {"idle", "loaded", "read"}]
    /\ tx \in [Task -> Transaction \cup {Idle}]
    /\ \A t \in Open : tx[t] \in Transaction

\* The objects that take up quota of p.
Counted(p) == {x \in Live : owner[x] = p}

Balanced(p) == quota[p] + Cardinality(Counted(p)) = Allowance

AccountsBalance == \A p \in Player : Balanced(p)

\* A player's quota and the player's visible objects always make up the
\* allowance: each creation is charged once, and each object refunded once,
\* through recycling, restoring, destroying and sweeping in any order, when
\* tasks run one after another and no object changes hands
\* (docs/source/explanation/accountability.md, "Object quota").
QuotaConserved == Workers = 1 /\ {"edit", "refuse"} \cap Ops = {} => AccountsBalance

\* A command that fails leaves the accounts as they were
\* (docs/source/explanation/sandbox.md, line 14: "If an exception is raised, the
\* transaction rolls back, reverting any partial changes").
FailureIsUndone == AccountsBalance

\* As long as nothing is restored no quota becomes negative, whatever tasks run
\* at the same time: each stores one less than what it saw above zero.
NeverOverdrawn == "restore" \notin Ops => \A p \in Player : quota[p] >= 0

\* Tasks that run one after another never bring a destroyed object back
\* (moo/sdk/recovery.py: destroy is "the irreversible path").
DestroyIsFinal ==
    [][Workers = 1 => \A x \in Object : life[x] = "gone" => life'[x] = "gone"]_vars
=============================================================================
