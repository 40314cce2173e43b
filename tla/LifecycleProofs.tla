-------------------------- MODULE LifecycleProofs ---------------------------
(***************************************************************************)
(* No race takes a quota below zero, and tasks that run one after another  *)
(* keep every player's account: for any number of objects, players, tasks. *)
(***************************************************************************)
EXTENDS Lifecycle, FiniteSetTheorems, TLAPS

-----------------------------------------------------------------------------
\* What the steps of a transaction do to its slot.

LEMMA LoadedTransaction ==
    ASSUME TypeOK, NEW t \in Task, Load(t)
    PROVE  /\ phase[t] = "idle" /\ phase'[t] = "loaded"
           /\ tx'[t] \in Transaction
           /\ tx'[t].op \in Ops \ {"refuse"}
           /\ tx'[t].obj \in Loadable(tx'[t].op)
           /\ tx'[t].owner \in Owners(tx'[t].op, tx'[t].obj)
           /\ tx'[t].payer = tx'[t].owner
           /\ tx'[t].seen = 0
           /\ tx'[t].hidden <=> life[tx'[t].obj] = "recycled"
           /\ \A u \in Task : u # t => tx'[u] = tx[u] /\ phase'[u] = phase[u]
<1> DEFINE Loaded(op, x, r) == [op |-> op, obj |-> x, owner |-> r,
                                hidden |-> life[x] = "recycled", payer |-> r, seen |-> 0]
<1>1. PICK op \in Ops \ {"refuse"} : \E x \in Loadable(op) : \E r \in Owners(op, x) :
         tx' = [tx EXCEPT ![t] = Loaded(op, x, r)]
  BY DEF Load
<1>2. PICK x \in Loadable(op) : \E r \in Owners(op, x) : tx' = [tx EXCEPT ![t] = Loaded(op, x, r)]
  BY <1>1
<1>3. PICK r \in Owners(op, x) : tx' = [tx EXCEPT ![t] = Loaded(op, x, r)]
  BY <1>2
<1>4. op \in {"create", "recycle", "restore", "destroy", "edit"}
  BY SetupAssumption DEF AllOps, Ops, TypeOK
<1>5. x \in Object /\ (op \notin {"create", "edit"} => life[x] # "absent")
  BY <1>4 DEF Loadable, Fresh, Live, Recycled
<1>6. r \in Player
  BY <1>4, <1>5 DEF Owners, TypeOK
<1>7. tx'[t] = Loaded(op, x, r)
  BY <1>3 DEF TypeOK
<1>8. tx'[t] \in Transaction
  BY <1>4, <1>5, <1>6, <1>7 DEF Transaction, AllOps
<1>9. /\ phase[t] = "idle" /\ phase'[t] = "loaded"
      /\ \A u \in Task : u # t => tx'[u] = tx[u] /\ phase'[u] = phase[u]
  BY <1>3 DEF Load, TypeOK
<1>10. /\ tx'[t].op = op /\ tx'[t].obj = x /\ tx'[t].owner = r /\ tx'[t].payer = r
       /\ tx'[t].seen = 0 /\ tx'[t].hidden = (life[x] = "recycled")
  BY <1>7
<1> HIDE DEF Loaded
<1> QED
  BY <1>2, <1>3, <1>8, <1>9, <1>10

\* Reading the quota changes only what has been seen.
LEMMA ReadTransaction ==
    ASSUME TypeOK, NEW t \in Task, ReadQuota(t)
    PROVE  /\ tx[t] \in Transaction
           /\ tx'[t] \in Transaction
           /\ tx'[t].op = tx[t].op /\ tx'[t].obj = tx[t].obj
           /\ tx'[t].owner = tx[t].owner /\ tx'[t].hidden = tx[t].hidden
           /\ tx'[t].payer = tx[t].payer
           /\ tx'[t].seen = quota[tx[t].payer]
           /\ phase'[t] = "read"
           /\ \A u \in Task : u # t => tx'[u] = tx[u] /\ phase'[u] = phase[u]
<1>1. tx[t] \in Transaction
  BY DEF TypeOK, Open, ReadQuota
<1>2. quota[tx[t].payer] \in Int
  BY <1>1 DEF TypeOK, Transaction
<1>3. tx'[t] = [tx[t] EXCEPT !.seen = quota[tx[t].payer]]
  BY DEF ReadQuota, TypeOK
<1>4. /\ phase'[t] = "read"
      /\ \A u \in Task : u # t => tx'[u] = tx[u] /\ phase'[u] = phase[u]
  BY DEF ReadQuota, TypeOK
<1> QED
  BY <1>1, <1>2, <1>3, <1>4 DEF Transaction

\* A slot that ends is closed, and no other slot changes.
LEMMA EndedTransaction ==
    ASSUME TypeOK, NEW t \in Task, End(t)
    PROVE  /\ phase'[t] = "idle" /\ tx'[t] = Idle
           /\ Open' = Open \ {t}
           /\ \A u \in Task : u # t => tx'[u] = tx[u] /\ phase'[u] = phase[u]
  BY DEF End, Open, TypeOK

\* A commit writes one object, and pays when the operation uses the quota.
LEMMA CommittedTransaction ==
    ASSUME TypeOK, NEW t \in Task, ReadyToCommit(t)
    PROVE  /\ t \in Open /\ tx[t] \in Transaction
           /\ tx[t].op \in AllOps \ {"refuse"} /\ tx[t].obj \in Object /\ tx[t].owner \in Player
           /\ tx[t].payer \in Player /\ tx[t].seen \in Int /\ tx[t].hidden \in BOOLEAN
           /\ Payment(t) \in [Player -> Int]
           /\ \A r \in Player : Payment(t)[r] = IF UsesQuota(t) /\ r = tx[t].payer
                                                THEN tx[t].seen + Delta(t) ELSE quota[r]
<1>1. t \in Open
  BY DEF ReadyToCommit, Open
<1>2. tx[t] \in Transaction
  BY <1>1 DEF TypeOK
<1>3. /\ tx[t].op \in AllOps \ {"refuse"} /\ tx[t].obj \in Object /\ tx[t].owner \in Player
      /\ tx[t].payer \in Player /\ tx[t].seen \in Int /\ tx[t].hidden \in BOOLEAN
  BY <1>2 DEF Transaction
<1>4. Delta(t) \in Int
  BY DEF Delta
<1> QED
  BY <1>1, <1>2, <1>3, <1>4 DEF Payment, TypeOK

-----------------------------------------------------------------------------
\* The setup of a behaviour never changes.

LEMMA SetupStays == [Next]_vars => setup' = setup /\ Ops' = Ops /\ Workers' = Workers
  BY DEF Next, vars, Ops, Workers

-----------------------------------------------------------------------------
\* Types.

LEMMA InitTypes == Init => TypeOK
  BY PlayerAssumption, AllowanceAssumption DEF Init, TypeOK, Open

LEMMA TypeStep == TypeOK /\ [Next]_vars => TypeOK'
<1> SUFFICES ASSUME TypeOK, [Next]_vars PROVE TypeOK'
  OBVIOUS
<1>0. setup' \in Setups
  BY SetupStays DEF TypeOK
<1>1. ASSUME NEW t \in Task, Load(t) PROVE TypeOK'
  <2>1. tx' \in [Task -> Transaction \cup {Idle}]
    BY <1>1, LoadedTransaction DEF Load, TypeOK
  <2>2. \A u \in Open' : tx'[u] \in Transaction
    BY <1>1, LoadedTransaction DEF TypeOK, Open
  <2>3. phase' \in [Task -> {"idle", "loaded", "read"}] /\ UNCHANGED <<life, owner, quota>>
    BY <1>1 DEF Load, TypeOK
  <2> QED
    BY <1>0, <2>1, <2>2, <2>3 DEF TypeOK
<1>2. ASSUME NEW t \in Task, ReadQuota(t) PROVE TypeOK'
  <2>1. tx' \in [Task -> Transaction \cup {Idle}]
    BY <1>2, ReadTransaction DEF ReadQuota, TypeOK
  <2> QED
    BY <1>0, <1>2, <2>1, ReadTransaction DEF ReadQuota, TypeOK, Open
<1>3. ASSUME NEW t \in Task, End(t)
      PROVE  /\ phase' \in [Task -> {"idle", "loaded", "read"}]
             /\ tx' \in [Task -> Transaction \cup {Idle}]
             /\ \A u \in Open' : tx'[u] \in Transaction
  <2>1. phase' \in [Task -> {"idle", "loaded", "read"}] /\ tx' \in [Task -> Transaction \cup {Idle}]
    BY <1>3 DEF End, TypeOK
  <2> QED
    BY <1>3, <2>1, EndedTransaction DEF TypeOK, Open
<1>4. ASSUME NEW t \in Task, RaiseQuota(t) \/ Kill(t) PROVE TypeOK'
  BY <1>0, <1>3, <1>4 DEF RaiseQuota, Kill, TypeOK
<1>5. ASSUME NEW t \in Task, Commit(t) PROVE TypeOK'
  <2>1. /\ Kept(t) \in {"live", "recycled", "gone"}
        /\ tx[t].obj \in Object /\ tx[t].owner \in Player
        /\ quota' \in [Player -> Int]
    BY <1>5, CommittedTransaction DEF Commit, Kept, AllOps
  <2>2. /\ life' \in [Object -> {"absent", "live", "recycled", "gone"}]
        /\ owner' \in [Object -> Player \cup {Nobody}]
        /\ \A x \in Object : owner'[x] = Nobody <=> life'[x] = "absent"
    BY <1>5, <2>1, PlayerAssumption DEF Commit, TypeOK
  <2> QED
    BY <1>0, <1>3, <1>5, <2>1, <2>2 DEF Commit, TypeOK
<1>6. ASSUME NEW t \in Task, Refuse(t) PROVE TypeOK'
  BY <1>0, <1>3, <1>6, CommittedTransaction DEF Refuse, TypeOK
<1>7. CASE UNCHANGED vars
  BY <1>7 DEF vars, TypeOK, Open
<1> QED
  BY <1>1, <1>2, <1>4, <1>5, <1>6, <1>7 DEF Next, Step

\* Every variable keeps its type, an object has an owner as soon as it exists.
THEOREM TypeCorrect == Spec => []TypeOK
<1>1. Init => TypeOK
  BY InitTypes
<1>2. TypeOK /\ [Next]_vars => TypeOK'
  BY TypeStep
<1> QED
  BY <1>1, <1>2, PTL DEF Spec

-----------------------------------------------------------------------------
\* Concurrent tasks: no quota below zero.

\* What is stored is one less than a positive number, or one more than one that
\* is not negative.
SawNoDebt == \A t \in Open : tx[t].op # "restore" /\ tx[t].seen >= 0

DebtInv == TypeOK /\ NeverOverdrawn /\ SawNoDebt

LEMMA DebtStep ==
    ASSUME "restore" \notin Ops, DebtInv, [Next]_vars
    PROVE  DebtInv'
<1> USE DEF DebtInv
<1>1. TypeOK'
  BY TypeStep
<1>2. ASSUME NEW t \in Task, Load(t) PROVE NeverOverdrawn' /\ SawNoDebt'
  <2>1. UNCHANGED quota /\ "restore" \notin Ops
    BY <1>2 DEF Load
  <2>2. SawNoDebt'
    BY <1>2, <2>1, LoadedTransaction DEF SawNoDebt, Open
  <2> QED
    BY <2>1, <2>2 DEF NeverOverdrawn
<1>3. ASSUME NEW t \in Task, ReadQuota(t) PROVE NeverOverdrawn' /\ SawNoDebt'
  <2>1. t \in Open /\ tx[t].payer \in Player
    BY <1>3, ReadTransaction DEF ReadQuota, Open, Transaction
  <2> QED
    BY <1>3, <2>1, ReadTransaction DEF ReadQuota, NeverOverdrawn, SawNoDebt, Open
<1>4. ASSUME NEW t \in Task, End(t) PROVE SawNoDebt'
  BY <1>4, EndedTransaction DEF SawNoDebt, Open
<1>5. ASSUME NEW t \in Task, ReadyToCommit(t), quota' = Payment(t) PROVE NeverOverdrawn'
  <2>1. tx[t].op # "restore" /\ tx[t].seen >= 0
    BY <1>5, CommittedTransaction DEF SawNoDebt
  <2>2. UsesQuota(t) => tx[t].seen + Delta(t) >= 0
    BY <1>5, <2>1, CommittedTransaction
    DEF UsesQuota, Charged, Refunded, Delta, ReadyToCommit, OutOfQuota
  <2> QED
    BY <1>5, <2>2, CommittedTransaction DEF NeverOverdrawn
<1>6. ASSUME NEW t \in Task, RaiseQuota(t) \/ Kill(t) PROVE NeverOverdrawn' /\ SawNoDebt'
  BY <1>4, <1>6 DEF RaiseQuota, Kill, NeverOverdrawn
<1>7. ASSUME NEW t \in Task, Commit(t) \/ Refuse(t) PROVE NeverOverdrawn' /\ SawNoDebt'
  BY <1>4, <1>5, <1>7 DEF Commit, Refuse
<1>8. ASSUME UNCHANGED vars PROVE NeverOverdrawn' /\ SawNoDebt'
  BY <1>8 DEF vars, NeverOverdrawn, SawNoDebt, Open
<1> QED
  BY <1>1, <1>2, <1>3, <1>6, <1>7, <1>8 DEF Next, Step

\* However many tasks race for a player's quota, it never becomes negative, as
\* long as nothing is restored (moo/sdk/objects.py, create).
THEOREM NoDebt == Spec => []NeverOverdrawn
<1> DEFINE Inv == "restore" \notin Ops => DebtInv
<1>1. Init => Inv
  BY InitTypes, AllowanceAssumption DEF Init, DebtInv, NeverOverdrawn, SawNoDebt, Open
<1>2. Inv /\ [Next]_vars => Inv'
  BY DebtStep, SetupStays
<1>3. Inv => NeverOverdrawn
  BY DEF DebtInv, NeverOverdrawn
<1> QED
  BY <1>1, <1>2, <1>3, PTL DEF Spec

-----------------------------------------------------------------------------
\* Tasks that run one after another.

OneAtATime == \A t, u \in Open : t = u

\* The object is still what the transaction took it for.
Present(t) ==
    /\ tx[t].op = "create" => life[tx[t].obj] = "absent"
    /\ tx[t].op \in {"recycle", "edit"} => life[tx[t].obj] = "live"
    /\ tx[t].op = "restore" => life[tx[t].obj] = "recycled"
    /\ tx[t].op = "destroy" => life[tx[t].obj] \in {"live", "recycled"}

SerialInv == TypeOK /\ OneAtATime /\ \A t \in Open : Present(t)

\* With one worker only an idle system takes up a transaction.
LEMMA LoadsAlone ==
    ASSUME Workers = 1, NEW t \in Task, Load(t)
    PROVE  Open = {}
<1>1. IsFiniteSet(Open)
  BY TaskAssumption, FS_Subset DEF Open
<1>2. Cardinality(Open) \in Nat /\ Cardinality(Open) < 1
  BY <1>1, FS_CardinalityType DEF Load
<1> QED
  BY <1>1, <1>2, FS_EmptySet

LEMMA SerialStep ==
    ASSUME Workers = 1, SerialInv, [Next]_vars
    PROVE  SerialInv'
<1> USE DEF SerialInv
<1>1. TypeOK'
  BY TypeStep
<1>2. ASSUME NEW t \in Task, Load(t) PROVE OneAtATime' /\ \A u \in Open' : Present(u)'
  <2>1. Open' = {t}
    BY <1>2, LoadsAlone, LoadedTransaction DEF Open
  <2>2. tx'[t].op = "create" => life[tx'[t].obj] = "absent"
    BY <1>2, LoadedTransaction DEF Loadable, Fresh
  <2>3. tx'[t].op \in {"recycle", "edit"} => life[tx'[t].obj] = "live"
    BY <1>2, LoadedTransaction DEF Loadable, Live
  <2>4. tx'[t].op = "restore" => life[tx'[t].obj] = "recycled"
    BY <1>2, LoadedTransaction DEF Loadable, Recycled
  <2>5. tx'[t].op = "destroy" => life[tx'[t].obj] \in {"live", "recycled"}
    BY <1>2, LoadedTransaction DEF Loadable, Live, Recycled
  <2>6. life' = life
    BY <1>2 DEF Load
  <2> QED
    BY <2>1, <2>2, <2>3, <2>4, <2>5, <2>6 DEF OneAtATime, Present
<1>3. ASSUME NEW t \in Task, ReadQuota(t) PROVE OneAtATime' /\ \A u \in Open' : Present(u)'
  <2>1. Open' = Open /\ t \in Open /\ life' = life
    BY <1>3, ReadTransaction DEF ReadQuota, Open
  <2> QED
    BY <1>3, <2>1, ReadTransaction DEF OneAtATime, Present, Open
<1>4. ASSUME NEW t \in Task, t \in Open, End(t)
      PROVE  OneAtATime' /\ \A u \in Open' : Present(u)'
  <2>1. Open' = {}
    BY <1>4, EndedTransaction DEF OneAtATime
  <2> QED
    BY <2>1 DEF OneAtATime
<1>5. ASSUME NEW t \in Task, RaiseQuota(t) \/ Kill(t) \/ Commit(t) \/ Refuse(t)
      PROVE  OneAtATime' /\ \A u \in Open' : Present(u)'
  <2>1. t \in Open /\ End(t)
    BY <1>5 DEF RaiseQuota, Kill, Commit, Refuse, ReadyToCommit, Open
  <2> QED
    BY <1>4, <2>1
<1>6. ASSUME UNCHANGED vars PROVE OneAtATime' /\ \A u \in Open' : Present(u)'
  BY <1>6 DEF vars, OneAtATime, Present, Open
<1> QED
  BY <1>1, <1>2, <1>3, <1>5, <1>6 DEF Next, Step

LEMMA SerialInit == Init => SerialInv
  BY InitTypes DEF Init, SerialInv, OneAtATime, Open

\* With one worker a destroyed object stays destroyed (moo/sdk/recovery.py,
\* destroy).
THEOREM SerialDestroyIsFinal == Spec => DestroyIsFinal
<1> DEFINE Inv == Workers = 1 => SerialInv
<1>1. Init => Inv
  BY SerialInit
<1>2. Inv /\ [Next]_vars => Inv'
  BY SerialStep, SetupStays
<1>3. ASSUME Inv, [Next]_vars
      PROVE  [Workers = 1 => \A x \in Object : life[x] = "gone" => life'[x] = "gone"]_vars
  <2>0. CASE Workers # 1
    BY <2>0
  <2>1. ASSUME Workers = 1, NEW t \in Task, Commit(t), NEW x \in Object, life[x] = "gone"
        PROVE  life'[x] = "gone"
    <3>1. /\ tx[t].op \in AllOps \ {"refuse"} /\ Present(t)
          /\ life' = [life EXCEPT ![tx[t].obj] = Kept(t)]
      BY <1>3, <2>1, CommittedTransaction DEF Commit, SerialInv
    <3>2. tx[t].obj # x
      BY <2>1, <3>1 DEF Present, AllOps
    <3> QED
      BY <1>3, <2>1, <3>1, <3>2 DEF SerialInv, TypeOK
  <2>2. ASSUME NEW t \in Task, Load(t) \/ ReadQuota(t) \/ RaiseQuota(t) \/ Refuse(t) \/ Kill(t)
        PROVE  life' = life
    BY <2>2 DEF Load, ReadQuota, RaiseQuota, Refuse, Kill
  <2> QED
    BY <1>3, <2>0, <2>1, <2>2 DEF Next, Step, vars
<1> QED
  BY <1>1, <1>2, <1>3, PTL DEF Spec, DestroyIsFinal

\* The transaction pays for the owner of its object, from the quota as it is.
Accounted(t) ==
    /\ tx[t].op # "edit"
    /\ tx[t].payer = tx[t].owner
    /\ tx[t].op # "create" => owner[tx[t].obj] = tx[t].payer
    /\ tx[t].hidden <=> life[tx[t].obj] = "recycled"
    /\ phase[t] = "read" => tx[t].seen = quota[tx[t].payer]

AccountInv == SerialInv /\ AccountsBalance /\ \A t \in Open : Accounted(t)

\* What the accounts of a player become when one object is counted or not.
LEMMA CountedChanges ==
    ASSUME NEW r \in Player, NEW x \in Object, TypeOK, NEW d \in {-1, 0, 1},
           d = 1 => Counted(r)' = Counted(r) \cup {x} /\ x \notin Counted(r),
           d = -1 => Counted(r)' = Counted(r) \ {x} /\ x \in Counted(r),
           d = 0 => Counted(r)' = Counted(r)
    PROVE  Cardinality(Counted(r)') = Cardinality(Counted(r)) + d /\ Cardinality(Counted(r)) \in Nat
<1>1. IsFiniteSet(Counted(r))
  BY ObjectAssumption, FS_Subset DEF Counted, Live
<1>2. Cardinality(Counted(r)) \in Nat
  BY <1>1, FS_CardinalityType
<1>3. CASE d = 1
  BY <1>1, <1>2, <1>3, FS_AddElement
<1>4. CASE d = -1
  BY <1>1, <1>2, <1>4, FS_RemoveElement
<1>5. CASE d = 0
  BY <1>2, <1>5
<1> QED
  BY <1>3, <1>4, <1>5

\* A commit counts the object in or out as it charges or refunds.
LEMMA CommitBalances ==
    ASSUME AccountInv, NEW t \in Task, Commit(t)
    PROVE  AccountsBalance'
<1> USE DEF AccountInv, SerialInv
<1> DEFINE x == tx[t].obj
           o == tx[t].payer
<1>1. /\ t \in Open /\ tx[t].op \in AllOps \ {"refuse", "edit"} /\ x \in Object /\ o \in Player
      /\ Present(t) /\ Accounted(t)
      /\ \A r \in Player : Payment(t)[r] = IF UsesQuota(t) /\ r = o
                                           THEN tx[t].seen + Delta(t) ELSE quota[r]
  BY CommittedTransaction DEF Commit, Accounted
<1>2. /\ life' = [life EXCEPT ![x] = Kept(t)] /\ owner' = [owner EXCEPT ![x] = o]
      /\ quota' = Payment(t)
      /\ tx[t].op # "create" => owner[x] = o
      /\ UsesQuota(t) => tx[t].seen = quota[o]
  BY <1>1 DEF Commit, Accounted, ReadyToCommit
<1>3. \A r \in Player : quota[r] \in Int /\ quota[r] + Cardinality(Counted(r)) = Allowance
  BY DEF TypeOK, AccountsBalance, Balanced
<1>4. /\ life \in [Object -> {"absent", "live", "recycled", "gone"}]
      /\ owner \in [Object -> Player \cup {Nobody}]
  BY DEF TypeOK
<1>5. \A r \in Player : \A y \in Object :
         y # x => (y \in Counted(r)' <=> y \in Counted(r))
  BY <1>2, <1>4 DEF Counted, Live
<1>6. \A r \in Player : /\ x \in Counted(r)' <=> Kept(t) = "live" /\ r = o
                        /\ x \in Counted(r) <=> life[x] = "live" /\ owner[x] = r
                        /\ Counted(r) \subseteq Object /\ Counted(r)' \subseteq Object
  BY <1>1, <1>2, <1>4 DEF Counted, Live
<1>7. tx[t].op \in {"create", "recycle", "restore", "destroy"}
  BY <1>1 DEF AllOps
<1>8. Charged(t) => UsesQuota(t) /\ Delta(t) = -1 /\ Kept(t) = "live" /\ life[x] # "live"
  BY <1>1, <1>7 DEF Charged, UsesQuota, Delta, Kept, Present
<1>9. ~ Charged(t) /\ Refunded(t) =>
         UsesQuota(t) /\ Delta(t) = 1 /\ Kept(t) # "live" /\ life[x] = "live" /\ owner[x] = o
  <2>1. SUFFICES ASSUME ~ Charged(t), Refunded(t)
                 PROVE  UsesQuota(t) /\ Delta(t) = 1 /\ Kept(t) # "live" /\ life[x] = "live" /\ owner[x] = o
    OBVIOUS
  <2>2. UsesQuota(t) /\ Delta(t) = 1 /\ tx[t].op \in {"recycle", "destroy"}
    BY <1>7, <2>1 DEF Charged, UsesQuota, Delta
  <2>3. Kept(t) # "live" /\ owner[x] = o
    BY <1>2, <2>2 DEF Kept
  <2>4. life[x] = "live"
    BY <1>1, <2>1, <2>2, Zenon DEF Refunded, Present, Accounted
  <2> QED
    BY <2>2, <2>3, <2>4
<1>10. ~ Charged(t) /\ ~ Refunded(t) => ~ UsesQuota(t) /\ Kept(t) # "live" /\ life[x] # "live"
  <2>1. SUFFICES ASSUME ~ Charged(t), ~ Refunded(t)
                 PROVE  ~ UsesQuota(t) /\ Kept(t) # "live" /\ life[x] # "live"
    OBVIOUS
  <2>2. ~ UsesQuota(t)
    BY <2>1 DEF UsesQuota
  <2>3. tx[t].op = "destroy"
    BY <1>7, <2>1 DEF Charged, Refunded
  <2>4. Kept(t) # "live"
    BY <2>3 DEF Kept
  <2>5. life[x] = "recycled"
    BY <1>1, <2>1, <2>3, Zenon DEF Refunded, Accounted
  <2> QED
    BY <2>2, <2>4, <2>5
<1>11. ASSUME NEW r \in Player PROVE quota'[r] + Cardinality(Counted(r)') = Allowance
  <2>1. ASSUME NEW d \in {-1, 0, 1}, quota'[r] = quota[r] - d,
               d = 1 => Counted(r)' = Counted(r) \cup {x} /\ x \notin Counted(r),
               d = -1 => Counted(r)' = Counted(r) \ {x} /\ x \in Counted(r),
               d = 0 => Counted(r)' = Counted(r)
        PROVE  quota'[r] + Cardinality(Counted(r)') = Allowance
    <3>1. /\ Cardinality(Counted(r)') = Cardinality(Counted(r)) + d
          /\ Cardinality(Counted(r)) \in Nat
      BY <1>1, <2>1, CountedChanges
    <3> QED
      BY <1>3, <2>1, <3>1, AllowanceAssumption
  <2>2. quota'[r] = IF UsesQuota(t) /\ r = o THEN quota[o] + Delta(t) ELSE quota[r]
    BY <1>1, <1>2
  <2> HIDE DEF x, o
  <2>3. CASE r # o
    <3>1. x \notin Counted(r)' /\ x \notin Counted(r)
      BY <1>2, <1>6, <1>8, <2>3, <1>7 DEF Charged
    <3>2. Counted(r)' = Counted(r)
      BY <1>5, <1>6, <3>1
    <3> QED
      BY <1>3, <2>1, <2>2, <2>3, <3>2
  <2>4. CASE r = o /\ Charged(t)
    <3>1. Counted(r)' = Counted(r) \cup {x} /\ x \notin Counted(r)
      BY <1>1, <1>5, <1>6, <1>8, <2>4
    <3> QED
      BY <1>3, <1>8, <2>1, <2>2, <2>4, <3>1
  <2>5. CASE r = o /\ ~ Charged(t) /\ Refunded(t)
    <3>1. Counted(r)' = Counted(r) \ {x} /\ x \in Counted(r)
      BY <1>1, <1>5, <1>6, <1>9, <2>5
    <3>2. quota'[r] = quota[r] - (-1)
      BY <1>3, <1>9, <2>2, <2>5
    <3> QED
      BY <2>1, <3>1, <3>2
  <2>6. CASE r = o /\ ~ Charged(t) /\ ~ Refunded(t)
    <3>1. Counted(r)' = Counted(r)
      BY <1>1, <1>5, <1>6, <1>10, <2>6
    <3>2. quota'[r] = quota[r] - 0
      BY <1>3, <1>10, <2>2, <2>6
    <3> QED
      BY <2>1, <3>1, <3>2
  <2> QED
    BY <2>3, <2>4, <2>5, <2>6
<1> QED
  BY <1>11 DEF AccountsBalance, Balanced

LEMMA AccountStep ==
    ASSUME Workers = 1, {"edit", "refuse"} \cap Ops = {}, AccountInv, [Next]_vars
    PROVE  AccountInv'
<1> USE DEF AccountInv
<1>1. SerialInv'
  BY SerialStep
<1>2. ASSUME NEW t \in Task, Load(t) PROVE AccountsBalance' /\ \A u \in Open' : Accounted(u)'
  <2>0. Open' = {t} /\ phase'[t] = "loaded"
    BY <1>2, LoadsAlone, LoadedTransaction DEF Open, SerialInv
  <2>1. UNCHANGED <<life, owner, quota>> /\ Open' = {t} /\ phase'[t] = "loaded"
    BY <1>2, <2>0 DEF Load
  <2>2. tx'[t].op # "create" => owner[tx'[t].obj] = tx'[t].payer
    BY <1>2, LoadedTransaction DEF Owners, SerialInv
  <2>3. Accounted(t)'
    BY <1>2, <2>1, <2>2, LoadedTransaction DEF Accounted, SerialInv
  <2> QED
    BY <2>1, <2>3 DEF AccountsBalance, Balanced, Counted, Live
<1>3. ASSUME NEW t \in Task, ReadQuota(t) PROVE AccountsBalance' /\ \A u \in Open' : Accounted(u)'
  <2>1. UNCHANGED <<life, owner, quota>> /\ Open' = Open /\ t \in Open
    BY <1>3, ReadTransaction DEF ReadQuota, Open, SerialInv
  <2>2. \A u \in Open' : Accounted(u)'
    BY <1>3, <2>1, ReadTransaction DEF Accounted, SerialInv, Open
  <2> QED
    BY <2>1, <2>2 DEF AccountsBalance, Balanced, Counted, Live
<1>4. ASSUME NEW t \in Task, t \in Open, End(t) PROVE \A u \in Open' : Accounted(u)'
  <2>1. Open' = {}
    BY <1>4, EndedTransaction DEF SerialInv, OneAtATime
  <2> QED
    BY <2>1
<1>5. ASSUME NEW t \in Task, RaiseQuota(t) \/ Kill(t)
      PROVE  AccountsBalance' /\ \A u \in Open' : Accounted(u)'
  <2>1. t \in Open /\ End(t) /\ UNCHANGED <<life, owner, quota>>
    BY <1>5 DEF RaiseQuota, Kill, Open
  <2> QED
    BY <1>4, <2>1 DEF AccountsBalance, Balanced, Counted, Live
<1>6. ASSUME NEW t \in Task, Commit(t) PROVE AccountsBalance' /\ \A u \in Open' : Accounted(u)'
  <2>1. t \in Open /\ End(t)
    BY <1>6 DEF Commit, ReadyToCommit, Open
  <2> QED
    BY <1>4, <1>6, <2>1, CommitBalances
<1>7. \A t \in Task : ~ Refuse(t)
  BY DEF Refuse
<1>8. ASSUME UNCHANGED vars PROVE AccountsBalance' /\ \A u \in Open' : Accounted(u)'
  BY <1>8 DEF vars, AccountsBalance, Balanced, Counted, Live, Accounted, Open
<1> QED
  BY <1>1, <1>2, <1>3, <1>5, <1>6, <1>7, <1>8 DEF Next, Step

\* With one worker every player's quota and objects always make up the
\* allowance, as long as nothing is given away and no save is refused
\* (docs/source/explanation/accountability.md, "Object quota").
THEOREM SerialQuotaConserved == Spec => []QuotaConserved
<1> DEFINE Inv == Workers = 1 /\ {"edit", "refuse"} \cap Ops = {} => AccountInv
<1>1. Init => Inv
  <2> SUFFICES ASSUME Init PROVE AccountInv
    OBVIOUS
  <2>1. \A r \in Player : Counted(r) = {} /\ quota[r] = Allowance
    BY DEF Init, Counted, Live
  <2>2. AccountsBalance
    BY <2>1, FS_EmptySet, AllowanceAssumption DEF AccountsBalance, Balanced
  <2>3. Open = {}
    BY DEF Init, Open
  <2> QED
    BY <2>2, <2>3, SerialInit DEF AccountInv
<1>2. Inv /\ [Next]_vars => Inv'
  BY AccountStep, SetupStays
<1>3. Inv => QuotaConserved
  BY DEF AccountInv, QuotaConserved
<1> QED
  BY <1>1, <1>2, <1>3, PTL DEF Spec
=============================================================================
