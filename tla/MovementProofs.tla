--------------------------- MODULE MovementProofs ---------------------------
(***************************************************************************)
(* Theorems about Movement, for any number of objects, tasks and hooks.    *)
(*                                                                         *)
(* Whatever runs concurrently, the variables keep their types, a recycled  *)
(* object is nowhere, and a row changes only by the transaction that holds *)
(* it.  In a serial situation, containment stays a forest and the code      *)
(* implements Containment.                                                 *)
(***************************************************************************)
EXTENDS Movement, FiniteSetTheorems, SequenceTheorems, TLAPS

-----------------------------------------------------------------------------
\* The situation never changes.

LEMMA SetupStays ==
    ASSUME [Next]_vars
    PROVE  setup' = setup /\ Workers' = Workers /\ Ops' = Ops /\ Serial' = Serial
<1>1. setup' = setup
  BY DEF Next, Step, Load, CheckRecursion, RaiseRecursive, Write, Accept, Refuse, Commit, Kill,
         RunHook, vars
<1> QED
  BY <1>1 DEF Workers, Ops, Serial

-----------------------------------------------------------------------------
\* Type correctness.

\* The transaction that a task slot starts is one.
LEMMA TargetsArePlaces ==
    ASSUME TypeOK, NEW op \in Ops, NEW x \in Loadable(op), NEW d \in Targets(op, x)
    PROVE  op \in AllOps /\ x \in Object /\ d \in Place
<1>1. op \in AllOps
  BY SetupsAssumption DEF TypeOK, Ops
<1>2. x \in Object
  BY DEF Loadable, Visible
<1>3. d \in Place
  BY <1>1, <1>2 DEF Targets, Visible, Place, AllOps, TypeOK
<1> QED
  BY <1>1, <1>2, <1>3

\* Letting go of a transaction leaves slots and row locks well typed.
LEMMA EndTypes ==
    ASSUME TypeOK, NEW t \in Task, End(t)
    PROVE  /\ phase' \in [Task -> Phase]
           /\ tx' \in [Task -> Transaction]
           /\ Open' \subseteq Open
           /\ \A u \in Open' : tx'[u] = tx[u] /\ u # t
           /\ rowLock' \in [Object -> Task \cup {Nil}]
<1>1. NoTransaction \in Transaction
  BY DEF NoTransaction, Transaction, AllOps, Place
<1>2. phase' \in [Task -> Phase] /\ tx' \in [Task -> Transaction]
  BY <1>1 DEF End, TypeOK, Phase
<1>3. Open' \subseteq Open /\ \A u \in Open' : tx'[u] = tx[u] /\ u # t
  BY DEF End, Open, TypeOK
<1>4. rowLock' \in [Object -> Task \cup {Nil}]
  BY DEF End, TypeOK
<1> QED
  BY <1>2, <1>3, <1>4

\* The hooks a commit queues are jobs.
LEMMA HooksAreJobs ==
    ASSUME TypeOK, NEW t \in Open
    PROVE  HooksOf(t) \in Seq(Job)
<1>1. tx[t].obj \in Object /\ t \in Task
  BY DEF TypeOK, Open
<1>2. ASSUME NEW verb \in {"exitfunc", "enterfunc"}, NEW room
      PROVE  Hook(verb, room, tx[t].obj) \in Seq(Job)
  <2>1. CASE room \in Hooked
    <3>1. [verb |-> verb, room |-> room, thing |-> tx[t].obj] \in Job
      BY <1>1, <2>1, HookedAssumption DEF Job
    <3> QED
      BY <2>1, <3>1 DEF Hook
  <2>2. CASE room \notin Hooked
    BY <2>2 DEF Hook
  <2> QED
    BY <2>1, <2>2
<1>3. CASE Moves(t)
  <2>1. Hook("exitfunc", tx[t].seen, tx[t].obj) \in Seq(Job)
    BY <1>2
  <2>2. Hook("enterfunc", tx[t].to, tx[t].obj) \in Seq(Job)
    BY <1>2
  <2> QED
    BY <1>3, <2>1, <2>2, ConcatProperties DEF HooksOf
<1>4. CASE ~ Moves(t)
  BY <1>4 DEF HooksOf
<1> QED
  BY <1>3, <1>4

\* The type invariant is inductive under every action.
LEMMA TypeStep ==
    ASSUME TypeOK, [Next]_vars
    PROVE  TypeOK'
<1>1. ASSUME NEW t \in Task, Load(t)
      PROVE  TypeOK'
  <2> USE <1>1
  <2>1. PICK op \in Ops : \E x \in Loadable(op) : \E d \in Targets(op, x) :
             tx' = [tx EXCEPT ![t] = [op |-> op, obj |-> x, to |-> d, seen |-> loc[x]]]
    BY DEF Load
  <2>2. PICK x \in Loadable(op) : \E d \in Targets(op, x) :
             tx' = [tx EXCEPT ![t] = [op |-> op, obj |-> x, to |-> d, seen |-> loc[x]]]
    BY <2>1
  <2>3. PICK d \in Targets(op, x) :
             tx' = [tx EXCEPT ![t] = [op |-> op, obj |-> x, to |-> d, seen |-> loc[x]]]
    BY <2>2
  <2>4. op \in AllOps /\ x \in Object /\ d \in Place
    BY TargetsArePlaces
  <2>5. [op |-> op, obj |-> x, to |-> d, seen |-> loc[x]] \in Transaction
    BY <2>4 DEF Transaction, Place, TypeOK
  <2>6. tx' \in [Task -> Transaction] /\ \A u \in Open' : tx'[u].obj \in Object
    BY <2>3, <2>4, <2>5 DEF Load, TypeOK, Open
  <2> QED
    BY <2>6 DEF Load, TypeOK, Phase
<1>2. ASSUME NEW t \in Task, NEW p \in Phase, phase[t] # "idle",
             phase' = [phase EXCEPT ![t] = p],
             rowLock' = rowLock \/ rowLock' = [rowLock EXCEPT ![tx[t].obj] = t],
             UNCHANGED <<setup, loc, recycled, tx, jobs, present>>
      PROVE  TypeOK'
  <2>1. t \in Open
    BY <1>2 DEF Open
  <2>2. Open' \subseteq Open /\ phase' \in [Task -> Phase]
    BY <1>2, <2>1 DEF TypeOK, Open
  <2>3. rowLock' \in [Object -> Task \cup {Nil}]
    BY <1>2, <2>1 DEF TypeOK
  <2> QED
    BY <1>2, <2>2, <2>3 DEF TypeOK
<1>3. ASSUME NEW t \in Task, End(t), UNCHANGED <<setup, loc, recycled, jobs, present>>
      PROVE  TypeOK'
  BY <1>3, EndTypes DEF TypeOK
<1>4. ASSUME NEW t \in Task, Commit(t)
      PROVE  TypeOK'
  <2> USE <1>4
  <2>1. t \in Open /\ tx[t] \in Transaction /\ tx[t].obj \in Object
    BY DEF Commit, Open, TypeOK
  <2>2. loc' \in [Object -> Place] /\ recycled' \in SUBSET Object
    BY <2>1 DEF Commit, TypeOK, Transaction
  <2>3. jobs' \in Seq(Job)
    BY <2>1, HooksAreJobs, ConcatProperties DEF Commit, TypeOK
  <2>4. /\ phase' \in [Task -> Phase]
        /\ tx' \in [Task -> Transaction]
        /\ \A u \in Open' : tx'[u].obj \in Object
        /\ rowLock' \in [Object -> Task \cup {Nil}]
    BY EndTypes DEF Commit, TypeOK
  <2> QED
    BY <2>2, <2>3, <2>4 DEF Commit, TypeOK
<1>5. ASSUME NEW i \in 1..Workers, RunHook(i)
      PROVE  TypeOK'
  <2> USE <1>5
  <2>1. i \in 1..Len(jobs) /\ Len(jobs) \in Nat /\ jobs[i] \in Job
    BY DEF RunHook, TypeOK
  <2>2. jobs' \in Seq(Job)
    <3>1. SubSeq(jobs, 1, i - 1) \in Seq(Job)
      BY <2>1, SubSeqProperties DEF TypeOK
    <3>2. SubSeq(jobs, i + 1, Len(jobs)) \in Seq(Job)
      BY <2>1, SubSeqProperties DEF TypeOK
    <3> QED
      BY <3>1, <3>2, ConcatProperties DEF RunHook
  <2>3. present' \in [Object -> SUBSET Object]
    BY <2>1 DEF RunHook, TypeOK, Job
  <2> QED
    BY <2>2, <2>3 DEF RunHook, TypeOK, Open
<1>6. CASE UNCHANGED vars
  BY <1>6 DEF vars, TypeOK, Open
<1>7. ASSUME NEW t \in Task, Step(t)
      PROVE  TypeOK'
  <2>1. CASE CheckRecursion(t)
    BY <2>1, <1>2 DEF CheckRecursion, Phase
  <2>2. CASE Write(t)
    BY <2>2, <1>2 DEF Write, Phase
  <2>3. CASE Accept(t)
    BY <2>3, <1>2 DEF Accept, Phase
  <2>4. CASE RaiseRecursive(t) \/ Refuse(t) \/ Kill(t)
    BY <2>4, <1>3 DEF RaiseRecursive, Refuse, Kill
  <2>5. CASE Commit(t)
    BY <2>5, <1>4
  <2> QED
    BY <1>7, <2>1, <2>2, <2>3, <2>4, <2>5 DEF Step
<1> QED
  BY <1>1, <1>5, <1>6, <1>7 DEF Next

LEMMA InitTypes ==
    ASSUME Init
    PROVE  TypeOK
<1>1. NoTransaction \in Transaction
  BY DEF NoTransaction, Transaction, AllOps, Place
<1>2. Open = {}
  BY DEF Init, Open
<1> QED
  BY <1>1, <1>2 DEF Init, TypeOK, Place, Phase

\* Every variable keeps its type and every open transaction is about an object,
\* whatever the tasks, workers and operations are.
THEOREM TypeCorrect == Spec => []TypeOK
<1>1. Init => TypeOK
  BY InitTypes
<1>2. TypeOK /\ [Next]_vars => TypeOK'
  BY TypeStep
<1> QED
  BY <1>1, <1>2, PTL DEF Spec

-----------------------------------------------------------------------------
\* Concurrent tasks: row locks and recycled objects.

\* A written row is held by the transaction that wrote it.
WritersHoldRows ==
    \A t \in Open : phase[t] \in {"written", "accepted"} => rowLock[tx[t].obj] = t

\* A soft-recycle writes no location.
RecyclesGoNowhere == \A t \in Open : tx[t].op = "recycle" => tx[t].to = Nil

ConcurrentInv == TypeOK /\ WritersHoldRows /\ RecyclesGoNowhere /\ HiddenIsNowhere

\* What a load puts into its slot.
LEMMA LoadedTransaction ==
    ASSUME TypeOK, NEW t \in Task, Load(t)
    PROVE  /\ tx'[t].op \in Ops
           /\ tx'[t].obj \in Loadable(tx'[t].op)
           /\ tx'[t].to \in Targets(tx'[t].op, tx'[t].obj)
           /\ tx'[t].seen = loc[tx'[t].obj]
           /\ phase'[t] = "loaded"
           /\ \A u \in Task \ {t} : tx'[u] = tx[u] /\ phase'[u] = phase[u]
<1>1. PICK op \in Ops : \E x \in Loadable(op) : \E d \in Targets(op, x) :
           tx' = [tx EXCEPT ![t] = [op |-> op, obj |-> x, to |-> d, seen |-> loc[x]]]
  BY DEF Load
<1>2. PICK x \in Loadable(op) : \E d \in Targets(op, x) :
           tx' = [tx EXCEPT ![t] = [op |-> op, obj |-> x, to |-> d, seen |-> loc[x]]]
  BY <1>1
<1>3. PICK d \in Targets(op, x) :
           tx' = [tx EXCEPT ![t] = [op |-> op, obj |-> x, to |-> d, seen |-> loc[x]]]
  BY <1>2
<1>4. tx'[t] = [op |-> op, obj |-> x, to |-> d, seen |-> loc[x]]
  BY <1>3 DEF TypeOK
<1>5. phase'[t] = "loaded" /\ \A u \in Task \ {t} : tx'[u] = tx[u] /\ phase'[u] = phase[u]
  BY <1>3 DEF Load, TypeOK
<1> QED
  BY <1>4, <1>5

\* A commit writes one row, and the other slots keep what they had.
LEMMA CommittedRow ==
    ASSUME TypeOK, NEW t \in Task, Commit(t)
    PROVE  /\ t \in Open /\ tx[t].obj \in Object /\ phase[t] \in {"written", "accepted"}
           /\ loc' = [loc EXCEPT ![tx[t].obj] = tx[t].to]
           /\ recycled' = IF tx[t].op = "recycle" THEN recycled \cup {tx[t].obj}
                                         ELSE recycled \ {tx[t].obj}
           /\ \A u \in Open' : u \in Open /\ u # t /\ tx'[u] = tx[u] /\ phase'[u] = phase[u]
           /\ \A x \in Object : rowLock'[x] = IF rowLock[x] = t THEN Nil ELSE rowLock[x]
<1>1. t \in Open /\ phase[t] \in {"written", "accepted"}
  BY DEF Commit, Open
<1>2. \A u \in Open' : u \in Open /\ u # t /\ tx'[u] = tx[u] /\ phase'[u] = phase[u]
  BY DEF Commit, End, Open, TypeOK
<1> QED
  BY <1>1, <1>2 DEF Commit, End, TypeOK

LEMMA ConcurrentStep ==
    ASSUME ConcurrentInv, [Next]_vars
    PROVE  ConcurrentInv'
<1> USE DEF ConcurrentInv
<1>0. TypeOK'
  BY TypeStep
<1>1. ASSUME NEW t \in Task, Load(t)
      PROVE  WritersHoldRows' /\ RecyclesGoNowhere' /\ HiddenIsNowhere'
  <2>1. WritersHoldRows'
    BY <1>1, LoadedTransaction DEF WritersHoldRows, Open, Load
  <2>2. RecyclesGoNowhere'
    BY <1>1, LoadedTransaction DEF RecyclesGoNowhere, Open, Targets
  <2>3. HiddenIsNowhere'
    BY <1>1 DEF HiddenIsNowhere, Load
  <2> QED
    BY <2>1, <2>2, <2>3
<1>2. ASSUME NEW t \in Task, CheckRecursion(t)
      PROVE  WritersHoldRows' /\ RecyclesGoNowhere' /\ HiddenIsNowhere'
  BY <1>2 DEF CheckRecursion, WritersHoldRows, RecyclesGoNowhere, HiddenIsNowhere, Open, TypeOK
<1>3. ASSUME NEW t \in Task, Write(t)
      PROVE  WritersHoldRows' /\ RecyclesGoNowhere' /\ HiddenIsNowhere'
  <2>1. t \in Open /\ Open' = Open
    BY <1>3 DEF Write, Open, TypeOK
  <2>2. WritersHoldRows'
    <3> SUFFICES ASSUME NEW u \in Open, phase'[u] \in {"written", "accepted"}
                 PROVE  rowLock'[tx[u].obj] = u
      BY <1>3, <2>1 DEF Write, WritersHoldRows
    <3>1. CASE u = t
      BY <1>3, <2>1, <3>1 DEF Write, TypeOK
    <3>2. CASE u # t
      <4>1. rowLock[tx[u].obj] = u /\ u \in Task
        BY <1>3, <3>2 DEF Write, WritersHoldRows, TypeOK, Open
      <4>2. tx[u].obj # tx[t].obj
        BY <1>3, <4>1, TaskAssumption DEF Write
      <4> QED
        BY <1>3, <4>1, <4>2 DEF Write, TypeOK
    <3> QED
      BY <3>1, <3>2
  <2> QED
    BY <1>3, <2>1, <2>2 DEF Write, RecyclesGoNowhere, HiddenIsNowhere
<1>4. ASSUME NEW t \in Task, Accept(t)
      PROVE  WritersHoldRows' /\ RecyclesGoNowhere' /\ HiddenIsNowhere'
  BY <1>4 DEF Accept, WritersHoldRows, RecyclesGoNowhere, HiddenIsNowhere, Open, TypeOK
<1>5. ASSUME NEW t \in Task, End(t), UNCHANGED <<loc, recycled>>
      PROVE  WritersHoldRows' /\ RecyclesGoNowhere' /\ HiddenIsNowhere'
  <2>1. \A u \in Open' : u \in Open /\ u # t /\ tx'[u] = tx[u] /\ phase'[u] = phase[u]
    BY <1>5 DEF End, Open, TypeOK
  <2>2. \A x \in Object : rowLock'[x] = IF rowLock[x] = t THEN Nil ELSE rowLock[x]
    BY <1>5 DEF End
  <2>3. WritersHoldRows'
    BY <2>1, <2>2 DEF WritersHoldRows, TypeOK
  <2> QED
    BY <1>5, <2>1, <2>3 DEF RecyclesGoNowhere, HiddenIsNowhere
<1>6. ASSUME NEW t \in Task, Commit(t)
      PROVE  WritersHoldRows' /\ RecyclesGoNowhere' /\ HiddenIsNowhere'
  <2>1. WritersHoldRows'
    BY <1>6, CommittedRow DEF WritersHoldRows, TypeOK
  <2>2. RecyclesGoNowhere'
    BY <1>6, CommittedRow DEF RecyclesGoNowhere
  <2>3. HiddenIsNowhere'
    BY <1>6, CommittedRow DEF RecyclesGoNowhere, HiddenIsNowhere, TypeOK
  <2> QED
    BY <2>1, <2>2, <2>3
<1>7. ASSUME NEW t \in Task, Step(t)
      PROVE  WritersHoldRows' /\ RecyclesGoNowhere' /\ HiddenIsNowhere'
  <2>1. CASE RaiseRecursive(t) \/ Refuse(t) \/ Kill(t)
    BY <1>5, <2>1 DEF RaiseRecursive, Refuse, Kill
  <2> QED
    BY <1>2, <1>3, <1>4, <1>6, <1>7, <2>1 DEF Step
<1>8. ASSUME NEW i \in 1..Workers, RunHook(i)
      PROVE  WritersHoldRows' /\ RecyclesGoNowhere' /\ HiddenIsNowhere'
  BY <1>8 DEF RunHook, WritersHoldRows, RecyclesGoNowhere, HiddenIsNowhere, Open
<1>9. CASE UNCHANGED vars
  BY <1>0, <1>9 DEF vars, WritersHoldRows, RecyclesGoNowhere, HiddenIsNowhere, Open
<1> QED
  BY <1>0, <1>1, <1>7, <1>8, <1>9 DEF Next

LEMMA InitConcurrent ==
    ASSUME Init
    PROVE  ConcurrentInv
<1>1. Open = {}
  BY DEF Init, Open
<1>2. TypeOK
  BY InitTypes
<1> QED
  BY <1>1, <1>2 DEF Init, ConcurrentInv, WritersHoldRows, RecyclesGoNowhere, HiddenIsNowhere

LEMMA ConcurrentInvariant == Spec => []ConcurrentInv
<1>1. Init => ConcurrentInv
  BY InitConcurrent
<1>2. ConcurrentInv /\ [Next]_vars => ConcurrentInv'
  BY ConcurrentStep
<1> QED
  BY <1>1, <1>2, PTL DEF Spec

\* A recycled object is nowhere, however the whole-row saves of concurrent tasks
\* interleave: flag and location are columns of one row, written together.
THEOREM RecycledStaysNowhere == Spec => []HiddenIsNowhere
<1>1. ConcurrentInv => HiddenIsNowhere
  BY DEF ConcurrentInv
<1> QED
  BY <1>1, ConcurrentInvariant, PTL

\* Only the one transaction that holds a row's lock changes the row.
THEOREM RowsChangeUnderLock == Spec => OnlyRowHolderWrites
<1> DEFINE Held(x) ==
      /\ rowLock[x] \in Open
      /\ tx[rowLock[x]].obj = x
      /\ \A t \in Open : phase[t] \in {"written", "accepted"} /\ tx[t].obj = x
                         => t = rowLock[x]
           RowsHeld == \A x \in Object :
              <<loc[x], x \in recycled>>' # <<loc[x], x \in recycled>> => Held(x)
<1>1. ASSUME ConcurrentInv, [Next]_vars
      PROVE  [RowsHeld]_vars
  <2> USE <1>1 DEF ConcurrentInv
  <2>1. ASSUME NEW t \in Task, Commit(t)
        PROVE  RowsHeld
    <3> SUFFICES ASSUME NEW x \in Object, <<loc[x], x \in recycled>>' # <<loc[x], x \in recycled>>
                 PROVE  Held(x)
      OBVIOUS
    <3>1. x = tx[t].obj
      BY <2>1, CommittedRow DEF TypeOK
    <3>2. rowLock[x] = t
      BY <2>1, <3>1, CommittedRow DEF WritersHoldRows
    <3>3. t \in Open
      BY <2>1, CommittedRow
    <3>4. \A u \in Open : phase[u] \in {"written", "accepted"} /\ tx[u].obj = x => u = t
      BY <3>2 DEF WritersHoldRows
    <3> QED
      BY <3>1, <3>2, <3>3, <3>4
  <2>2. ASSUME UNCHANGED <<loc, recycled>>
        PROVE  RowsHeld
    BY <2>2
  <2>3. CASE UNCHANGED vars
    BY <2>3
  <2>4. CASE Next
    BY <2>1, <2>2, <2>4 DEF Next, Step, Load, CheckRecursion, RaiseRecursive, Write, Accept,
                            Refuse, Kill, RunHook
  <2> QED
    BY <2>3, <2>4
<1>2. Spec => [][RowsHeld]_vars
  BY <1>1, ConcurrentInvariant, PTL DEF Spec
<1> QED
  BY <1>2 DEF OnlyRowHolderWrites

-----------------------------------------------------------------------------
\* Serial situations: the code implements Containment.

OneAtATime == \A t, u \in Open : t = u

\* With nobody else writing, what a task read when it loaded is still so.
StillAsLoaded ==
    \A t \in Open : /\ tx[t].op \in Ops
                    /\ tx[t].obj \in Visible
                    /\ tx[t].to \in Targets(tx[t].op, tx[t].obj)
                    /\ tx[t].seen = loc[tx[t].obj]

SerialInv == /\ ConcurrentInv
             /\ OneAtATime
             /\ StillAsLoaded
             /\ CheckStaysValid

\* A task loads only when no other is open.
LEMMA LoadsAlone ==
    ASSUME Serial, TypeOK, NEW t \in Task, Load(t)
    PROVE  Open = {} /\ Open' = {t}
<1>1. IsFiniteSet(Open)
  BY TaskAssumption, FS_Subset DEF Open
<1>2. Cardinality(Open) \in Nat /\ Cardinality(Open) < 1
  BY <1>1, FS_CardinalityType DEF Load, Serial
<1>3. Open = {}
  BY <1>1, <1>2, FS_EmptySet
<1> QED
  BY <1>3, LoadedTransaction DEF Open

LEMMA SerialStep ==
    ASSUME Serial, SerialInv, [Next]_vars
    PROVE  SerialInv'
<1> DEFINE Rest == OneAtATime /\ StillAsLoaded /\ CheckStaysValid
<1> USE DEF SerialInv
<1>0. ConcurrentInv' /\ TypeOK
  BY ConcurrentStep DEF ConcurrentInv
<1>a. setup' = setup /\ Ops' = Ops
  BY SetupStays
<1>1. ASSUME NEW t \in Task, Load(t)
      PROVE  Rest'
  <2>1. Open' = {t} /\ phase'[t] = "loaded"
    BY <1>0, <1>1, LoadsAlone, LoadedTransaction
  <2>2. OneAtATime' /\ CheckStaysValid'
    BY <2>1 DEF OneAtATime, CheckStaysValid
  <2>3. loc' = loc /\ recycled' = recycled /\ "restore" \notin Ops
    BY <1>1 DEF Load, Serial
  <2>4. StillAsLoaded'
    BY <1>0, <1>a, <1>1, <2>1, <2>3, LoadedTransaction DEF StillAsLoaded, Targets, Loadable, Visible
  <2> QED
    BY <2>2, <2>4
<1>2. ASSUME NEW t \in Task, CheckRecursion(t)
      PROVE  Rest'
  <2>1. Open' = Open /\ t \in Open
    BY <1>0, <1>2 DEF CheckRecursion, Open, TypeOK
  <2>2. UNCHANGED <<loc, recycled, tx>> /\ ~ Recursive(t)
    BY <1>2 DEF CheckRecursion
  <2>3. OneAtATime' /\ StillAsLoaded'
    BY <1>a, <2>1, <2>2 DEF OneAtATime, StillAsLoaded, Targets, Visible
  <2>4. \A u \in Open : u = t
    BY <2>1 DEF OneAtATime
  <2>5. CheckStaysValid'
    BY <2>1, <2>2, <2>4
       DEF CheckStaysValid, Recursive, Contains, HoldsContentsOf, Visible
  <2> QED
    BY <2>3, <2>5
<1>3. ASSUME NEW t \in Task, Write(t) \/ Accept(t)
      PROVE  Rest'
  <2>1. Open' = Open /\ t \in Open /\ phase[t] \in {"checked", "written"}
    BY <1>0, <1>3 DEF Write, Accept, Open, TypeOK
  <2>2. UNCHANGED <<loc, recycled, tx>>
    BY <1>3 DEF Write, Accept
  <2>3. OneAtATime' /\ StillAsLoaded'
    BY <1>a, <2>1, <2>2 DEF OneAtATime, StillAsLoaded, Targets, Visible
  <2>4. \A u \in Open : u = t
    BY <2>1 DEF OneAtATime
  <2>5. ~ Recursive(t)
    BY <2>1 DEF CheckStaysValid
  <2>6. CheckStaysValid'
    BY <2>1, <2>2, <2>4, <2>5
       DEF CheckStaysValid, Recursive, Contains, HoldsContentsOf, Visible
  <2> QED
    BY <2>3, <2>6
<1>4. ASSUME NEW t \in Open, End(t)
      PROVE  Rest'
  <2>1. Open' = {}
    BY <1>0, <1>4 DEF End, Open, TypeOK, OneAtATime
  <2> QED
    BY <2>1 DEF OneAtATime, StillAsLoaded, CheckStaysValid
<1>5. ASSUME NEW t \in Task, Step(t)
      PROVE  Rest'
  <2>1. CASE RaiseRecursive(t) \/ Refuse(t) \/ Commit(t) \/ Kill(t)
    BY <1>4, <2>1 DEF RaiseRecursive, Refuse, Commit, Kill, Open
  <2> QED
    BY <1>2, <1>3, <1>5, <2>1 DEF Step
<1>6. ASSUME UNCHANGED <<loc, recycled, phase, tx>>
      PROVE  Rest'
  BY <1>a, <1>6 DEF OneAtATime, StillAsLoaded, CheckStaysValid, Open, Targets, Visible,
              Recursive, Contains, HoldsContentsOf
<1> QED
  BY <1>0, <1>1, <1>5, <1>6 DEF Next, RunHook, vars

SerialHolds == ConcurrentInv /\ (Serial => SerialInv)

LEMMA SerialInvariant == Spec => []SerialHolds
<1>1. Init => SerialHolds
  <2> SUFFICES ASSUME Init PROVE SerialHolds
    OBVIOUS
  <2>1. Open = {}
    BY DEF Init, Open
  <2>2. ConcurrentInv
    BY InitConcurrent
  <2> QED
    BY <2>1, <2>2 DEF SerialHolds, SerialInv, OneAtATime, StillAsLoaded, CheckStaysValid
<1>2. SerialHolds /\ [Next]_vars => SerialHolds'
  BY ConcurrentStep, SerialStep, SetupStays DEF SerialHolds
<1> QED
  BY <1>1, <1>2, PTL DEF Spec

\* In a serial situation no other task makes the destination part of the moved
\* object's contents between the recursion check and the commit.
THEOREM SerialChecksStayValid == Spec => []CheckStaysValid
<1>1. SerialHolds => CheckStaysValid
  BY DEF SerialHolds, SerialInv, CheckStaysValid
<1> QED
  BY <1>1, SerialInvariant, PTL

\* What a commit does to containment, seen from the abstract specification.
LEMMA CommitIsAMove ==
    ASSUME Serial, Serial', SerialInv, NEW t \in Task, Commit(t)
    PROVE  [Abstract!Next]_Shown
<1> DEFINE x == tx[t].obj
           d == tx[t].to
<1> USE DEF SerialInv, ConcurrentInv
<1>0. Shown = loc /\ Shown' = loc'
  BY DEF Shown
<1>1. t \in Open /\ x \in Object /\ Shown' = [Shown EXCEPT ![x] = d]
  BY <1>0, CommittedRow
<1>2. tx[t].op \in Ops /\ d \in Targets(tx[t].op, x) /\ x \in Visible
  BY <1>1 DEF StillAsLoaded
<1>3. CASE d = Nil
  BY <1>1, <1>3 DEF Abstract!Next, Abstract!PutNowhere
<1>4. CASE d # Nil /\ tx[t].op = "edit"
  <2>1. d = loc[x]
    BY <1>2, <1>4 DEF Targets
  <2> QED
    BY <1>0, <1>1, <2>1 DEF TypeOK
<1>5. CASE d # Nil /\ tx[t].op # "edit"
  <2>1. d \in Visible \ {x}
    BY <1>2, <1>5 DEF Targets, Serial
  <2>2. ~ Contains(x, d)
    BY <1>1, <1>5, CommittedRow DEF CheckStaysValid, Recursive
  <2>3. PICK S \in SUBSET Object : HoldsContentsOf(S, x) /\ d \notin S
    BY <1>2, <2>2 DEF Contains
  <2>4. \A y \in Object : loc[y] \in S \cup {x} => y \in Visible
    BY <1>1, NilAssumption DEF HiddenIsNowhere, Visible
  <2>5. Abstract!HoldsContentsOf(S, x)
    BY <1>0, <2>3, <2>4 DEF HoldsContentsOf, Abstract!HoldsContentsOf
  <2>6. ~ Abstract!Within(d, x)
    BY <2>3, <2>5 DEF Abstract!Within
  <2>7. Abstract!PutInto(x, d)
    BY <1>1, <2>1, <2>6 DEF Abstract!PutInto
  <2> QED
    BY <1>1, <2>1, <2>7 DEF Abstract!Next, Visible
<1> QED
  BY <1>3, <1>4, <1>5

\* In a serial situation every save is a step of Containment or leaves all
\* locations alone: the recursion check, which looks only at visible objects, is
\* the guard of the abstract move, because a recycled object is nowhere.
THEOREM SerialImplements == Spec => ImplementsContainment
<1>1. Init => Abstract!Init
  BY DEF Init, Abstract!Init, Shown
<1>2. ASSUME SerialHolds, [Next]_vars
      PROVE  [Abstract!Next]_Shown
  <2>0. Serial' = Serial
    BY <1>2, SetupStays
  <2>1. ASSUME ~ Serial
        PROVE  [Abstract!Next]_Shown
    BY <2>0, <2>1 DEF Shown
  <2>2. ASSUME Serial, NEW t \in Task, Commit(t)
        PROVE  [Abstract!Next]_Shown
    BY <1>2, <2>0, <2>2, CommitIsAMove DEF SerialHolds
  <2>3. ASSUME UNCHANGED loc
        PROVE  [Abstract!Next]_Shown
    BY <2>0, <2>3 DEF Shown
  <2> QED
    BY <1>2, <2>1, <2>2, <2>3 DEF Next, Step, Load, CheckRecursion, RaiseRecursive, Write,
                                  Accept, Refuse, Kill, RunHook, vars
<1> QED
  BY <1>1, <1>2, SerialInvariant, PTL DEF Spec, ImplementsContainment, Abstract!Spec

Promise == INSTANCE ContainmentProofs WITH Object <- Object, Nil <- Nil, loc <- Shown

\* In a serial situation there is never a containment loop.
THEOREM SerialForest == Spec => [](Serial => ContainmentForest)
<1>1. Promise!Spec => [](Promise!TypeOK /\ Promise!Forest)
  BY NilAssumption, Promise!ForestInvariant
<1>2. Abstract!Init => Promise!Init
  BY DEF Abstract!Init, Promise!Init
<1>3. [Abstract!Next]_Shown => [Promise!Next]_Shown
  BY DEF Abstract!Next, Abstract!PutInto, Abstract!PutNowhere, Abstract!Within,
         Abstract!HoldsContentsOf,
         Promise!Next, Promise!PutInto, Promise!PutNowhere, Promise!Within,
         Promise!HoldsContentsOf
<1>4. Promise!Forest => (Serial => ContainmentForest)
  BY DEF Promise!Forest, ContainmentForest, Shown
<1> QED
  BY <1>1, <1>2, <1>3, <1>4, SerialImplements, PTL
     DEF ImplementsContainment, Abstract!Spec, Promise!Spec

\* In a serial situation an object arrives somewhere only because accept was
\* asked about this object in this transaction, or by the guaranteed move.
THEOREM SerialMovesAreAccepted == Spec => MovesAreAccepted
<1> DEFINE Asked(x) == \E t \in Open : /\ tx[t].obj = x
                                       /\ tx[t].to = loc'[x]
                                       /\ phase[t] = "accepted" \/ tx[t].op = "home"
           Arrivals == Serial =>
                          \A x \in Object : loc'[x] \notin {loc[x], Nil} => Asked(x)
<1>1. ASSUME SerialHolds, [Next]_vars
      PROVE  [Arrivals]_vars
  <2> USE <1>1 DEF SerialHolds, SerialInv, ConcurrentInv
  <2>1. ASSUME NEW t \in Task, Commit(t)
        PROVE  Arrivals
    <3> SUFFICES ASSUME Serial, NEW x \in Object, loc'[x] \notin {loc[x], Nil}
                 PROVE  Asked(x)
      OBVIOUS
    <3>1. t \in Open /\ tx[t].obj = x /\ tx[t].to = loc'[x]
      BY <2>1, CommittedRow DEF TypeOK
    <3>2. Moves(t)
      BY <3>1 DEF Moves, StillAsLoaded
    <3>3. phase[t] = "accepted" \/ tx[t].op = "home"
      BY <2>1, <3>2 DEF Commit, AsksAccept
    <3> QED
      BY <3>1, <3>3
  <2>2. ASSUME UNCHANGED loc
        PROVE  Arrivals
    BY <2>2
  <2>3. CASE UNCHANGED vars
    BY <2>3
  <2>4. CASE Next
    BY <2>1, <2>2, <2>4 DEF Next, Step, Load, CheckRecursion, RaiseRecursive, Write, Accept,
                            Refuse, Kill, RunHook
  <2> QED
    BY <2>3, <2>4
<1>2. Spec => [][Arrivals]_vars
  BY <1>1, SerialInvariant, PTL DEF Spec
<1> QED
  BY <1>2 DEF MovesAreAccepted
=============================================================================
