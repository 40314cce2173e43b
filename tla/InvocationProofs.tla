--------------------------- MODULE InvocationProofs ---------------------------
(***************************************************************************)
(* With whose rights and on what a verb runs, for any objects, owners and  *)
(* depth of calls.                                                         *)
(***************************************************************************)
EXTENDS Invocation, WellFoundedInduction, TLAPS

Instance == Callee \cup {Own}

\* The object of a verb; a block has none.
ObjectOf(e) == IF e.is = "verb" THEN e.this ELSE None

Rights(e) == IF e.is = "block" THEN e.as ELSE VerbOwner[e.origin]

\* Frame by frame the caller stack says what is under way, and where to go back.
StackFollows ==
    /\ Len(stack) = Len(running)
    /\ \A i \in 1..Len(running) :
          /\ stack[i].caller = Rights(running[i])
          /\ stack[i].this = ObjectOf(running[i])
          /\ stack[i].previous = IF i = 1 THEN job.caller ELSE stack[i - 1].caller
    /\ caller = IF running = <<>> THEN job.caller ELSE stack[Len(stack)].caller

\* A verb is bound to something; blocks are in verbs.
VerbsAreBound ==
    /\ \A i \in 1..Len(running) : running[i].is = "verb" =>
          /\ running[i].inst \in Instance /\ running[i].this \in Callee /\ running[i].origin \in Callee
          /\ bound[running[i].inst] # None
    /\ \A i \in DOMAIN hooks : bound[hooks[i].inst] # None
    /\ \A n \in 1..Len(running) : \E i \in 1..n :
          running[i].is = "verb" /\ \A j \in (i + 1)..n : running[j].is = "block"

\* An early verb has called nothing, and its instance is bound as it was.
EarlyIsBound ==
    /\ \A i \in 1..Len(running) : running[i].early =>
          running[i].is = "verb" /\ bound[running[i].inst] = running[i].this
    /\ \A i, j \in 1..Len(running) : i < j /\ running[j].is = "verb" => ~ running[i].early

\* Who typed is the player in all that is to come.
PlayersAreHanded ==
    /\ \A c \in posted : c.player \in Typists \/ c.reply
    /\ \A i \in DOMAIN hooks : hooks[i].player \in Typists \/ job.reply

\* Between tasks nothing is left.
IdleIsClean == phase = "idle" => running = <<>> /\ hooks = <<>>

CallInv ==
    /\ CallsTypeOK
    /\ StackFollows
    /\ VerbsAreBound
    /\ EarlyIsBound
    /\ ThisIsKept
    /\ PlayersAreHanded
    /\ PlayerStays
    /\ IdleIsClean

-----------------------------------------------------------------------------
\* A set of positions has a first one.
LEMMA FirstExists ==
    ASSUME NEW S \in SUBSET Nat, S # {}
    PROVE  \E i \in S : \A j \in S : i <= j
<1> DEFINE R == {e \in Nat \X Nat : e[1] < e[2]}
<1>1. IsWellFoundedOn(R, Nat)
  BY NatLessThanWellFounded, Zenon DEF OpToRel
<1>2. \A i, j \in Nat : j < i => <<j, i>> \in R
  OBVIOUS
<1> HIDE DEF R
<1>3. PICK i \in S : \A j \in S : ~ (<<j, i>> \in R)
  BY <1>1, WFMin
<1>4. \A j \in S : ~ (j < i)
  BY <1>2, <1>3, Zenon
<1> QED
  BY <1>4

\* An object that has a verb has it from an object that defines one
\* (Object._lookup_verb).
LEMMA LookupFinds ==
    ASSUME NEW o \in Callee, has_verb(o)
    PROVE  _lookup_verb(o) \in Callee /\ _lookup_verb(o) \in DOMAIN VerbOwner
<1> DEFINE S == Definers(Line[o])
<1>1. Line[o] \in Seq(Callee)
  BY InvocationAssumption
<1>2. S \in SUBSET Nat /\ S # {}
  BY <1>1 DEF has_verb, Definers
<1>3. \E i \in S : \A j \in S : i <= j
  <2> HIDE DEF S
  <2> QED
    BY <1>2, FirstExists
<1>4. PICK i \in S : _lookup_verb(o) = Line[o][i]
  BY <1>3 DEF _lookup_verb, Nearest
<1> QED
  BY <1>1, <1>4 DEF Definers

\* While anything runs there is exactly one verb at the top.
LEMMA TopIsUnique ==
    ASSUME CallInv, running # <<>>
    PROVE  /\ Top \in 1..Len(running) /\ IsTop(Top)
           /\ \A i \in 1..Len(running) : IsTop(i) => i = Top
<1>1. running \in Seq(Activation) /\ Len(running) \in Nat /\ Len(running) # 0
  BY DEF CallInv, CallsTypeOK
<1>2. DOMAIN running = 1..Len(running)
  BY <1>1
<1>3. PICK i \in 1..Len(running) :
         running[i].is = "verb" /\ \A j \in (i + 1)..Len(running) : running[j].is = "block"
  BY <1>1 DEF CallInv, VerbsAreBound
<1>4. IsTop(i)
  BY <1>1, <1>2, <1>3 DEF IsTop
<1>5. Top \in DOMAIN running /\ IsTop(Top)
  BY <1>2, <1>4 DEF Top
<1>6. ASSUME NEW k \in 1..Len(running), IsTop(k)
      PROVE  k = Top
  BY <1>1, <1>2, <1>5, <1>6 DEF IsTop
<1> QED
  BY <1>2, <1>5, <1>6

\* A look-up makes the top verb late and changes nothing else.
LEMMA LaterIsLate ==
    ASSUME CallInv
    PROVE  /\ Later \in Seq(Activation) /\ Len(Later) = Len(running)
           /\ \A i \in 1..Len(running) :
                 /\ Later[i].is = running[i].is /\ Later[i].inst = running[i].inst
                 /\ Later[i].this = running[i].this /\ Later[i].origin = running[i].origin
                 /\ Later[i].as = running[i].as /\ Later[i].by = running[i].by
                 /\ ~ Later[i].early
<1>1. running \in Seq(Activation)
  BY DEF CallInv, CallsTypeOK
<1>2. CASE running = <<>>
  BY <1>1, <1>2 DEF Later
<1>3. CASE running # <<>>
  <2>1. Top \in 1..Len(running) /\ IsTop(Top)
    BY <1>3, TopIsUnique
  <2>2. DOMAIN running = 1..Len(running) /\ \A i \in 1..Len(running) : running[i] \in Activation
    BY <1>1
  <2>3. Later = [running EXCEPT ![Top].early = FALSE]
    BY <1>3 DEF Later
  <2>4. [running[Top] EXCEPT !.early = FALSE] \in Activation
    BY <2>1, <2>2 DEF Activation
  <2>5. Later \in Seq(Activation) /\ Len(Later) = Len(running)
    BY <1>1, <2>1, <2>2, <2>3, <2>4
  <2>9. /\ \A i \in 1..Len(running) : running[i].early => running[i].is = "verb"
        /\ \A i, j \in 1..Len(running) : i < j /\ running[j].is = "verb" => ~ running[i].early
    BY Zenon DEF CallInv, EarlyIsBound
  <2>6. ASSUME NEW i \in 1..Len(running), i # Top
        PROVE  Later[i] = running[i] /\ ~ running[i].early
    <3>1. Later[i] = running[i]
      BY <2>2, <2>3, <2>6
    <3>2. CASE i < Top
      <4>1. running[Top].is = "verb"
        BY <2>1 DEF IsTop
      <4> QED
        BY <2>1, <2>9, <3>1, <3>2, <4>1, Zenon
    <3>3. CASE i > Top
      <4>1. running[i].is = "block"
        BY <2>1, <2>2, <3>3 DEF IsTop
      <4>2. running[i].is # "verb"
        BY <4>1
      <4> QED
        BY <2>9, <3>1, <4>2, Zenon
    <3> QED
      BY <2>1, <2>6, <3>1, <3>2, <3>3
  <2>7. Later[Top] = [running[Top] EXCEPT !.early = FALSE]
    BY <2>1, <2>2, <2>3
  <2>8. /\ Later[Top].is = running[Top].is /\ Later[Top].inst = running[Top].inst
        /\ Later[Top].this = running[Top].this /\ Later[Top].origin = running[Top].origin
        /\ Later[Top].as = running[Top].as /\ Later[Top].by = running[Top].by
        /\ ~ Later[Top].early
    BY <2>1, <2>2, <2>7 DEF Activation
  <2> QED
    BY <2>5, <2>6, <2>8
<1> QED
  BY <1>2, <1>3

-----------------------------------------------------------------------------
\* A task that is under way runs as someone.
LEMMA CallerIsSomeone ==
    ASSUME CallInv, phase # "idle"
    PROVE  caller \in Runner /\ job \in Task
<1>1. job \in Task /\ stack \in Seq(Frame) /\ running \in Seq(Activation)
  BY DEF CallInv, CallsTypeOK
<1>2. job.caller \in Runner
  BY <1>1 DEF Task
<1>3. Len(stack) = Len(running) /\ caller = IF running = <<>> THEN job.caller ELSE stack[Len(stack)].caller
  BY DEF CallInv, StackFollows
<1>4. CASE running # <<>>
  <2>1. Len(stack) \in DOMAIN stack
    BY <1>1, <1>3, <1>4
  <2>2. stack[Len(stack)] \in Frame
    BY <1>1, <2>1
  <2>3. stack[Len(stack)].caller \in Runner
    BY <2>2 DEF Frame
  <2> QED
    BY <1>1, <1>3, <1>4, <2>3
<1> QED
  BY <1>1, <1>2, <1>3, <1>4

\* A call keeps all: its frame remembers the caller, the verb that called is late
\* from now on, and the one that is called is early (Verb.__call__).
LEMMA CallKeeps ==
    ASSUME CallInv, phase = "working",
           NEW i \in Instance, NEW b \in [Instance -> Callee \cup {None}],
           NEW by \in {"call", "pass", "early"},
           b[i] \in Callee, Origin(i, b) \in Callee, Origin(i, b) \in DOMAIN VerbOwner,
           \A k \in Instance : bound[k] # None => b[k] # None,
           by = "early" => running # <<>> /\ b[i] = running[Top].this,
           Verb_call(i, b, by), UNCHANGED <<phase, job, hooks, posted>>
    PROVE  CallInv'
<1> DEFINE n == Len(running)
           o == Origin(i, b)
           e == [is |-> "verb", inst |-> i, this |-> b[i], origin |-> o, as |-> VerbOwner[o], by |-> by, early |-> TRUE]
           f == [this |-> b[i], origin |-> o, caller |-> VerbOwner[o], previous |-> caller]
<1>1. /\ running' = Append(Later, e) /\ bound' = b
      /\ stack' = Append(stack, f) /\ caller' = VerbOwner[o]
  BY DEF Verb_call, override_caller
<1>2. VerbOwner[o] \in Runner /\ caller \in Runner
  BY CallerIsSomeone, InvocationAssumption
<1>3. e \in Activation /\ f \in Frame
  BY <1>2 DEF Activation, Frame, Instance
<1>4. /\ Later \in Seq(Activation) /\ Len(Later) = n /\ n \in Nat
      /\ stack \in Seq(Frame) /\ Len(stack) = n /\ running \in Seq(Activation)
  <2>1. Later \in Seq(Activation) /\ Len(Later) = n
    BY LaterIsLate
  <2>2. stack \in Seq(Frame) /\ running \in Seq(Activation)
    BY DEF CallInv, CallsTypeOK
  <2>3. Len(stack) = n
    BY DEF CallInv, StackFollows
  <2>4. n \in Nat
    BY <2>2
  <2> QED
    BY <2>1, <2>2, <2>3, <2>4
<1> HIDE DEF e, f, n, o
<1>5. /\ running' \in Seq(Activation) /\ Len(running') = n + 1 /\ running'[n + 1] = e
      /\ \A k \in 1..n : running'[k] = Later[k]
  BY <1>1, <1>3, <1>4
<1>6. /\ stack' \in Seq(Frame) /\ Len(stack') = n + 1 /\ stack'[n + 1] = f
      /\ \A k \in 1..n : stack'[k] = stack[k]
  BY <1>1, <1>3, <1>4
<1>7. \A k \in 1..n :
         /\ running'[k].is = running[k].is /\ running'[k].inst = running[k].inst
         /\ running'[k].this = running[k].this /\ running'[k].origin = running[k].origin
         /\ running'[k].as = running[k].as /\ running'[k].by = running[k].by
         /\ ~ running'[k].early
  BY <1>4, <1>5, LaterIsLate, Zenon
<1>8. /\ e.is = "verb" /\ e.inst = i /\ e.this = b[i] /\ e.origin = o /\ e.by = by
      /\ f.this = b[i] /\ f.caller = VerbOwner[o] /\ f.previous = caller
  BY DEF e, f
<1>9. running' # <<>>
  BY <1>4, <1>5
<1>10. CallsTypeOK'
  BY <1>1, <1>2, <1>5, <1>6 DEF CallInv, CallsTypeOK, Instance
<1>11. StackFollows'
  <2>1. \A k \in 1..n : Rights(running'[k]) = Rights(running[k])
    BY <1>7 DEF Rights
  <2>2. caller = IF n = 0 THEN job.caller ELSE stack[n].caller
    BY <1>4 DEF CallInv, StackFollows, n
  <2>3. Rights(e) = VerbOwner[o]
    BY <1>8 DEF Rights
  <2>4. ASSUME NEW k \in 1..(n + 1)
        PROVE  /\ stack'[k].caller = Rights(running'[k])
               /\ stack'[k].this = ObjectOf(running'[k])
               /\ stack'[k].previous = IF k = 1 THEN job.caller ELSE stack'[k - 1].caller
    <3>1. CASE k = n + 1
      BY <1>4, <1>5, <1>6, <1>8, <2>2, <2>3, <3>1 DEF ObjectOf
    <3>2. CASE k \in 1..n
      <4>1. k = 1 \/ k - 1 \in 1..n
        BY <1>4, <3>2
      <4>2. ObjectOf(running'[k]) = ObjectOf(running[k])
        BY <1>7, <3>2 DEF ObjectOf
      <4>3. /\ stack[k].caller = Rights(running[k]) /\ stack[k].this = ObjectOf(running[k])
            /\ stack[k].previous = IF k = 1 THEN job.caller ELSE stack[k - 1].caller
        BY <1>4, <3>2 DEF CallInv, StackFollows
      <4> QED
        BY <1>4, <1>6, <2>1, <3>2, <4>1, <4>2, <4>3
    <3> QED
      BY <1>4, <3>1, <3>2
  <2> QED
    BY <1>1, <1>5, <1>6, <1>8, <1>9, <2>4 DEF StackFollows
<1>12. VerbsAreBound'
  <2>1. ASSUME NEW k \in 1..(n + 1), running'[k].is = "verb"
        PROVE  /\ running'[k].inst \in Instance /\ running'[k].this \in Callee /\ running'[k].origin \in Callee
               /\ b[running'[k].inst] # None
    <3>1. CASE k = n + 1
      <4>1. b[i] # None /\ o \in Callee
        BY InvocationAssumption DEF o
      <4> QED
        BY <1>5, <1>8, <3>1, <4>1
    <3>2. CASE k \in 1..n
      <4>1. running[k].is = "verb"
        BY <1>7, <2>1, <3>2
      <4>2. /\ running[k].inst \in Instance /\ running[k].this \in Callee /\ running[k].origin \in Callee
            /\ bound[running[k].inst] # None
        BY <3>2, <4>1 DEF CallInv, VerbsAreBound, n
      <4> QED
        BY <1>7, <3>2, <4>2
    <3> QED
      BY <1>4, <3>1, <3>2
  <2>2. \A k \in DOMAIN hooks : b[hooks[k].inst] # None
    <3>1. \A k \in DOMAIN hooks : hooks[k].inst \in Instance
      <4>1. \A k \in DOMAIN hooks : hooks[k] \in Hook
        BY DEF CallInv, CallsTypeOK
      <4> QED
        BY <4>1 DEF Hook, Instance
    <3> QED
      BY <3>1 DEF CallInv, VerbsAreBound
  <2>3. ASSUME NEW m \in 1..(n + 1)
        PROVE  \E k \in 1..m : running'[k].is = "verb" /\ \A j \in (k + 1)..m : running'[j].is = "block"
    <3>1. CASE m = n + 1
      BY <1>4, <1>5, <1>8, <3>1
    <3>2. CASE m \in 1..n
      <4>1. PICK k \in 1..m : running[k].is = "verb" /\ \A j \in (k + 1)..m : running[j].is = "block"
        BY <3>2 DEF CallInv, VerbsAreBound, n
      <4>2. k \in 1..n /\ \A j \in (k + 1)..m : j \in 1..n
        BY <1>4, <3>2
      <4> QED
        BY <1>7, <4>1, <4>2
    <3> QED
      BY <1>4, <3>1, <3>2
  <2> QED
    BY <1>1, <1>5, <2>1, <2>2, <2>3 DEF VerbsAreBound
<1>13. EarlyIsBound'
  <2>1. \A k \in 1..(n + 1) : k \in 1..n \/ k = n + 1
    BY <1>4
  <2>2. running'[n + 1].is = "verb" /\ bound'[running'[n + 1].inst] = running'[n + 1].this
    BY <1>1, <1>5, <1>8
  <2>3. \A k \in 1..(n + 1) : running'[k].early =>
           running'[k].is = "verb" /\ bound'[running'[k].inst] = running'[k].this
    BY <1>7, <2>1, <2>2, Zenon
  <2>4. \A k, j \in 1..(n + 1) : k < j => k \in 1..n
    BY <1>4
  <2>5. \A k, j \in 1..(n + 1) : k < j /\ running'[j].is = "verb" => ~ running'[k].early
    BY <1>7, <2>4, Zenon
  <2>6. Len(running') = n + 1
    BY <1>5
  <2> QED
    BY <2>3, <2>5, <2>6, Zenon DEF EarlyIsBound
<1>14. ThisIsKept'
  <2>1. DOMAIN running' = 1..(n + 1) /\ DOMAIN running = 1..n
    BY <1>4, <1>5 DEF n
  <2>2. ASSUME NEW k \in 1..(n + 1), NEW j \in 1..(n + 1), k < j,
               running'[k].is = "verb", running'[j].by = "early",
               \A l \in 1..(n + 1) : k < l /\ l < j => running'[l].is = "block"
        PROVE  running'[j].this = running'[k].this
    <3>1. k \in 1..n
      BY <1>4, <2>2
    <3>2. CASE j = n + 1
      <4>1. by = "early"
        BY <1>5, <1>8, <2>2, <3>2
      <4>2. IsTop(k)
        BY <1>4, <1>7, <2>1, <2>2, <3>1, <3>2 DEF IsTop
      <4>3. k = Top
        BY <3>1, <4>1, <4>2, TopIsUnique DEF n
      <4> QED
        BY <1>5, <1>7, <1>8, <3>1, <3>2, <4>1, <4>3
    <3>3. CASE j \in 1..n
      <4>1. /\ running[k].is = "verb" /\ running[j].by = "early"
            /\ \A l \in 1..n : k < l /\ l < j => running[l].is = "block"
        BY <1>4, <1>7, <2>2, <3>1, <3>3
      <4>2. running[j].this = running[k].this
        BY <2>1, <2>2, <3>1, <3>3, <4>1 DEF CallInv, ThisIsKept
      <4> QED
        BY <1>7, <3>1, <3>3, <4>2
    <3> QED
      BY <1>4, <3>2, <3>3
  <2> QED
    BY <2>1, <2>2 DEF ThisIsKept
<1>15. PlayersAreHanded' /\ PlayerStays' /\ IdleIsClean'
  BY DEF CallInv, PlayersAreHanded, PlayerStays, IdleIsClean
<1> QED
  BY <1>10, <1>11, <1>12, <1>13, <1>14, <1>15 DEF CallInv

\* What the end of a verb or of a block leaves, whether it returned or failed, is
\* what was there when it began (pop_caller in a finally).
LEMMA LeaveKeeps ==
    ASSUME CallInv, phase # "idle", running # <<>>, Leave, UNCHANGED <<phase, job, bound, hooks, posted>>
    PROVE  CallInv'
<1> DEFINE n == Len(running)
<1>1. running \in Seq(Activation) /\ stack \in Seq(Frame) /\ Len(stack) = n
  BY DEF CallInv, CallsTypeOK, StackFollows
<1>2. n \in Nat /\ n # 0 /\ n - 1 \in Nat
  BY <1>1
<1>3. /\ running' = SubSeq(running, 1, n - 1) /\ stack' = SubSeq(stack, 1, n - 1)
      /\ caller' = stack[n].previous
  BY <1>1 DEF Leave, pop_caller
<1>4. /\ running' \in Seq(Activation) /\ Len(running') = n - 1
      /\ \A k \in 1..(n - 1) : running'[k] = running[k]
  BY <1>1, <1>2, <1>3
<1>5. /\ stack' \in Seq(Frame) /\ Len(stack') = n - 1
      /\ \A k \in 1..(n - 1) : stack'[k] = stack[k]
  BY <1>1, <1>2, <1>3
<1>6. \A k \in 1..(n - 1) : k \in 1..n
  BY <1>2
<1>7. CallsTypeOK'
  <2>1. stack[n] \in Frame
    BY <1>1, <1>2
  <2>2. stack[n].previous \in Runner
    BY <2>1 DEF Frame
  <2> QED
    BY <1>3, <1>4, <1>5, <2>2 DEF CallInv, CallsTypeOK
<1>8. StackFollows'
  <2>1. \A k \in 1..(n - 1) : Rights(running'[k]) = Rights(running[k])
    BY <1>4 DEF Rights
  <2>2. stack[n].previous = IF n = 1 THEN job.caller ELSE stack[n - 1].caller
    BY <1>2 DEF CallInv, StackFollows
  <2>3. ASSUME NEW k \in 1..(n - 1)
        PROVE  /\ stack'[k].caller = Rights(running'[k])
               /\ stack'[k].this = ObjectOf(running'[k])
               /\ stack'[k].previous = IF k = 1 THEN job.caller ELSE stack'[k - 1].caller
    <3>1. k = 1 \/ k - 1 \in 1..(n - 1)
      BY <1>2
    <3>2. /\ stack[k].caller = Rights(running[k]) /\ stack[k].this = ObjectOf(running[k])
          /\ stack[k].previous = IF k = 1 THEN job.caller ELSE stack[k - 1].caller
      BY <1>6 DEF CallInv, StackFollows
    <3> QED
      BY <1>4, <1>5, <2>1, <3>1, <3>2
  <2>4. running' = <<>> <=> n = 1
    BY <1>2, <1>4
  <2>5. n # 1 => n - 1 \in 1..(n - 1)
    BY <1>2
  <2>6. caller' = IF running' = <<>> THEN job.caller ELSE stack'[Len(stack')].caller
    BY <1>3, <1>5, <2>2, <2>4, <2>5
  <2> QED
    BY <1>4, <1>5, <2>3, <2>6 DEF StackFollows
<1>9. VerbsAreBound'
  <2>1. \A m \in 1..(n - 1) : \E k \in 1..m :
           running'[k].is = "verb" /\ \A j \in (k + 1)..m : running'[j].is = "block"
    <3> SUFFICES ASSUME NEW m \in 1..(n - 1)
                 PROVE  \E k \in 1..m :
                           running'[k].is = "verb" /\ \A j \in (k + 1)..m : running'[j].is = "block"
      OBVIOUS
    <3>1. PICK k \in 1..m : running[k].is = "verb" /\ \A j \in (k + 1)..m : running[j].is = "block"
      BY <1>6 DEF CallInv, VerbsAreBound
    <3>2. k \in 1..(n - 1) /\ \A j \in (k + 1)..m : j \in 1..(n - 1)
      BY <1>2
    <3> QED
      BY <1>4, <3>1, <3>2
  <2>2. \A k \in 1..(n - 1) : running'[k].is = "verb" =>
           /\ running'[k].inst \in Instance /\ running'[k].this \in Callee /\ running'[k].origin \in Callee
           /\ bound[running'[k].inst] # None
    BY <1>4, <1>6 DEF CallInv, VerbsAreBound
  <2>3. \A k \in DOMAIN hooks : bound[hooks[k].inst] # None
    BY DEF CallInv, VerbsAreBound
  <2> QED
    BY <1>4, <2>1, <2>2, <2>3 DEF VerbsAreBound
<1>10. EarlyIsBound'
  <2>1. /\ \A k \in 1..n : running[k].early =>
              running[k].is = "verb" /\ bound[running[k].inst] = running[k].this
        /\ \A k, j \in 1..n : k < j /\ running[j].is = "verb" => ~ running[k].early
    BY Zenon DEF CallInv, EarlyIsBound
  <2>2. /\ \A k \in 1..(n - 1) : running'[k].early =>
              running'[k].is = "verb" /\ bound'[running'[k].inst] = running'[k].this
        /\ \A k, j \in 1..(n - 1) : k < j /\ running'[j].is = "verb" => ~ running'[k].early
    <3>1. bound' = bound
      OBVIOUS
    <3> QED
      BY <1>4, <1>6, <2>1, <3>1, Zenon
  <2> QED
    BY <1>4, <2>2, Zenon DEF EarlyIsBound
<1>11. ThisIsKept'
  <2>1. DOMAIN running' = 1..(n - 1) /\ DOMAIN running = 1..n
    BY <1>1, <1>2, <1>4
  <2>2. ASSUME NEW k \in 1..(n - 1), NEW j \in 1..(n - 1), k < j,
               running'[k].is = "verb", running'[j].by = "early",
               \A l \in 1..(n - 1) : k < l /\ l < j => running'[l].is = "block"
        PROVE  running'[j].this = running'[k].this
    <3>1. \A l \in 1..n : k < l /\ l < j => running[l].is = "block"
      BY <1>2, <1>4, <2>2
    <3>2. running[j].this = running[k].this
      BY <1>4, <1>6, <2>1, <2>2, <3>1 DEF CallInv, ThisIsKept
    <3> QED
      BY <1>4, <3>2
  <2> QED
    BY <2>1, <2>2 DEF ThisIsKept
<1>12. PlayersAreHanded' /\ PlayerStays' /\ IdleIsClean'
  BY DEF CallInv, PlayersAreHanded, PlayerStays, IdleIsClean
<1> QED
  BY <1>7, <1>8, <1>9, <1>10, <1>11, <1>12 DEF CallInv

\* A look-up keeps all, whatever is scheduled with what it finds.
LEMMA LookUpKeeps ==
    ASSUME CallInv, phase = "working", NEW b \in [Instance -> Callee \cup {None}],
           \A k \in Instance : bound[k] # None => b[k] # None,
           LookUp, bound' = b, UNCHANGED <<phase, job, caller, stack>>,
           hooks' \in Seq(Hook), posted' \subseteq Call, PlayersAreHanded',
           \A k \in DOMAIN hooks' : b[hooks'[k].inst] # None
    PROVE  CallInv'
<1> DEFINE n == Len(running)
<1>1. /\ running' \in Seq(Activation) /\ Len(running') = n
      /\ \A k \in 1..n :
            /\ running'[k].is = running[k].is /\ running'[k].inst = running[k].inst
            /\ running'[k].this = running[k].this /\ running'[k].origin = running[k].origin
            /\ running'[k].as = running[k].as /\ running'[k].by = running[k].by
            /\ ~ running'[k].early
  BY LaterIsLate, Zenon DEF LookUp
<1>2. running \in Seq(Activation) /\ n \in Nat
  BY DEF CallInv, CallsTypeOK
<1>3. CallsTypeOK'
  BY <1>1 DEF CallInv, CallsTypeOK, Instance
<1>4. StackFollows'
  <2>1. \A k \in 1..n : Rights(running'[k]) = Rights(running[k])
    BY <1>1 DEF Rights
  <2>2. running' = <<>> <=> running = <<>>
    BY <1>1, <1>2
  <2> QED
    BY <1>1, <2>1, <2>2 DEF CallInv, StackFollows, ObjectOf
<1>5. VerbsAreBound'
  <2>1. \A m \in 1..n : \E k \in 1..m :
           running'[k].is = "verb" /\ \A j \in (k + 1)..m : running'[j].is = "block"
    <3> SUFFICES ASSUME NEW m \in 1..n
                 PROVE  \E k \in 1..m :
                           running'[k].is = "verb" /\ \A j \in (k + 1)..m : running'[j].is = "block"
      OBVIOUS
    <3>1. PICK k \in 1..m : running[k].is = "verb" /\ \A j \in (k + 1)..m : running[j].is = "block"
      BY DEF CallInv, VerbsAreBound
    <3>2. k \in 1..n /\ \A j \in (k + 1)..m : j \in 1..n
      BY <1>2
    <3> QED
      BY <1>1, <3>1, <3>2
  <2>2. \A k \in 1..n : running'[k].is = "verb" =>
           /\ running'[k].inst \in Instance /\ running'[k].this \in Callee /\ running'[k].origin \in Callee
           /\ b[running'[k].inst] # None
    BY <1>1 DEF CallInv, VerbsAreBound
  <2> QED
    BY <1>1, <2>1, <2>2 DEF VerbsAreBound
<1>6. EarlyIsBound'
  BY <1>1, Zenon DEF EarlyIsBound
<1>7. ThisIsKept'
  <2>1. DOMAIN running' = 1..n /\ DOMAIN running = 1..n
    BY <1>1, <1>2
  <2>2. ASSUME NEW k \in 1..n, NEW j \in 1..n, k < j,
               running'[k].is = "verb", running'[j].by = "early",
               \A l \in 1..n : k < l /\ l < j => running'[l].is = "block"
        PROVE  running'[j].this = running'[k].this
    <3>1. running[k].is = "verb" /\ running[j].by = "early"
      BY <1>1, <2>2
    <3>2. \A l \in 1..n : k < l /\ l < j => running[l].is = "block"
      BY <1>1, <2>2
    <3>3. running[j].this = running[k].this
      BY <2>1, <2>2, <3>1, <3>2 DEF CallInv, ThisIsKept
    <3> QED
      BY <1>1, <3>3
  <2>3. \A k, j \in 1..n :
           /\ k < j /\ running'[k].is = "verb" /\ running'[j].by = "early"
           /\ \A l \in 1..n : k < l /\ l < j => running'[l].is = "block"
           => running'[j].this = running'[k].this
    BY <2>2
  <2> QED
    BY <2>1, <2>3, Zenon DEF ThisIsKept
<1>8. PlayerStays' /\ IdleIsClean'
  BY DEF CallInv, PlayerStays, IdleIsClean
<1> QED
  BY <1>3, <1>4, <1>5, <1>6, <1>7, <1>8 DEF CallInv

\* A block in a verb keeps all; its frame is of no object (set_task_perms).
LEMMA BlockKeeps ==
    ASSUME CallInv, NEW who \in Assumed, set_task_perms(who)
    PROVE  CallInv'
<1> DEFINE n == Len(running)
           e == [is |-> "block", inst |-> None, this |-> None, origin |-> None, as |-> who, by |-> "with",
                 early |-> FALSE]
           f == [this |-> None, origin |-> None, caller |-> who, previous |-> caller]
<1>1. /\ running' = Append(running, e) /\ stack' = Append(stack, f) /\ caller' = who
      /\ phase = "working" /\ running # <<>> /\ UNCHANGED <<phase, job, bound, hooks, posted>>
  BY DEF set_task_perms, override_caller, AtWork
<1>2. who \in Runner /\ caller \in Runner
  BY <1>1, CallerIsSomeone, InvocationAssumption
<1>3. e \in Activation /\ f \in Frame
  BY <1>2 DEF Activation, Frame
<1>4. running \in Seq(Activation) /\ stack \in Seq(Frame) /\ Len(stack) = n
  BY DEF CallInv, CallsTypeOK, StackFollows
<1>5. n \in Nat /\ n # 0
  BY <1>1, <1>4
<1> HIDE DEF e, f
<1>6. /\ running' \in Seq(Activation) /\ Len(running') = n + 1 /\ running'[n + 1] = e
      /\ \A k \in 1..n : running'[k] = running[k]
  BY <1>1, <1>3, <1>4
<1>7. /\ stack' \in Seq(Frame) /\ Len(stack') = n + 1 /\ stack'[n + 1] = f
      /\ \A k \in 1..n : stack'[k] = stack[k]
  BY <1>1, <1>3, <1>4
<1>8. /\ e.is = "block" /\ e.this = None /\ e.as = who /\ e.by = "with" /\ ~ e.early
      /\ f.this = None /\ f.caller = who /\ f.previous = caller
  BY DEF e, f
<1>9. \A k \in 1..(n + 1) : k \in 1..n \/ k = n + 1
  BY <1>5
<1>10. CallsTypeOK'
  BY <1>1, <1>2, <1>6, <1>7 DEF CallInv, CallsTypeOK
<1>11. StackFollows'
  <2>1. caller = stack[n].caller
    BY <1>1, <1>4 DEF CallInv, StackFollows
  <2>2. ASSUME NEW k \in 1..(n + 1)
        PROVE  /\ stack'[k].caller = Rights(running'[k])
               /\ stack'[k].this = ObjectOf(running'[k])
               /\ stack'[k].previous = IF k = 1 THEN job.caller ELSE stack'[k - 1].caller
    <3>1. CASE k = n + 1
      <4>1. Rights(e) = who
        BY <1>8 DEF Rights
      <4> QED
        BY <1>5, <1>6, <1>7, <1>8, <2>1, <3>1, <4>1 DEF ObjectOf
    <3>2. CASE k \in 1..n
      <4>1. k = 1 \/ k - 1 \in 1..n
        BY <1>5, <3>2
      <4>2. Rights(running'[k]) = Rights(running[k])
        BY <1>6, <3>2 DEF Rights
      <4> QED
        BY <1>6, <1>7, <3>2, <4>1, <4>2 DEF CallInv, StackFollows
    <3> QED
      BY <1>9, <3>1, <3>2
  <2>3. running' # <<>>
    BY <1>5, <1>6
  <2> QED
    BY <1>1, <1>6, <1>7, <1>8, <2>2, <2>3 DEF StackFollows
<1>12. VerbsAreBound'
  <2>1. ASSUME NEW m \in 1..(n + 1)
        PROVE  \E k \in 1..m : running'[k].is = "verb" /\ \A j \in (k + 1)..m : running'[j].is = "block"
    <3>1. CASE m = n + 1
      <4>1. n \in 1..n
        BY <1>5
      <4>2. PICK k \in 1..n : running[k].is = "verb" /\ \A j \in (k + 1)..n : running[j].is = "block"
        BY <4>1 DEF CallInv, VerbsAreBound
      <4>3. \A j \in (k + 1)..m : j \in (k + 1)..n \/ j = n + 1
        BY <1>5, <3>1
      <4>4. k \in 1..m /\ \A j \in (k + 1)..n : j \in 1..n
        BY <1>5, <3>1
      <4> QED
        BY <1>6, <1>8, <4>2, <4>3, <4>4
    <3>2. CASE m \in 1..n
      <4>1. PICK k \in 1..m : running[k].is = "verb" /\ \A j \in (k + 1)..m : running[j].is = "block"
        BY <3>2 DEF CallInv, VerbsAreBound
      <4>2. k \in 1..n /\ \A j \in (k + 1)..m : j \in 1..n
        BY <1>5, <3>2
      <4> QED
        BY <1>6, <4>1, <4>2
    <3> QED
      BY <1>9, <3>1, <3>2
  <2>2. \A k \in 1..(n + 1) : running'[k].is = "verb" =>
           /\ running'[k].inst \in Instance /\ running'[k].this \in Callee /\ running'[k].origin \in Callee
           /\ bound'[running'[k].inst] # None
    BY <1>1, <1>6, <1>8, <1>9 DEF CallInv, VerbsAreBound
  <2>3. \A k \in DOMAIN hooks' : bound'[hooks'[k].inst] # None
    BY <1>1 DEF CallInv, VerbsAreBound
  <2> QED
    BY <1>6, <2>1, <2>2, <2>3 DEF VerbsAreBound
<1>13. EarlyIsBound'
  <2>1. /\ \A k \in 1..n : running[k].early =>
              running[k].is = "verb" /\ bound[running[k].inst] = running[k].this
        /\ \A k, j \in 1..n : k < j /\ running[j].is = "verb" => ~ running[k].early
    BY Zenon DEF CallInv, EarlyIsBound
  <2>2. running'[n + 1].is # "verb" /\ ~ running'[n + 1].early
    BY <1>6, <1>8
  <2>3. bound' = bound
    BY <1>1
  <2>4. \A k \in 1..(n + 1) : running'[k].early =>
           running'[k].is = "verb" /\ bound'[running'[k].inst] = running'[k].this
    BY <1>6, <1>9, <2>1, <2>2, <2>3, Zenon
  <2>5. \A k, j \in 1..(n + 1) : k < j /\ running'[j].is = "verb" => ~ running'[k].early
    BY <1>6, <1>9, <2>1, <2>2, Zenon
  <2> QED
    BY <1>6, <2>4, <2>5, Zenon DEF EarlyIsBound
<1>14. ThisIsKept'
  <2>1. DOMAIN running' = 1..(n + 1) /\ DOMAIN running = 1..n
    BY <1>4, <1>5, <1>6
  <2>2. ASSUME NEW k \in 1..(n + 1), NEW j \in 1..(n + 1), k < j,
               running'[k].is = "verb", running'[j].by = "early",
               \A l \in 1..(n + 1) : k < l /\ l < j => running'[l].is = "block"
        PROVE  running'[j].this = running'[k].this
    <3>1. j # n + 1
      BY <1>6, <1>8, <2>2
    <3>2. k \in 1..n /\ j \in 1..n
      BY <1>5, <2>2, <3>1
    <3>3. \A l \in 1..n : k < l /\ l < j => running[l].is = "block"
      BY <1>5, <1>6, <2>2
    <3>4. running[j].this = running[k].this
      BY <1>6, <2>1, <2>2, <3>2, <3>3 DEF CallInv, ThisIsKept
    <3> QED
      BY <1>6, <3>2, <3>4
  <2> QED
    BY <2>1, <2>2 DEF ThisIsKept
<1>15. PlayersAreHanded' /\ PlayerStays' /\ IdleIsClean'
  BY <1>1 DEF CallInv, PlayersAreHanded, PlayerStays, IdleIsClean
<1> QED
  BY <1>10, <1>11, <1>12, <1>13, <1>14, <1>15 DEF CallInv

-----------------------------------------------------------------------------
\* A task begins clean (parse_command and invoke_verb of tasks.py).
LEMMA TasksBeginClean ==
    ASSUME CallInv, phase = "idle"
    PROVE  running = <<>> /\ stack = <<>> /\ hooks = <<>>
<1>1. running = <<>> /\ hooks = <<>>
  BY DEF CallInv, IdleIsClean
<1>2. stack \in Seq(Frame) /\ Len(stack) = 0
  BY <1>1 DEF CallInv, CallsTypeOK, StackFollows
<1> QED
  BY <1>1, <1>2

LEMMA ParseCommandKeeps ==
    ASSUME CallInv, NEW p \in Typists, parse_command(p)
    PROVE  CallInv'
<1>1. running = <<>> /\ stack = <<>> /\ hooks = <<>> /\ phase = "idle"
  BY TasksBeginClean DEF parse_command
<1>2. p \in Runner
  BY InvocationAssumption
<1>3. /\ phase' = "working" /\ caller' = p /\ stack' = <<>> /\ running' = <<>> /\ hooks' = <<>>
      /\ job' = [caller |-> p, player |-> p, back |-> None, typed |-> TRUE, reply |-> FALSE]
      /\ UNCHANGED <<bound, posted>>
  BY <1>1 DEF parse_command
<1>4. job' \in Task
  BY <1>2, <1>3 DEF Task
<1>5. CallsTypeOK'
  BY <1>2, <1>3, <1>4 DEF CallInv, CallsTypeOK
<1>6. StackFollows' /\ VerbsAreBound' /\ EarlyIsBound' /\ ThisIsKept'
  BY <1>3 DEF StackFollows, VerbsAreBound, EarlyIsBound, ThisIsKept
<1>7. PlayersAreHanded' /\ PlayerStays' /\ IdleIsClean'
  BY <1>3 DEF CallInv, PlayersAreHanded, PlayerStays, IdleIsClean
<1> QED
  BY <1>5, <1>6, <1>7 DEF CallInv

LEMMA InvokeVerbKeeps ==
    ASSUME CallInv, NEW c \in posted, invoke_verb(c)
    PROVE  CallInv'
<1> DEFINE o == _lookup_verb(c.this)
           e == [is |-> "verb", inst |-> Own, this |-> c.this, origin |-> o, as |-> VerbOwner[o], by |-> "call",
                 early |-> TRUE]
           f == [this |-> c.this, origin |-> o, caller |-> VerbOwner[o], previous |-> c.caller]
<1>1. phase = "idle" /\ running = <<>> /\ stack = <<>> /\ hooks = <<>>
  BY TasksBeginClean DEF invoke_verb
<1>2. c \in Call
  BY DEF CallInv, CallsTypeOK
<1>3. c.this \in Callee /\ c.caller \in Runner /\ has_verb(c.this)
  BY <1>2 DEF Call, invoke_verb
<1>4. o \in Callee /\ VerbOwner[o] \in Runner
  BY <1>3, LookupFinds, InvocationAssumption
<1>5. /\ phase' = "working" /\ posted' = posted \ {c} /\ bound' = [bound EXCEPT ![Own] = c.this]
      /\ caller' = VerbOwner[o] /\ stack' = <<f>> /\ running' = <<e>> /\ hooks' = hooks
      /\ job' = [caller |-> c.caller, player |-> IF c.player = None THEN c.caller ELSE c.player,
                 back |-> c.back, typed |-> FALSE, reply |-> c.reply]
  BY DEF invoke_verb
<1>6. job' \in Task /\ job'.caller = c.caller /\ job'.reply = c.reply
  BY <1>2, <1>5 DEF Call, Task
<1>7. e \in Activation /\ f \in Frame /\ bound' \in [Instance -> Callee \cup {None}] /\ bound'[Own] = c.this
  BY <1>3, <1>4, <1>5 DEF Activation, Frame, CallInv, CallsTypeOK, Instance
<1>8. /\ e.is = "verb" /\ e.inst = Own /\ e.this = c.this /\ e.origin = o /\ e.early
      /\ f.caller = VerbOwner[o] /\ f.this = c.this /\ f.previous = c.caller
  OBVIOUS
<1> HIDE DEF e, f, o
<1>9. Len(running') = 1 /\ running'[1] = e /\ Len(stack') = 1 /\ stack'[1] = f /\ DOMAIN running' = 1..1
  BY <1>5
<1>10. CallsTypeOK'
  BY <1>1, <1>4, <1>5, <1>6, <1>7 DEF CallInv, CallsTypeOK, Instance
<1>11. StackFollows'
  <2>1. Rights(e) = VerbOwner[o] /\ running' # <<>>
    BY <1>5, <1>8 DEF Rights
  <2> QED
    BY <1>5, <1>6, <1>8, <1>9, <2>1 DEF StackFollows, ObjectOf
<1>12. VerbsAreBound'
  <2>1. c.this # None /\ Own \in Instance /\ hooks' = <<>>
    BY <1>1, <1>3, <1>5, InvocationAssumption DEF Instance
  <2> QED
    BY <1>3, <1>4, <1>7, <1>8, <1>9, <2>1 DEF VerbsAreBound
<1>13. EarlyIsBound'
  <2>1. \A k \in 1..1 : running'[k].is = "verb" /\ bound'[running'[k].inst] = running'[k].this
    BY <1>7, <1>8, <1>9
  <2>2. \A k, j \in 1..1 : ~ (k < j)
    OBVIOUS
  <2> QED
    BY <1>9, <2>1, <2>2, Zenon DEF EarlyIsBound
<1>14. ThisIsKept'
  BY <1>9 DEF ThisIsKept
<1>15. PlayersAreHanded' /\ PlayerStays' /\ IdleIsClean'
  <2>1. c.player \in Typists \/ c.reply
    BY DEF CallInv, PlayersAreHanded
  <2>2. c.player \in Typists => job'.player \in Typists
    <3>1. None \notin Typists
      BY InvocationAssumption
    <3> QED
      BY <1>5, <3>1
  <2>3. PlayersAreHanded'
    BY <1>1, <1>5 DEF CallInv, PlayersAreHanded
  <2>4. PlayerStays'
    BY <1>6, <2>1, <2>2, Zenon DEF PlayerStays
  <2> QED
    BY <1>5, <2>3, <2>4 DEF IdleIsClean
<1> QED
  BY <1>10, <1>11, <1>12, <1>13, <1>14, <1>15 DEF CallInv

\* What is left for other tasks has a player, and something it is called on.
LEMMA CommitKeeps ==
    ASSUME CallInv, Commit
    PROVE  CallInv'
<1>1. /\ phase # "idle" /\ running = <<>> /\ posted' = posted \cup Hooked \cup Reply
      /\ phase' = "idle" /\ job' = NoJob /\ caller' = None /\ bound' = [i \in Instance |-> None]
      /\ hooks' = <<>> /\ UNCHANGED <<stack, running>>
  BY DEF Commit, Instance
<1>2. job \in Task
  BY <1>1, CallerIsSomeone
<1>3. \A i \in DOMAIN hooks : /\ hooks[i] \in Hook /\ bound[hooks[i].inst] # None
                              /\ hooks[i].player \in Typists \/ job.reply
  BY DEF CallInv, CallsTypeOK, VerbsAreBound, PlayersAreHanded
<1>4. ASSUME NEW c \in Hooked
      PROVE  c \in Call /\ (c.player \in Typists \/ c.reply)
  <2>1. PICK i \in DOMAIN hooks :
           c = [caller |-> hooks[i].caller, player |-> hooks[i].player, this |-> bound[hooks[i].inst],
                back |-> None, reply |-> job.reply]
    BY DEF Hooked
  <2>2. hooks[i].inst \in Callee /\ hooks[i].caller \in Runner /\ hooks[i].player \in Runner
    BY <1>3 DEF Hook
  <2>3. bound[hooks[i].inst] \in Callee
    BY <1>3, <2>2 DEF CallInv, CallsTypeOK
  <2>4. job.reply \in BOOLEAN
    BY <1>2 DEF Task
  <2>5. c \in Call
    BY <2>1, <2>2, <2>3, <2>4 DEF Call
  <2>6. c.player = hooks[i].player /\ c.reply = job.reply
    BY <2>1
  <2> QED
    BY <1>3, <2>5, <2>6, Zenon
<1>5. ASSUME NEW c \in Reply
      PROVE  c \in Call /\ c.reply
  <2>1. /\ c = [caller |-> job.caller, player |-> None, this |-> job.back, back |-> None, reply |-> TRUE]
        /\ job.back # None
    BY DEF Reply
  <2> QED
    BY <1>2, <2>1 DEF Task, Call
<1>6. posted' \subseteq Call /\ \A c \in posted' : c.player \in Typists \/ c.reply
  <2>1. posted \subseteq Call /\ \A c \in posted : c.player \in Typists \/ c.reply
    BY DEF CallInv, CallsTypeOK, PlayersAreHanded
  <2> QED
    BY <1>1, <1>4, <1>5, <2>1, Zenon
<1>7. stack = <<>>
  <2>1. stack \in Seq(Frame) /\ Len(stack) = 0
    BY <1>1 DEF CallInv, CallsTypeOK, StackFollows
  <2> QED
    BY <2>1
<1>8. CallsTypeOK'
  BY <1>1, <1>6, <1>7 DEF CallsTypeOK, Instance
<1>9. StackFollows' /\ VerbsAreBound' /\ EarlyIsBound' /\ ThisIsKept'
  BY <1>1, <1>7 DEF StackFollows, VerbsAreBound, EarlyIsBound, ThisIsKept, NoJob
<1>10. PlayersAreHanded' /\ PlayerStays' /\ IdleIsClean'
  BY <1>1, <1>6 DEF PlayersAreHanded, PlayerStays, IdleIsClean
<1> QED
  BY <1>8, <1>9, <1>10 DEF CallInv

-----------------------------------------------------------------------------
\* A verb that is called by name is found and bound to what it is called on.
LEMMA NamedCallKeeps ==
    ASSUME CallInv, phase = "working", NEW o \in Callee, has_verb(o), NEW i \in {o, Own},
           Verb_call(i, [bound EXCEPT ![i] = o], "call"), UNCHANGED <<phase, job, hooks, posted>>
    PROVE  CallInv'
<1> DEFINE b == [bound EXCEPT ![i] = o]
<1>1. bound \in [Instance -> Callee \cup {None}] /\ i \in Instance
  BY DEF CallInv, CallsTypeOK, Instance
<1>2. b \in [Instance -> Callee \cup {None}] /\ b[i] = o
  BY <1>1
<1>3. o # None
  BY InvocationAssumption
<1>4. \A k \in Instance : bound[k] # None => b[k] # None
  BY <1>1, <1>3
<1>5. Origin(i, b) = _lookup_verb(o)
  BY <1>2 DEF Origin
<1>6. Origin(i, b) \in Callee /\ Origin(i, b) \in DOMAIN VerbOwner
  BY <1>5, LookupFinds
<1> HIDE DEF b
<1>7. Verb_call(i, b, "call")
  BY DEF b
<1> QED
  BY <1>1, <1>2, <1>4, <1>6, <1>7, CallKeeps

\* The parent's verb gets the object of the running one.
LEMMA PassthroughKeeps ==
    ASSUME CallInv, passthrough
    PROVE  CallInv'
<1>1. phase = "working" /\ running # <<>> /\ UNCHANGED <<phase, job, hooks, posted>>
  BY DEF passthrough, AtWork
<1>2. PICK parent \in Callee :
         IsNext(parent) /\ Verb_call(parent, [bound EXCEPT ![parent] = bound[running[Top].inst]], PassedBy)
  BY DEF passthrough
<1> DEFINE this == bound[running[Top].inst]
           b == [bound EXCEPT ![parent] = this]
<1>3. has_verb(parent)
  BY <1>2 DEF IsNext
<1>4. bound \in [Instance -> Callee \cup {None}] /\ parent \in Instance
  BY DEF CallInv, CallsTypeOK, Instance
<1>5. Top \in 1..Len(running) /\ running[Top].is = "verb"
  BY <1>1, TopIsUnique DEF IsTop
<1>6. running[Top].inst \in Instance /\ this # None
  BY <1>5 DEF CallInv, VerbsAreBound
<1>7. this \in Callee
  BY <1>4, <1>6
<1> HIDE DEF this
<1>8. b \in [Instance -> Callee \cup {None}] /\ b[parent] = this
  BY <1>4, <1>7
<1>9. \A k \in Instance : bound[k] # None => b[k] # None
  <2>1. this # None
    BY <1>6 DEF this
  <2> QED
    BY <1>4, <2>1
<1>10. Origin(parent, b) = _lookup_verb(parent)
  BY InvocationAssumption DEF Origin
<1>11. Origin(parent, b) \in Callee /\ Origin(parent, b) \in DOMAIN VerbOwner
  BY <1>3, <1>10, LookupFinds
<1>12. PassedBy \in {"call", "pass", "early"}
  BY DEF PassedBy
<1>13. PassedBy = "early" => running # <<>> /\ this = running[Top].this
  <2>1. PassedBy = "early" => running[Top].early
    BY DEF PassedBy
  <2>2. running[Top].early => this = running[Top].this
    BY <1>5, Zenon DEF CallInv, EarlyIsBound, this
  <2> QED
    BY <1>1, <2>1, <2>2, Zenon
<1>14. Verb_call(parent, b, PassedBy)
  BY <1>2 DEF this
<1> HIDE DEF b
<1>15. PassedBy = "early" => running # <<>> /\ b[parent] = running[Top].this
  BY <1>8, <1>13
<1> QED
  BY <1>1, <1>4, <1>7, <1>8, <1>9, <1>11, <1>12, <1>14, <1>15, CallKeeps

\* A call that is scheduled is handed the player (sdk/tasks.py, invoke).
LEMMA InvokeLaterKeeps ==
    ASSUME CallInv, NEW o \in Called, NEW back \in Replies \cup {None}, invoke_later(o, back)
    PROVE  CallInv'
<1> DEFINE c == [caller |-> caller, player |-> job.player, this |-> o, back |-> back, reply |-> job.reply]
           b == IF back = None THEN bind(bound, o) ELSE bind(bind(bound, o), back)
<1>1. /\ phase = "working" /\ LookUp /\ bound' = b /\ posted' = posted \cup {c}
      /\ UNCHANGED <<phase, job, caller, stack>> /\ hooks' = hooks
  BY DEF invoke_later, AtWork
<1>2. o \in Callee /\ o # None /\ back \in Callee \cup {None}
  BY InvocationAssumption
<1>3. bound \in [Instance -> Callee \cup {None}]
  BY DEF CallInv, CallsTypeOK, Instance
<1>4. b \in [Instance -> Callee \cup {None}] /\ \A k \in Instance : bound[k] # None => b[k] # None
  BY <1>2, <1>3 DEF bind, Instance
<1>5. caller \in Runner /\ job \in Task
  BY <1>1, CallerIsSomeone
<1>6. c \in Call /\ c.player = job.player /\ c.reply = job.reply
  BY <1>2, <1>5 DEF Task, Call
<1>7. job.player \in Typists \/ job.reply
  BY <1>1 DEF CallInv, PlayerStays
<1>8. hooks \in Seq(Hook) /\ posted \subseteq Call
  BY DEF CallInv, CallsTypeOK
<1>9. \A k \in DOMAIN hooks : b[hooks[k].inst] # None
  <2>1. \A k \in DOMAIN hooks : hooks[k] \in Hook
    BY <1>8
  <2> QED
    BY <1>4, <2>1 DEF CallInv, VerbsAreBound, Hook, Instance
<1> HIDE DEF b, c
<1>10. PlayersAreHanded'
  <2>1. \A d \in posted : d.player \in Typists \/ d.reply
    BY DEF CallInv, PlayersAreHanded
  <2>2. c.player \in Typists \/ c.reply
    BY <1>6, <1>7, Zenon
  <2>3. \A d \in posted' : d.player \in Typists \/ d.reply
    BY <1>1, <2>1, <2>2, Zenon
  <2>4. \A k \in DOMAIN hooks : hooks[k].player \in Typists \/ job.reply
    BY DEF CallInv, PlayersAreHanded
  <2>5. job' = job
    BY <1>1
  <2> QED
    BY <1>1, <2>3, <2>4, <2>5, Zenon DEF PlayersAreHanded
<1>11. posted' \subseteq Call
  BY <1>1, <1>6, <1>8
<1> QED
  BY <1>1, <1>4, <1>8, <1>9, <1>10, <1>11, LookUpKeeps

\* So is the one that waits for the commit (Object.save).
LEMMA SaveKeeps ==
    ASSUME CallInv, NEW o \in Callee, save(o)
    PROVE  CallInv'
<1> DEFINE h == [inst |-> o, caller |-> caller, player |-> job.player]
           b == bind(bound, o)
<1>1. /\ phase = "working" /\ LookUp /\ bound' = b /\ hooks' = Append(hooks, h)
      /\ UNCHANGED <<phase, job, caller, stack>> /\ posted' = posted
  BY DEF save, AtWork
<1>2. o # None
  BY InvocationAssumption
<1>3. bound \in [Instance -> Callee \cup {None}]
  BY DEF CallInv, CallsTypeOK, Instance
<1>4. /\ b \in [Instance -> Callee \cup {None}] /\ b[o] = o
      /\ \A k \in Instance : bound[k] # None => b[k] # None
  BY <1>2, <1>3 DEF bind, Instance
<1>5. caller \in Runner /\ job \in Task
  BY <1>1, CallerIsSomeone
<1>6. h \in Hook /\ h.inst = o /\ h.player = job.player
  BY <1>5 DEF Task, Hook
<1>7. hooks \in Seq(Hook) /\ posted \subseteq Call
  BY DEF CallInv, CallsTypeOK
<1> HIDE DEF b, h
<1>8. /\ hooks' \in Seq(Hook) /\ DOMAIN hooks' = 1..(Len(hooks) + 1) /\ Len(hooks) \in Nat
      /\ hooks'[Len(hooks) + 1] = h /\ \A k \in 1..Len(hooks) : hooks'[k] = hooks[k]
  BY <1>1, <1>6, <1>7
<1>9. \A k \in 1..(Len(hooks) + 1) : k \in 1..Len(hooks) \/ k = Len(hooks) + 1
  BY <1>8
<1>10. \A k \in 1..Len(hooks) : k \in DOMAIN hooks /\ hooks[k] \in Hook
  BY <1>7
<1>11. \A k \in DOMAIN hooks' : b[hooks'[k].inst] # None
  <2>1. \A k \in 1..Len(hooks) : b[hooks[k].inst] # None
    BY <1>4, <1>10 DEF CallInv, VerbsAreBound, Hook, Instance
  <2> QED
    BY <1>2, <1>4, <1>6, <1>8, <1>9, <2>1
<1>12. PlayersAreHanded'
  <2>1. \A k \in DOMAIN hooks : hooks[k].player \in Typists \/ job.reply
    BY DEF CallInv, PlayersAreHanded
  <2>2. h.player \in Typists \/ job.reply
    BY <1>1, <1>6 DEF CallInv, PlayerStays
  <2>3. job' = job
    BY <1>1
  <2>4. \A k \in DOMAIN hooks' : hooks'[k].player \in Typists \/ job'.reply
    BY <1>8, <1>9, <1>10, <2>1, <2>2, <2>3, Zenon
  <2>5. \A d \in posted' : d.player \in Typists \/ d.reply
    BY <1>1 DEF CallInv, PlayersAreHanded
  <2> QED
    BY <2>4, <2>5, Zenon DEF PlayersAreHanded
<1>13. posted' \subseteq Call
  BY <1>1, <1>7
<1> QED
  BY <1>1, <1>4, <1>8, <1>11, <1>12, <1>13, LookUpKeeps

-----------------------------------------------------------------------------
LEMMA CallInvInductive == CallInv /\ [CallNext]_callVars => CallInv'
<1> SUFFICES ASSUME CallInv, [CallNext]_callVars
             PROVE  CallInv'
  OBVIOUS
<1>1. ASSUME NEW p \in Typists, parse_command(p)
      PROVE  CallInv'
  BY <1>1, ParseCommandKeeps
<1>2. ASSUME NEW o \in Callee, interpret_one(o)
      PROVE  CallInv'
  BY <1>2, NamedCallKeeps DEF interpret_one
<1>3. ASSUME NEW o \in Callee, Surrounding(o)
      PROVE  CallInv'
  BY <1>3, NamedCallKeeps DEF Surrounding, bind
<1>4. ASSUME NEW o \in Callee, CallVerb(o)
      PROVE  CallInv'
  BY <1>4, NamedCallKeeps DEF CallVerb, AtWork, bind
<1>5. ASSUME NEW o \in Callee, save(o)
      PROVE  CallInv'
  BY <1>5, SaveKeeps
<1>6. ASSUME NEW c \in posted, invoke_verb(c)
      PROVE  CallInv'
  BY <1>6, InvokeVerbKeeps
<1>7. CASE passthrough
  BY <1>7, PassthroughKeeps
<1>8. ASSUME NEW who \in Assumed, set_task_perms(who)
      PROVE  CallInv'
  BY <1>8, BlockKeeps
<1>9. ASSUME NEW o \in Called, NEW back \in Replies \cup {None}, invoke_later(o, back)
      PROVE  CallInv'
  BY <1>9, InvokeLaterKeeps
<1>10. CASE Return
  BY <1>10, LeaveKeeps DEF Return, AtWork
<1>11. CASE Unwind
  BY <1>11, LeaveKeeps DEF Unwind
<1>12. CASE Raise \/ Catch
  <2>1. /\ phase # "idle" /\ phase' \in {"working", "raising"}
        /\ UNCHANGED <<job, caller, stack, running, bound, hooks, posted>>
    BY <1>12 DEF Raise, Catch, AtWork
  <2>2. CallsTypeOK'
    BY <2>1 DEF CallInv, CallsTypeOK
  <2>3. StackFollows' /\ VerbsAreBound' /\ EarlyIsBound' /\ ThisIsKept' /\ PlayersAreHanded'
    BY <2>1 DEF CallInv, StackFollows, VerbsAreBound, EarlyIsBound, ThisIsKept, PlayersAreHanded
  <2>4. PlayerStays' /\ IdleIsClean'
    BY <2>1 DEF CallInv, PlayerStays, IdleIsClean
  <2> QED
    BY <2>2, <2>3, <2>4 DEF CallInv
<1>13. CASE Commit
  BY <1>13, CommitKeeps
<1>14. CASE UNCHANGED callVars
  BY <1>14 DEF callVars, CallInv, CallsTypeOK, StackFollows, VerbsAreBound, EarlyIsBound, ThisIsKept,
               PlayersAreHanded, PlayerStays, IdleIsClean
<1>15. Called \subseteq Callee
  BY InvocationAssumption
<1> QED
  BY <1>1, <1>2, <1>3, <1>4, <1>5, <1>6, <1>7, <1>8, <1>9, <1>10, <1>11, <1>12, <1>13, <1>14, <1>15 DEF CallNext

LEMMA CallInvariant == CallSpec => []CallInv
<1>1. CallInit => CallInv
  <2> SUFFICES ASSUME CallInit
               PROVE  CallInv
    OBVIOUS
  <2>1. CallsTypeOK
    BY DEF CallInit, CallsTypeOK, NoJob
  <2>2. StackFollows /\ VerbsAreBound /\ EarlyIsBound /\ ThisIsKept
    BY DEF CallInit, StackFollows, VerbsAreBound, EarlyIsBound, ThisIsKept, NoJob
  <2>3. PlayersAreHanded /\ PlayerStays /\ IdleIsClean
    BY DEF CallInit, PlayersAreHanded, PlayerStays, IdleIsClean
  <2> QED
    BY <2>1, <2>2, <2>3 DEF CallInv
<1> QED
  BY <1>1, CallInvInductive, PTL DEF CallSpec

\* The state of calls keeps its type.
THEOREM CallsTypeCorrect == CallSpec => []CallsTypeOK
<1>1. CallInv => CallsTypeOK
  BY DEF CallInv
<1> QED
  BY <1>1, CallInvariant, PTL

\* After whatever calls, failures and blocks, the rights in force and the tag of a
\* message are those of the verb that runs, an early passthrough keeps its object,
\* and the player is who typed (ContextManager, Verb.passthrough, invoke).
THEOREM CallsAlwaysAttributed == CallSpec => []CallsAreAttributed
<1>1. CallInv => CallsAreAttributed
  <2> SUFFICES ASSUME CallInv
               PROVE  CallsAreAttributed
    OBVIOUS
  <2>1. ThisIsKept /\ PlayerStays
    BY DEF CallInv
  <2>2. CASE running = <<>>
    BY <2>1, <2>2 DEF CallInv, StackFollows, CallsAreAttributed, CallerIsRestored, InForce, MessagesAreTagged
  <2>3. CASE running # <<>>
    <3> DEFINE n == Len(running)
    <3>1. running \in Seq(Activation) /\ stack \in Seq(Frame) /\ Len(stack) = n
      BY DEF CallInv, CallsTypeOK, StackFollows
    <3>2. n \in 1..n /\ n # 0 /\ stack # <<>> /\ DOMAIN running = 1..n
      BY <2>3, <3>1
    <3>3. stack[n].caller = Rights(running[n]) /\ stack[n].this = ObjectOf(running[n]) /\ caller = stack[n].caller
      BY <2>3, <3>1, <3>2 DEF CallInv, StackFollows
    <3>4. InForce = Rights(running[n])
      BY <2>3 DEF InForce, Rights
    <3>5. running[n].is = "verb" => running[n].this = running[Top].this
      <4>1. ASSUME running[n].is = "verb"
            PROVE  IsTop(n)
        BY <3>1, <3>2, <4>1 DEF IsTop
      <4> QED
        BY <2>3, <3>2, <4>1, TopIsUnique
    <3> QED
      BY <2>1, <2>3, <3>1, <3>2, <3>3, <3>4, <3>5
         DEF CallsAreAttributed, CallerIsRestored, MessagesAreTagged, current_provenance, ObjectOf
  <2> QED
    BY <2>2, <2>3
<1> QED
  BY <1>1, CallInvariant, PTL

=============================================================================
