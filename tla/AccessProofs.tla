---------------------------- MODULE AccessProofs ----------------------------
(***************************************************************************)
(* What a task is answered about rights, for any number of callers, of     *)
(* permissions and of rows.                                                *)
(***************************************************************************)
EXTENDS AccessControl, TLAPS

\* What the rows say of a caller now.
Says(a, perm) == Decision(a, perm, owner, a \in wizards)

\* What is kept in a task that nothing has shaken is what would be found anew.
KnownIsSo ==
    ~ shaken =>
        /\ \A q \in known.allowed : Says(q[1], q[2])
        /\ known.wizard \subseteq wizards
        /\ known.other \cap wizards = {}

AccessInv == AccessTypeOK /\ KnownIsSo

-----------------------------------------------------------------------------
\* The cache keeps its type, whatever is asked (Object.is_allowed).
LEMMA RememberedType ==
    ASSUME NEW k \in [allowed : SUBSET (Actor \X Permission), wizard : SUBSET Actor, other : SUBSET Actor],
           k.wizard \cap k.other = {},
           NEW a \in Actor, NEW perm \in Permission, NEW o \in Actor
    PROVE  /\ Remembered(k, a, perm, o) \in
                [allowed : SUBSET (Actor \X Permission), wizard : SUBSET Actor, other : SUBSET Actor]
           /\ Remembered(k, a, perm, o).wizard \cap Remembered(k, a, perm, o).other = {}
BY DEF Remembered, Noticed

\* When what is known of wizards is so, who is found to be one is one.
LEMMA IsWizardIsSo ==
    ASSUME NEW k, NEW a, k.wizard \subseteq wizards, k.other \cap wizards = {}
    PROVE  IsWizard(k, a) = (a \in wizards)
BY DEF IsWizard

\* Asking keeps the cache as it would be found anew: only what the rows allow is
\* remembered (Object.is_allowed).
LEMMA RememberedIsSo ==
    ASSUME NEW k \in [allowed : SUBSET (Actor \X Permission), wizard : SUBSET Actor, other : SUBSET Actor],
           NEW a \in Actor, NEW perm \in Permission, NEW o \in Actor,
           \A q \in k.allowed : Decision(q[1], q[2], o, q[1] \in wizards),
           k.wizard \subseteq wizards, k.other \cap wizards = {}
    PROVE  LET r == Remembered(k, a, perm, o)
           IN /\ \A q \in r.allowed : Decision(q[1], q[2], o, q[1] \in wizards)
              /\ r.wizard \subseteq wizards
              /\ r.other \cap wizards = {}
<1> DEFINE r == Remembered(k, a, perm, o)
<1>1. r.wizard \subseteq wizards /\ r.other \cap wizards = {}
  BY DEF Remembered, Noticed
<1>2. \A q \in r.allowed : q \in k.allowed \/ (q = <<a, perm>> /\ is_allowed(k, a, perm, o))
  BY DEF Remembered, Noticed
<1>3. is_allowed(k, a, perm, o) => Decision(a, perm, o, a \in wizards)
  <2>1. IsWizard(k, a) = (a \in wizards)
    BY IsWizardIsSo
  <2>2. <<a, perm>> \in k.allowed => Decision(a, perm, o, a \in wizards)
    OBVIOUS
  <2> QED
    BY <2>1, <2>2 DEF is_allowed
<1>4. ASSUME NEW q \in r.allowed
      PROVE  Decision(q[1], q[2], o, q[1] \in wizards)
  <2>1. CASE q \in k.allowed
    BY <2>1
  <2>2. CASE q = <<a, perm>> /\ is_allowed(k, a, perm, o)
    BY <2>2, <1>3
  <2> QED
    BY <2>1, <2>2, <1>2
<1> QED
  BY <1>1, <1>4

\* The same for can_caller, which does not ask when the owner grants.
LEMMA AskingKeeps ==
    ASSUME AccessInv, NEW a \in Actor, NEW perm \in Permission
    PROVE  LET r == AfterAsking(known, a, perm, owner)
           IN /\ r \in [allowed : SUBSET (Actor \X Permission), wizard : SUBSET Actor, other : SUBSET Actor]
              /\ r.wizard \cap r.other = {}
              /\ ~ shaken => /\ \A q \in r.allowed : Says(q[1], q[2])
                             /\ r.wizard \subseteq wizards
                             /\ r.other \cap wizards = {}
<1> DEFINE r == AfterAsking(known, a, perm, owner)
<1>1. r = known \/ r = Remembered(known, a, perm, owner)
  BY DEF AfterAsking
<1>2. CASE r = known
  BY <1>2 DEF AccessInv, AccessTypeOK, KnownIsSo
<1>3. CASE r = Remembered(known, a, perm, owner)
  <2>1. r \in [allowed : SUBSET (Actor \X Permission), wizard : SUBSET Actor, other : SUBSET Actor]
          /\ r.wizard \cap r.other = {}
    BY <1>3, RememberedType DEF AccessInv, AccessTypeOK
  <2>2. ASSUME ~ shaken
        PROVE  /\ \A q \in r.allowed : Says(q[1], q[2])
               /\ r.wizard \subseteq wizards
               /\ r.other \cap wizards = {}
    BY <1>3, <2>2, RememberedIsSo DEF AccessInv, AccessTypeOK, KnownIsSo, Says
  <2> QED
    BY <2>1, <2>2
<1> QED
  BY <1>1, <1>2, <1>3

\* A row that allows takes no right away (AccessibleMixin.allow).
LEMMA AllowingKeeps ==
    ASSUME NEW row, row.rule = "allow", rules' = rules \cup {row}, UNCHANGED <<owner, wizards>>,
           NEW a, NEW perm, Says(a, perm)
    PROVE  Says(a, perm)'
BY DEF Says, Decision, Applies

-----------------------------------------------------------------------------
\* The cache of a task stays as it would be found anew, whoever asks, allows,
\* denies, deletes and gives away: the inductive invariant of the two theorems.
LEMMA AccessInvInductive == AccessInv /\ [AccessNext]_accessVars => AccessInv'
<1> SUFFICES ASSUME AccessInv, [AccessNext]_accessVars PROVE AccessInv'
  OBVIOUS
<1> USE AccessAssumption
<1> DEFINE Cache == [allowed : SUBSET (Actor \X Permission), wizard : SUBSET Actor, other : SUBSET Actor]
<1>1. ASSUME NEW a \in Actor, NEW perm \in Permission, Ask(a, perm)
      PROVE  AccessInv'
  <2>1. AccessTypeOK'
    BY <1>1, AskingKeeps DEF Ask, AccessInv, AccessTypeOK
  <2>2. KnownIsSo'
    BY <1>1, AskingKeeps DEF Ask, KnownIsSo, Says, Decision, Applies
  <2> QED
    BY <2>1, <2>2 DEF AccessInv
<1>2. ASSUME NEW a \in Actor, NEW row \in Row, Allow(a, row)
      PROVE  AccessInv'
  <2>1. AccessTypeOK'
    BY <1>2, AskingKeeps DEF Allow, AccessInv, AccessTypeOK
  <2>2. KnownIsSo'
    <3> SUFFICES ASSUME ~ shaken' PROVE KnownIsSo'
      BY DEF KnownIsSo
    <3>1. /\ \A q \in known'.allowed : Says(q[1], q[2])
          /\ known'.wizard \subseteq wizards /\ known'.other \cap wizards = {}
      BY <1>2, AskingKeeps DEF Allow
    <3>2. \A q \in known'.allowed : Says(q[1], q[2])'
      BY <1>2, <3>1, AllowingKeeps DEF Allow
    <3> QED
      BY <1>2, <3>1, <3>2 DEF Allow, KnownIsSo
  <2> QED
    BY <2>1, <2>2 DEF AccessInv
<1>3. ASSUME NEW a \in Actor, NEW row \in Row, Deny(a, row)
      PROVE  AccessInv'
  <2> DEFINE k == AfterAsking(known, a, "grant", owner)
  <2>1. /\ k \in Cache /\ k.wizard \cap k.other = {}
        /\ ~ shaken => k.wizard \subseteq wizards /\ k.other \cap wizards = {}
    BY AskingKeeps
  <2>2. known' = [k EXCEPT !.allowed = {}] /\ rules' = rules \cup {row}
          /\ UNCHANGED <<kind, owner, wizards, shaken>>
    BY <1>3 DEF Deny, Evicted
  <2> HIDE DEF k
  <2>3. known' \in Cache /\ known'.allowed = {} /\ known'.wizard = k.wizard /\ known'.other = k.other
    BY <2>1, <2>2
  <2> QED
    BY <2>1, <2>2, <2>3 DEF AccessInv, AccessTypeOK, KnownIsSo
<1>4. ASSUME NEW a \in Actor, NEW row \in Row, DeleteRow(a, row)
      PROVE  AccessInv'
  <2>1. AccessTypeOK'
    BY <1>4, AskingKeeps DEF DeleteRow, AccessInv, AccessTypeOK
  <2>2. KnownIsSo'
    <3> SUFFICES ASSUME ~ shaken' PROVE KnownIsSo'
      BY DEF KnownIsSo
    <3>1. row.rule # "allow" /\ ~ shaken
      BY <1>4 DEF DeleteRow
    <3>2. /\ \A q \in known'.allowed : Says(q[1], q[2])
          /\ known'.wizard \subseteq wizards /\ known'.other \cap wizards = {}
      BY <1>4, <3>1, AskingKeeps DEF DeleteRow
    <3>3. ASSUME NEW b, NEW perm, Says(b, perm)
          PROVE  Says(b, perm)'
      <4>1. rules' = rules \ {row} /\ UNCHANGED <<owner, wizards>>
        BY <1>4 DEF DeleteRow
      <4>2. row.rule = "deny"
        BY <3>1 DEF Access
      <4>3. ~ Applies(row, b, perm, owner, b \in wizards)
        BY <3>3, <4>2, <1>4 DEF Says, Decision, DeleteRow
      <4> QED
        BY <3>3, <4>1, <4>3 DEF Says, Decision, Applies
    <3> QED
      BY <1>4, <3>2, <3>3 DEF DeleteRow, KnownIsSo
  <2> QED
    BY <2>1, <2>2 DEF AccessInv
<1>5. ASSUME NEW a \in Actor, NEW o \in Actor, Save(a, o)
      PROVE  AccessInv'
  <2> DEFINE k == Reowned(known)
             r == Remembered(k, a, "entrust", o)
  <2>1. k \in Cache /\ k.wizard = known.wizard /\ k.other = known.other
          /\ (kind = "object" => k.allowed = {})
    BY DEF AccessInv, AccessTypeOK, Reowned, Evicted
  <2>2. r \in Cache /\ r.wizard \cap r.other = {}
    BY <2>1, RememberedType DEF AccessInv, AccessTypeOK
  <2>3. owner' \in Actor /\ known' = r /\ UNCHANGED <<kind, rules, wizards>>
    BY <1>5 DEF Save, AccessInv, AccessTypeOK
  <2>4. AccessTypeOK'
    BY <1>5, <2>2, <2>3 DEF Save, AccessInv, AccessTypeOK
  <2>5. KnownIsSo'
    <3> SUFFICES ASSUME ~ shaken' PROVE KnownIsSo'
      BY DEF KnownIsSo
    <3>1. ~ shaken /\ kind = "object"
      BY <1>5 DEF Save, AccessInv, AccessTypeOK, Kind
    <3>2. /\ \A q \in r.allowed : Decision(q[1], q[2], o, q[1] \in wizards)
          /\ r.wizard \subseteq wizards /\ r.other \cap wizards = {}
      BY <2>1, <3>1, RememberedIsSo DEF AccessInv, AccessTypeOK, KnownIsSo
    <3>3. owner' = o \/ r.allowed = {}
      <4>1. CASE is_allowed(k, a, "entrust", o)
        BY <1>5, <4>1 DEF Save
      <4>2. CASE ~ is_allowed(k, a, "entrust", o)
        <5>1. r = Noticed(k, a)
          BY <4>2, <2>1, <3>1 DEF Remembered
        <5> QED
          BY <5>1, <2>1, <3>1 DEF Noticed
      <4> QED
        BY <4>1, <4>2
    <3>4. \A q \in known'.allowed : Says(q[1], q[2])'
      BY <2>3, <3>2, <3>3 DEF Says, Decision, Applies
    <3> QED
      BY <2>3, <3>2, <3>4 DEF KnownIsSo
  <2> QED
    BY <2>4, <2>5 DEF AccessInv
<1>6. CASE Elsewhere
  BY <1>6 DEF Elsewhere, AccessInv, AccessTypeOK, KnownIsSo
<1>7. CASE NextTask
  BY <1>7 DEF NextTask, NothingKnown, AccessInv, AccessTypeOK, KnownIsSo
<1>8. CASE UNCHANGED accessVars
  BY <1>8 DEF accessVars, AccessInv, AccessTypeOK, KnownIsSo, Says, Decision, Applies
<1> QED
  BY <1>1, <1>2, <1>3, <1>4, <1>5, <1>6, <1>7, <1>8 DEF AccessNext

\* The invariant holds of every behaviour.
LEMMA AccessInvariant == AccessSpec => []AccessInv
<1>1. AccessInit => AccessInv
  <2> SUFFICES ASSUME AccessInit PROVE AccessInv
    OBVIOUS
  <2>1. rules \subseteq Access
    <3>1. \A row \in Defaults : row.rule = "allow" /\ row.who \in Group
                               /\ row = [rule |-> row.rule, who |-> row.who, perm |-> row.perm]
      BY DEF Defaults, Group
    <3> QED
      BY <3>1 DEF AccessInit, Access
  <2>2. owner \in Actor /\ wizards \subseteq Actor
    BY AccessAssumption DEF AccessInit
  <2> QED
    BY <2>1, <2>2 DEF AccessInit, AccessInv, AccessTypeOK, KnownIsSo, NothingKnown
<1> QED
  BY <1>1, AccessInvInductive, PTL DEF AccessSpec

\* Types, for any number of callers, permissions and rows.
THEOREM AccessTypeCorrect == AccessSpec => []AccessTypeOK
BY AccessInvariant, PTL DEF AccessInv

\* For any number of callers, permissions and rows, and whatever order they come
\* in: the answer of a task that nothing outside the reach of its cache has
\* shaken is the one the rows give (Object.is_allowed and who evicts what).
THEOREM AnswersAlwaysFollowRules == AccessSpec => []AnswersFollowRules
<1>1. AccessInv => AnswersFollowRules
  <2> SUFFICES ASSUME AccessInv, ~ shaken, NEW a \in Actor, NEW perm \in Permission
               PROVE  is_allowed(known, a, perm, owner) <=> Decision(a, perm, owner, a \in wizards)
    BY DEF AnswersFollowRules
  <2>1. IsWizard(known, a) = (a \in wizards)
    BY IsWizardIsSo DEF AccessInv, KnownIsSo
  <2>2. ASSUME <<a, perm>> \in known.allowed PROVE Decision(a, perm, owner, a \in wizards)
    BY <2>2 DEF AccessInv, KnownIsSo, Says
  <2> QED
    BY <2>1, <2>2 DEF is_allowed
<1> QED
  BY <1>1, AccessInvariant, PTL

=============================================================================
