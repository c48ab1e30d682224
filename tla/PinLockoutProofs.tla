--------------------------- MODULE PinLockoutProofs ---------------------------
(***************************************************************************)
(* Proofs about PinLockout, for any number of requests, attempts and       *)
(* faults.                                                                 *)
(***************************************************************************)
EXTENDS PinLockout, FiniteSetTheorems, TLAPS

\* Every request frame, the counter key and the fault count stay well formed
\* through every step of execute and of the attempt tracker.
THEOREM TypeCorrect == Spec => []TypeOK
<1> USE PinAssumption DEF TypeOK, Frame, Idle, Hashes, Awaits, NoTTL
<1>1. Init => TypeOK
  BY DEF Init
<1>2. TypeOK /\ [Next]_vars => TypeOK'
  <2> SUFFICES ASSUME TypeOK, [Next]_vars
               PROVE  TypeOK'
    OBVIOUS
  <2>1. ASSUME NEW r \in Requests, Refuse(r)
        PROVE  TypeOK'
    BY <2>1 DEF Refuse, vars
  <2>2. ASSUME NEW r \in Requests, NEW entered \in Pins \cup {Malformed}, Begin(r, entered)
        PROVE  TypeOK'
    BY <2>2 DEF Begin
  <2>3. ASSUME NEW r \in Requests, CheckLockout(r)
        PROVE  TypeOK'
    BY <2>3 DEF CheckLockout, Goto
  <2>4. ASSUME NEW r \in Requests, Incr(r)
        PROVE  TypeOK'
    BY <2>4 DEF Incr
  <2>5. ASSUME NEW r \in Requests, ReadTTL(r)
        PROVE  TypeOK'
    BY <2>5 DEF ReadTTL, Goto, AfterExpiry
  <2>6. ASSUME NEW r \in Requests, Expire(r)
        PROVE  TypeOK'
    BY <2>6 DEF Expire, Goto, AfterExpiry, SetExpiry
  <2>7. ASSUME NEW r \in Requests, ExpireLockout(r)
        PROVE  TypeOK'
    BY <2>7 DEF ExpireLockout, Goto, SetExpiry
  <2>8. ASSUME NEW r \in Requests, Clear(r)
        PROVE  TypeOK'
    BY <2>8 DEF Clear, Goto
  <2>9. ASSUME NEW r \in Requests, Fault(r)
        PROVE  TypeOK'
    BY <2>9 DEF Fault, Goto
  <2>10. ASSUME NEW new \in Hashes, ChangeVault(new)
         PROVE  TypeOK'
    BY <2>10 DEF ChangeVault
  <2>11. CASE Tick
    BY <2>11 DEF Tick
  <2>12. CASE UNCHANGED vars
    BY <2>12 DEF vars
  <2>13. QED
    BY <2>1, <2>2, <2>3, <2>4, <2>5, <2>6, <2>7, <2>8, <2>9, <2>10, <2>11, <2>12
       DEF Next, Step
<1>3. QED
  BY <1>1, <1>2, PTL DEF Spec

\* Finitely many requests make the sets below finite.
LEMMA FiniteParts ==
  /\ IsFiniteSet(Uncounted) /\ Cardinality(Uncounted) \in Nat
  /\ Cardinality(Uncounted) <= Cardinality(Requests)
  /\ IsFiniteSet(Expiring) /\ Cardinality(Expiring) \in Nat
  /\ Cardinality(Requests) \in Nat
<1>1. Uncounted \in SUBSET Requests /\ Expiring \in SUBSET Requests
  BY DEF Uncounted, Expiring
<1>2. QED
  BY <1>1, PinAssumption, FS_Subset, FS_CardinalityType

LEMMA FinitePartsNext ==
  /\ IsFiniteSet(Uncounted') /\ Cardinality(Uncounted') \in Nat
  /\ Cardinality(Uncounted') <= Cardinality(Requests)
  /\ IsFiniteSet(Expiring') /\ Cardinality(Expiring') \in Nat
<1>1. Uncounted' \in SUBSET Requests /\ Expiring' \in SUBSET Requests
  BY DEF Uncounted, Expiring
<1>2. QED
  BY <1>1, PinAssumption, FS_Subset, FS_CardinalityType

\* Adding or taking away one element changes a cardinality by at most one.
LEMMA CardinalityStep ==
  ASSUME NEW S, NEW T, NEW x, IsFiniteSet(S), IsFiniteSet(T)
  PROVE  /\ T \subseteq S => Cardinality(T) <= Cardinality(S)
         /\ x \in S /\ T = S \ {x} => Cardinality(T) = Cardinality(S) - 1
         /\ x \notin S /\ T = S \cup {x} => Cardinality(T) = Cardinality(S) + 1
         /\ S \ {x} \subseteq T => Cardinality(T) >= Cardinality(S) - 1
<1>1. T \subseteq S => Cardinality(T) <= Cardinality(S)
  BY FS_Subset
<1>2. x \in S /\ T = S \ {x} => Cardinality(T) = Cardinality(S) - 1
  BY FS_RemoveElement
<1>3. x \notin S /\ T = S \cup {x} => Cardinality(T) = Cardinality(S) + 1
  BY FS_AddElement
<1>4. S \ {x} \subseteq T => Cardinality(T) >= Cardinality(S) - 1
  <2>1. /\ IsFiniteSet(S \ {x})
        /\ Cardinality(S \ {x}) = IF x \in S THEN Cardinality(S) - 1 ELSE Cardinality(S)
    BY FS_RemoveElement
  <2>2. S \ {x} \subseteq T => Cardinality(S \ {x}) <= Cardinality(T)
    BY FS_Subset
  <2>3. Cardinality(S) \in Nat /\ Cardinality(T) \in Nat
    BY FS_CardinalityType
  <2>4. QED
    BY <2>1, <2>2, <2>3
<1>5. QED
  BY <1>1, <1>2, <1>3, <1>4

\* One window never counts more wrong guesses than MaxAttempts - 1 and one for
\* each request in flight: the GET and the INCR of the tracker are not atomic,
\* and this is what their interleavings can cost.
THEOREM BudgetHolds == Spec => []AttemptBudget
<1> USE PinAssumption
<1>1. Init => AttemptBudget
  <2> SUFFICES ASSUME Init PROVE AttemptBudget
    OBVIOUS
  <2>1. Cardinality(Uncounted) = 0
    BY FS_EmptySet DEF Init, Uncounted, Idle
  <2>2. QED
    BY <2>1, FiniteParts DEF Init, AttemptBudget
<1>2. TypeOK /\ AttemptBudget /\ [Next]_vars => AttemptBudget'
  <2> SUFFICES ASSUME TypeOK, AttemptBudget, [Next]_vars
               PROVE  AttemptBudget'
    OBVIOUS
  <2> USE FiniteParts, FinitePartsNext DEF AttemptBudget
  <2>1. ASSUME Uncounted' \subseteq Uncounted, attempts' <= attempts, attempts' \in Nat
        PROVE  AttemptBudget'
    <3>1. Cardinality(Uncounted') <= Cardinality(Uncounted)
      BY <2>1, CardinalityStep
    <3>2. QED
      BY <2>1, <3>1 DEF TypeOK
  <2>2. ASSUME NEW r \in Requests, CheckLockout(r)
        PROVE  AttemptBudget'
    <3>1. CASE Locked
      <4>1. Uncounted' \subseteq Uncounted
        BY <2>2, <3>1 DEF CheckLockout, Goto, Uncounted, Idle, TypeOK, Frame
      <4>2. QED
        BY <4>1, <2>1, <2>2 DEF CheckLockout, TypeOK
    <3>2. CASE ~Locked
      BY <2>2, <3>2 DEF CheckLockout, Locked, TypeOK
    <3>3. QED
      BY <3>1, <3>2
  <2>3. ASSUME NEW r \in Requests, Incr(r)
        PROVE  AttemptBudget'
    <3>1. r \in Uncounted /\ Uncounted' = Uncounted \ {r}
      BY <2>3 DEF Incr, Uncounted, TypeOK, Frame
    <3>2. Cardinality(Uncounted') = Cardinality(Uncounted) - 1
      BY <3>1, CardinalityStep
    <3>3. QED
      BY <2>3, <3>2 DEF Incr, TypeOK
  <2>4. ASSUME NEW r \in Requests,
               \/ Refuse(r)
               \/ \E entered \in Pins \cup {Malformed} : Begin(r, entered)
               \/ ReadTTL(r)
               \/ Expire(r)
               \/ ExpireLockout(r)
               \/ Clear(r)
               \/ Fault(r)
        PROVE  AttemptBudget'
    <3> SUFFICES /\ Uncounted' \subseteq Uncounted
                 /\ attempts' <= attempts /\ attempts' \in Nat
      BY <2>1
    <3> USE DEF Goto, Uncounted, Idle, TypeOK, Frame, NoTTL
    <3>1. CASE Refuse(r)
      BY <3>1 DEF Refuse, vars
    <3>2. CASE \E entered \in Pins \cup {Malformed} : Begin(r, entered)
      BY <3>2 DEF Begin
    <3>3. CASE ReadTTL(r)
      BY <3>3 DEF ReadTTL, AfterExpiry
    <3>4. CASE Expire(r)
      BY <3>4 DEF Expire, AfterExpiry
    <3>5. CASE ExpireLockout(r)
      BY <3>5 DEF ExpireLockout
    <3>6. CASE Clear(r)
      BY <3>6 DEF Clear
    <3>7. CASE Fault(r)
      BY <3>7 DEF Fault
    <3>8. QED
      BY <2>4, <3>1, <3>2, <3>3, <3>4, <3>5, <3>6, <3>7
  <2>5. CASE UNCHANGED vars \/ Tick \/ \E new \in Hashes : ChangeVault(new)
    <3>1. /\ Uncounted' \subseteq Uncounted
          /\ attempts' <= attempts /\ attempts' \in Nat
      BY <2>5 DEF vars, Tick, ChangeVault, Uncounted, TypeOK
    <3>2. QED
      BY <2>1, <3>1
  <2>6. QED
    BY <2>2, <2>3, <2>4, <2>5 DEF Next, Step
<1>3. QED
  BY <1>1, <1>2, TypeCorrect, PTL DEF Spec

\* Only failed commands can leave a counter behind that never expires, one count
\* for each: the repair on TTL = -1 catches the rest.
THEOREM ExpiryHolds == Spec => []UnexpiringCounter
<1> USE PinAssumption DEF NoTTL
<1>1. Init => UnexpiringCounter
  BY DEF Init, UnexpiringCounter
<1>2. TypeOK /\ UnexpiringCounter /\ [Next]_vars => UnexpiringCounter'
  <2> SUFFICES ASSUME TypeOK, UnexpiringCounter, [Next]_vars, attempts' > 0, ttl' = NoTTL
               PROVE  attempts' <= faults' + Cardinality(Expiring')
    BY DEF UnexpiringCounter
  <2> USE FiniteParts, FinitePartsNext
  <2>1. ASSUME Expiring \subseteq Expiring', attempts' = attempts, ttl' = ttl, faults' = faults
        PROVE  attempts' <= faults' + Cardinality(Expiring')
    <3>1. Cardinality(Expiring) <= Cardinality(Expiring')
      BY <2>1, CardinalityStep
    <3>2. QED
      BY <2>1, <3>1 DEF UnexpiringCounter, TypeOK
  <2>2. ASSUME NEW r \in Requests, Incr(r)
        PROVE  attempts' <= faults' + Cardinality(Expiring')
    <3>1. r \notin Expiring /\ Expiring' = Expiring \cup {r}
      BY <2>2 DEF Incr, Expiring, TypeOK, Frame
    <3>2. Cardinality(Expiring') = Cardinality(Expiring) + 1
      BY <3>1, CardinalityStep
    <3>3. attempts = 0 \/ attempts <= faults + Cardinality(Expiring)
      BY <2>2 DEF Incr, UnexpiringCounter, TypeOK
    <3>4. QED
      BY <2>2, <3>2, <3>3 DEF Incr, TypeOK
  <2>3. ASSUME NEW r \in Requests, Fault(r)
        PROVE  attempts' <= faults' + Cardinality(Expiring')
    <3>1. Expiring \ {r} \subseteq Expiring'
      BY <2>3 DEF Fault, Goto, Expiring, Idle, TypeOK, Frame
    <3>2. Cardinality(Expiring') >= Cardinality(Expiring) - 1
      BY <3>1, CardinalityStep
    <3>3. QED
      BY <2>3, <3>2 DEF Fault, UnexpiringCounter, TypeOK
  <2>4. ASSUME NEW r \in Requests, ReadTTL(r)
        PROVE  attempts' <= faults' + Cardinality(Expiring')
    <3>1. attempts > 0 /\ ttl = NoTTL
      BY <2>4 DEF ReadTTL
    <3>2. Expiring \subseteq Expiring'
      BY <2>4, <3>1 DEF ReadTTL, Goto, Expiring, TypeOK, Frame
    <3>3. QED
      BY <2>1, <2>4, <3>2 DEF ReadTTL
  <2>5. ASSUME NEW r \in Requests, Expire(r) \/ ExpireLockout(r)
        PROVE  attempts' <= faults' + Cardinality(Expiring')
    BY <2>5 DEF Expire, ExpireLockout, SetExpiry, TypeOK
  <2>6. ASSUME NEW r \in Requests,
               \/ Refuse(r)
               \/ \E entered \in Pins \cup {Malformed} : Begin(r, entered)
               \/ CheckLockout(r)
        PROVE  attempts' <= faults' + Cardinality(Expiring')
    <3>1. Expiring \subseteq Expiring'
      BY <2>6 DEF Refuse, vars, Begin, CheckLockout, Goto, Expiring, Idle, TypeOK, Frame
    <3>2. QED
      BY <2>1, <2>6, <3>1 DEF Refuse, vars, Begin, CheckLockout
  <2>7. CASE Tick \/ \E r \in Requests : Clear(r)
    BY <2>7 DEF Tick, Clear, TypeOK
  <2>8. CASE UNCHANGED vars \/ \E new \in Hashes : ChangeVault(new)
    <3>1. Expiring \subseteq Expiring'
      BY <2>8 DEF vars, ChangeVault, Expiring
    <3>2. QED
      BY <2>1, <2>8, <3>1 DEF vars, ChangeVault
  <2>9. QED
    BY <2>2, <2>3, <2>4, <2>5, <2>6, <2>7, <2>8 DEF Next, Step
<1>3. QED
  BY <1>1, <1>2, TypeCorrect, PTL DEF Spec

\* During a lockout the requests past the check only get fewer: none that comes
\* while it lasts can end it early or prolong it.
THEOREM DrainHolds == Spec => LockoutDrains
<1>1. TypeOK /\ [Next]_vars => [Locked /\ Locked' => Admitted' \subseteq Admitted]_vars
  <2> SUFFICES ASSUME TypeOK, Next, Locked
               PROVE  Admitted' \subseteq Admitted
    OBVIOUS
  <2> USE DEF Admitted, Goto, Idle, TypeOK, Frame
  <2>1. ASSUME NEW r \in Requests, CheckLockout(r)
        PROVE  Admitted' \subseteq Admitted
    BY <2>1 DEF CheckLockout
  <2>2. ASSUME NEW r \in Requests,
               \/ Refuse(r)
               \/ \E entered \in Pins \cup {Malformed} : Begin(r, entered)
               \/ Incr(r)
               \/ ReadTTL(r)
               \/ Expire(r)
               \/ ExpireLockout(r)
               \/ Clear(r)
               \/ Fault(r)
        PROVE  Admitted' \subseteq Admitted
    <3>1. CASE Refuse(r)
      BY <3>1 DEF Refuse, vars
    <3>2. CASE \E entered \in Pins \cup {Malformed} : Begin(r, entered)
      BY <3>2 DEF Begin
    <3>3. CASE Incr(r)
      BY <3>3 DEF Incr
    <3>4. CASE ReadTTL(r)
      BY <3>4 DEF ReadTTL, AfterExpiry
    <3>5. CASE Expire(r)
      BY <3>5 DEF Expire, AfterExpiry
    <3>6. CASE ExpireLockout(r)
      BY <3>6 DEF ExpireLockout
    <3>7. CASE Clear(r)
      BY <3>7 DEF Clear
    <3>8. CASE Fault(r)
      BY <3>8 DEF Fault, Awaits
    <3>9. QED
      BY <2>2, <3>1, <3>2, <3>3, <3>4, <3>5, <3>6, <3>7, <3>8
  <2>3. CASE Tick \/ \E new \in Hashes : ChangeVault(new)
    BY <2>3 DEF Tick, ChangeVault
  <2>4. QED
    BY <2>1, <2>2, <2>3 DEF Next, Step
<1>2. QED
  BY <1>1, TypeCorrect, PTL DEF Spec, LockoutDrains
=============================================================================
