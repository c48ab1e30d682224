------------------------- MODULE VaultLifecycleProofs -------------------------
(***************************************************************************)
(* Proofs about VaultLifecycle, for any devices, users and tokens and any  *)
(* number of operations in progress.                                       *)
(***************************************************************************)
EXTENDS VaultLifecycle, TLAPS

\* Where an operation can be: it knows its device, only registrations provision,
\* insert, refresh and consume, and a registration knows its user and its token.
WellFormed(f) ==
  /\ f \in Frame
  /\ f.at # "idle" => f.hw \in Hardware
  /\ f.at \in {"provision", "insert", "refresh", "consume"} => f.kind = "register"
  /\ f.at # "idle" /\ f.kind = "register" => f.user \in Users /\ f.token \in Tokens

OpsWellFormed == op \in [Ops -> Frame] /\ \A o \in Ops : WellFormed(op[o])

\* TypeOK without the operations, and that the rows' ids are issued ones.
DataTyped ==
  /\ rows \in [Hardware -> Row]
  /\ \A h \in Hardware : Exists(h) => rows[h].id \in 1..issued
  /\ issued \in Nat
  /\ tokens \in [Tokens -> Users \cup {None}]
  /\ loop \in Ops \cup {None}
  /\ uses \in [Tokens -> SUBSET (1..issued)]
  /\ kept \subseteq Tokens \X Nat
  /\ redeemed \subseteq (1..issued) \X Users
  /\ opened \subseteq Nat

Typed == DataTyped /\ OpsWellFormed

\* An operation that is over holds nothing.
LEMMA IdleWellFormed == WellFormed(Idle)
BY LifecycleAssumption DEF WellFormed, Idle, Frame, Row, NoRow, Statuses

\* Outdating the copy an operation holds changes nothing else of it.
LEMMA StaleWellFormed ==
  ASSUME NEW f, WellFormed(f)
  PROVE  WellFormed([f EXCEPT !.stale = TRUE])
BY DEF WellFormed, Frame

\* An operation that goes on as a well-formed frame leaves them all well formed ...
LEMMA BecomeWellFormed ==
  ASSUME OpsWellFormed, NEW o \in Ops, NEW frame, WellFormed(frame), Become(o, frame)
  PROVE  OpsWellFormed'
<1>1. \A p \in Ops : op'[p] = IF p = o THEN frame ELSE op[p]
  BY DEF OpsWellFormed, Become
<1>2. frame \in Frame
  BY DEF WellFormed
<1>3. op' \in [Ops -> Frame]
  BY <1>2 DEF OpsWellFormed, Become
<1>4. ASSUME NEW p \in Ops
      PROVE  WellFormed(op'[p])
  BY <1>1 DEF OpsWellFormed
<1>5. QED
  BY <1>3, <1>4 DEF OpsWellFormed, WellFormed

\* ... and so does one that also outdates what the others have read.
LEMMA WrittenWellFormed ==
  ASSUME OpsWellFormed, NEW o \in Ops, NEW h, NEW frame, WellFormed(frame), Written(o, h, frame)
  PROVE  OpsWellFormed'
<1>1. \A p \in Ops : WellFormed(IF p = o THEN frame
                                ELSE IF op[p].hw = h THEN [op[p] EXCEPT !.stale = TRUE] ELSE op[p])
  BY StaleWellFormed DEF OpsWellFormed
<1>2. \A p \in Ops : WellFormed(op'[p])
  BY <1>1 DEF Written
<1>3. op' \in [Ops -> Frame]
  BY <1>1 DEF Written, WellFormed
<1>4. QED
  BY <1>2, <1>3 DEF OpsWellFormed, WellFormed

\* The absence of a row is a row to the model: rows is a function on the devices.
LEMMA NoRowTyped == NoRow \in Row
BY DEF NoRow, Row, Statuses

\* The copies that the use cases make of a row are rows.
LEMMA ExceptTyped ==
  ASSUME NEW row \in Row, NEW status \in Statuses, NEW pin \in Pins \cup {None}
  PROVE  /\ [row EXCEPT !.status = status] \in Row
         /\ [row EXCEPT !.pin = pin] \in Row
         /\ [row EXCEPT !.status = status, !.pin = pin] \in Row
BY DEF Row

\* A use case in a worker thread starts with a copy of the vault's row that has
\* the row's id and owner and, unless it is a reset, its status.
LEMMA StartsFromRow ==
  ASSUME Typed, NEW o \in Ops, NEW h \in Hardware,
         \/ Reset(o, h)
         \/ Delete(o, h)
         \/ \E pin \in Pins : SetPIN(o, h, pin)
         \/ RemovePIN(o, h)
  PROVE  \E next \in {"reread", "delete"}, kind \in {"reset", "set_pin", "other"}, want \in Row :
           /\ want.id = rows[h].id /\ want.owner = rows[h].owner
           /\ kind = "reset" \/ want.status = rows[h].status
           /\ Start(o, h, next, kind, want)
<1>1. rows[h] \in Row
  BY DEF Typed, DataTyped
<1> DEFINE reset == [rows[h] EXCEPT !.status = "PROVISIONING", !.pin = None]
           withPIN(pin) == [rows[h] EXCEPT !.pin = pin]
<1>2. reset \in Row /\ \A pin \in Pins \cup {None} : withPIN(pin) \in Row
  BY <1>1, ExceptTyped DEF Statuses
<1>3. /\ reset.id = rows[h].id /\ reset.owner = rows[h].owner
      /\ \A pin : /\ withPIN(pin).id = rows[h].id /\ withPIN(pin).owner = rows[h].owner
                   /\ withPIN(pin).status = rows[h].status
  BY <1>1 DEF Row
<1> HIDE DEF reset, withPIN
<1>4. CASE Reset(o, h)
  BY <1>2, <1>3, <1>4 DEF Reset, reset
<1>5. CASE Delete(o, h)
  BY <1>1, <1>5 DEF Delete
<1>6. CASE \E pin \in Pins : SetPIN(o, h, pin)
  BY <1>2, <1>3, <1>6 DEF SetPIN, withPIN
<1>7. CASE RemovePIN(o, h)
  BY <1>2, <1>3, <1>7 DEF RemovePIN, withPIN
<1>8. QED
  BY <1>4, <1>5, <1>6, <1>7

\* Every statement and command of every operation keeps the tables, the tokens
\* and the operations' frames well formed.
THEOREM TypesHold == Spec => []Typed
<1> USE LifecycleAssumption
<1>1. Init => Typed
  <2> SUFFICES ASSUME Init
               PROVE  Typed
    OBVIOUS
  <2>1. DataTyped
    BY NoRowTyped DEF Init, DataTyped, Exists
  <2>2. OpsWellFormed
    BY IdleWellFormed DEF Init, OpsWellFormed, WellFormed
  <2>3. QED
    BY <2>1, <2>2 DEF Typed
<1>2. Typed /\ [Next]_vars => Typed'
  <2> SUFFICES ASSUME Typed, [Next]_vars
               PROVE  Typed'
    OBVIOUS
  <2>0. DataTyped /\ OpsWellFormed
    BY DEF Typed
  <2>1. ASSUME NEW t \in Tokens, NEW u \in Users, GenerateToken(u, t)
        PROVE  Typed'
    BY <2>0, <2>1 DEF GenerateToken, Typed, DataTyped, Exists, OpsWellFormed, WellFormed
  <2>2. ASSUME NEW t \in Tokens, TokenExpires(t)
        PROVE  Typed'
    BY <2>0, <2>2 DEF TokenExpires, Typed, DataTyped, Exists, OpsWellFormed, WellFormed
  <2>3. ASSUME NEW o \in Ops, NEW t \in Tokens, NEW h \in Hardware, Register(o, t, h)
        PROVE  Typed'
    <3> DEFINE frame == [Idle EXCEPT !.at = "provision", !.kind = "register", !.hw = h,
                                     !.user = tokens[t], !.token = t]
    <3>1. tokens[t] \in Users
      BY <2>0, <2>3 DEF Register, DataTyped
    <3>2. WellFormed(frame)
      BY <3>1, IdleWellFormed DEF WellFormed, Frame, Idle
    <3>3. OpsWellFormed'
      BY <2>0, <2>3, <3>2, BecomeWellFormed DEF Register
    <3>4. QED
      BY <2>0, <2>3, <3>3 DEF Register, Typed, DataTyped, Exists
  <2>4. ASSUME NEW o \in Ops, NEW h \in Hardware, NEW next \in {"reread", "delete"},
               NEW kind \in {"reset", "set_pin", "other"}, NEW want \in Row,
               Start(o, h, next, kind, want)
        PROVE  Typed'
    <3> DEFINE frame == [Idle EXCEPT !.at = next, !.kind = kind, !.hw = h, !.want = want]
    <3>1. WellFormed(frame)
      BY IdleWellFormed DEF WellFormed, Frame, Idle
    <3>2. OpsWellFormed'
      BY <2>0, <2>4, <3>1, BecomeWellFormed DEF Start
    <3>3. QED
      BY <2>0, <2>4, <3>2 DEF Start, Typed, DataTyped, Exists
  <2>5. ASSUME NEW o \in Ops, NEW h \in Hardware,
               \/ Reset(o, h)
               \/ Delete(o, h)
               \/ \E pin \in Pins : SetPIN(o, h, pin)
               \/ RemovePIN(o, h)
        PROVE  Typed'
    BY <2>4, <2>5, StartsFromRow
  <2>6. ASSUME NEW o \in Ops, NEW h \in Hardware, NEW reported \in Reported,
               StateUpdate(o, h, reported)
        PROVE  Typed'
    <3> DEFINE frame == [Idle EXCEPT !.at = "reread", !.kind = "state_update", !.hw = h,
                                     !.want = [rows[h] EXCEPT !.status = reported]]
    <3>1. [rows[h] EXCEPT !.status = reported] \in Row
      BY <2>0, ExceptTyped DEF DataTyped, Statuses
    <3>2. WellFormed(frame)
      BY <3>1, IdleWellFormed DEF WellFormed, Frame, Idle
    <3>3. OpsWellFormed'
      BY <2>0, <2>6, <3>2, BecomeWellFormed DEF StateUpdate
    <3>4. QED
      BY <2>0, <2>6, <3>3 DEF StateUpdate, Typed, DataTyped, Exists
  <2>7. ASSUME NEW o \in Ops, Provision(o)
        PROVE  Typed'
    <3> DEFINE f == op[o]
               taken == [id |-> rows[f.hw].id, owner |-> f.user, status |-> "LOCKED", pin |-> None]
    <3>1. WellFormed(f) /\ f.hw \in Hardware /\ f.user \in Users /\ f.at = "provision"
      BY <2>0, <2>7 DEF Provision, OpsWellFormed, WellFormed
    <3>2. taken \in Row
      BY <2>0, <3>1 DEF DataTyped, Row, Statuses
    <3>3. WellFormed([f EXCEPT !.at = "insert"])
      BY <3>1 DEF WellFormed, Frame
    <3>4. WellFormed([f EXCEPT !.at = "reread", !.want = taken, !.stale = FALSE])
      BY <3>1, <3>2 DEF WellFormed, Frame
    <3>5. OpsWellFormed'
      BY <2>0, <2>7, <3>3, <3>4, BecomeWellFormed, IdleWellFormed DEF Provision, Finish
    <3>6. QED
      BY <2>0, <2>7, <3>5 DEF Provision, Finish, Release, Typed, DataTyped, Exists
  <2>8. ASSUME NEW o \in Ops, Insert(o)
        PROVE  Typed'
    <3> DEFINE f == op[o]
               new == [id |-> issued + 1, owner |-> f.user, status |-> "LOCKED", pin |-> None]
    <3>1. /\ WellFormed(f)
          /\ f.hw \in Hardware /\ f.user \in Users /\ f.token \in Tokens /\ f.at = "insert"
      BY <2>0, <2>8 DEF Insert, OpsWellFormed, WellFormed
    <3>2. new \in Row
      BY <2>0, <3>1 DEF DataTyped, Row, Statuses
    <3>3. WellFormed([f EXCEPT !.at = "refresh", !.want = new])
      BY <3>1, <3>2 DEF WellFormed, Frame
    <3>4. OpsWellFormed'
      BY <2>0, <2>8, <3>3, BecomeWellFormed, WrittenWellFormed, IdleWellFormed DEF Insert, Finish
    <3>5. CASE Exists(f.hw)
      BY <2>0, <2>8, <3>4, <3>5 DEF Insert, Finish, Release, Typed, DataTyped, Exists
    <3>6. CASE ~Exists(f.hw)
      BY <2>0, <2>8, <3>1, <3>2, <3>4, <3>6 DEF Insert, Redeem, Typed, DataTyped, Exists
    <3>7. QED
      BY <3>5, <3>6
  <2>9. ASSUME NEW o \in Ops, Reread(o)
        PROVE  Typed'
    <3> DEFINE f == op[o]
               assigned == IF f.kind = "set_pin" THEN {"pin"} ELSE Columns
               dirty == {c \in assigned : f.want[c] # rows[f.hw][c]}
    <3>1. WellFormed(f) /\ f.at = "reread"
      BY <2>0, <2>9 DEF Reread, OpsWellFormed
    <3>2. dirty \in SUBSET Columns
      BY DEF Columns
    <3>3. WellFormed([f EXCEPT !.at = "update", !.dirty = dirty])
      BY <3>1, <3>2 DEF WellFormed, Frame
    <3>4. OpsWellFormed'
      BY <2>0, <2>9, <3>3, BecomeWellFormed, IdleWellFormed DEF Reread, Finish
    <3>5. QED
      BY <2>0, <2>9, <3>4 DEF Reread, Finish, Release, Typed, DataTyped, Exists
  <2>10. ASSUME NEW o \in Ops, Update(o)
         PROVE  Typed'
    <3> DEFINE f == op[o]
               row == rows[f.hw]
               updated == [row EXCEPT !.owner = IF "owner" \in f.dirty THEN f.want.owner ELSE @,
                                      !.status = IF "status" \in f.dirty THEN f.want.status ELSE @,
                                      !.pin = IF "pin" \in f.dirty THEN f.want.pin ELSE @]
    <3>1. WellFormed(f) /\ f.hw \in Hardware /\ f.at = "update"
      BY <2>0, <2>10 DEF Update, OpsWellFormed, WellFormed
    <3>2. row \in Row /\ f.want \in Row
      BY <2>0, <3>1 DEF DataTyped, WellFormed, Frame
    <3>3. updated \in Row
      BY <3>2 DEF Row
    <3>4. WellFormed([f EXCEPT !.at = "refresh", !.dirty = {}]) \/ f.kind # "register"
      BY <3>1 DEF WellFormed, Frame
    <3>5. OpsWellFormed'
      BY <2>0, <2>10, <3>4, BecomeWellFormed, WrittenWellFormed, IdleWellFormed DEF Update, Finish
    <3>6. updated.id = row.id
      BY <3>2 DEF Row
    <3>7. IF Found(o) THEN rows' = [rows EXCEPT ![f.hw] = updated] ELSE rows' = rows
      BY <2>10 DEF Update
    <3>8. Found(o) => f.want.id = row.id /\ row.id \in 1..issued
      BY <2>0, <3>1 DEF DataTyped, Found
    <3> HIDE DEF updated
    <3>9. /\ rows' \in [Hardware -> Row]
          /\ \A h \in Hardware : Exists(h)' => rows'[h].id \in 1..issued
      BY <2>0, <3>1, <3>3, <3>6, <3>7, <3>8 DEF DataTyped, Exists
    <3>10. /\ uses' \in [Tokens -> SUBSET (1..issued)]
           /\ redeemed' \subseteq (1..issued) \X Users
      <4>1. CASE Found(o) /\ f.kind = "register"
        <5>1. f.user \in Users /\ f.token \in Tokens
          BY <3>1, <4>1 DEF WellFormed
        <5>2. QED
          BY <2>0, <2>10, <3>8, <4>1, <5>1 DEF Update, Redeem, DataTyped
      <4>2. CASE ~(Found(o) /\ f.kind = "register")
        BY <2>0, <2>10, <4>2 DEF Update, DataTyped
      <4>3. QED
        BY <4>1, <4>2
    <3>11. UNCHANGED <<issued, tokens>> /\ loop' \in {loop, None}
      BY <2>10 DEF Update, Finish, Release
    <3>12. kept' \subseteq kept /\ opened' \subseteq opened \cup Opens(f)
      BY <2>10 DEF Update, Redeem
    <3>13. Opens(f) \subseteq Nat
      BY <3>2 DEF Opens, Row
    <3>14. kept' \subseteq Tokens \X Nat /\ opened' \subseteq Nat
      BY <2>0, <3>12, <3>13 DEF DataTyped
    <3>15. QED
      BY <2>0, <3>5, <3>9, <3>10, <3>11, <3>14 DEF Typed, DataTyped
  <2>11. ASSUME NEW o \in Ops, DeleteRow(o)
         PROVE  Typed'
    <3>1. op[o].hw \in Hardware
      BY <2>0, <2>11 DEF DeleteRow, OpsWellFormed, WellFormed
    <3>2. OpsWellFormed'
      BY <2>0, <2>11, BecomeWellFormed, WrittenWellFormed, IdleWellFormed DEF DeleteRow
    <3>3. QED
      BY <2>0, <2>11, <3>1, <3>2, NoRowTyped DEF DeleteRow, Typed, DataTyped, Exists
  <2>12. ASSUME NEW o \in Ops, Refresh(o)
         PROVE  Typed'
    <3>1. WellFormed([op[o] EXCEPT !.at = "consume"])
      BY <2>0, <2>12 DEF Refresh, OpsWellFormed, WellFormed, Frame
    <3>2. OpsWellFormed'
      BY <2>0, <2>12, <3>1, BecomeWellFormed, IdleWellFormed DEF Refresh, Finish
    <3>3. QED
      BY <2>0, <2>12, <3>2 DEF Refresh, Finish, Release, Typed, DataTyped, Exists
  <2>13. ASSUME NEW o \in Ops, Consume(o)
         PROVE  Typed'
    <3>1. OpsWellFormed'
      BY <2>0, <2>13, BecomeWellFormed, IdleWellFormed DEF Consume, Finish
    <3>2. QED
      BY <2>0, <2>13, <3>1 DEF Consume, Finish, Release, Typed, DataTyped, Exists
  <2>14. \A S \in SUBSET Ops : Broken(S) \subseteq Tokens \X Nat
    BY <2>0 DEF Broken, OpsWellFormed, WellFormed, Frame, Row
  <2>15. ASSUME NEW o \in Ops, Fault(o)
         PROVE  Typed'
    <3>1. OpsWellFormed'
      BY <2>0, <2>15, BecomeWellFormed, IdleWellFormed DEF Fault, Finish
    <3>2. kept' \subseteq Tokens \X Nat
      BY <2>0, <2>14, <2>15 DEF Fault, DataTyped
    <3>3. QED
      BY <2>0, <2>15, <3>1, <3>2 DEF Fault, Finish, Release, Typed, DataTyped, Exists
  <2>16. CASE Crash
    <3>1. OpsWellFormed'
      BY <2>16, IdleWellFormed DEF Crash, OpsWellFormed, WellFormed
    <3>2. kept' \subseteq Tokens \X Nat
      BY <2>0, <2>14, <2>16 DEF Crash, DataTyped
    <3>3. QED
      BY <2>0, <2>16, <3>1, <3>2 DEF Crash, Typed, DataTyped, Exists
  <2>17. CASE UNCHANGED vars
    BY <2>0, <2>17 DEF vars, Typed, DataTyped, Exists, OpsWellFormed, WellFormed
  <2>18. QED
    BY <2>1, <2>2, <2>3, <2>5, <2>6, <2>7, <2>8, <2>9, <2>10, <2>11, <2>12, <2>13, <2>15, <2>16,
       <2>17 DEF Next
<1>3. QED
  BY <1>1, <1>2, PTL DEF Spec

\* The type invariant, which TypesHold strengthens to an inductive one.
THEOREM TypeCorrect == Spec => []TypeOK
<1>1. Typed => TypeOK
  BY DEF Typed, DataTyped, OpsWellFormed, TypeOK
<1>2. QED
  BY <1>1, TypesHold, PTL
-----------------------------------------------------------------------------
\* The copy f saves carries an owner its vault was registered for in r, or is the
\* copy of the registration that makes its user the owner.
Registered(f, r) ==
  f.at \in {"reread", "update"} =>
    IF f.kind = "register" THEN f.want.owner = f.user ELSE <<f.want.id, f.want.owner>> \in r

OwnersTraced == OwnerRegistered /\ \A o \in Ops : Registered(op[o], redeemed)

\* Registrations are never forgotten: a copy that was registered stays so.
LEMMA CopiesStayRegistered ==
  ASSUME Typed, OwnersTraced, NEW o \in Ops, NEW h, NEW frame,
         Become(o, frame) \/ Written(o, h, frame),
         redeemed \subseteq redeemed', Registered(frame, redeemed')
  PROVE  \A p \in Ops : Registered(op'[p], redeemed')
<1> SUFFICES ASSUME NEW p \in Ops
             PROVE  Registered(op'[p], redeemed')
  OBVIOUS
<1>1. op \in [Ops -> Frame]
  BY DEF Typed, OpsWellFormed
<1>2. Registered(op[p], redeemed')
  BY DEF OwnersTraced, Registered
<1>3. Registered([op[p] EXCEPT !.stale = TRUE], redeemed')
  BY <1>1, <1>2 DEF Registered, Frame
<1>4. op'[p] \in {frame, op[p], [op[p] EXCEPT !.stale = TRUE]}
  BY <1>1 DEF Become, Written
<1>5. QED
  BY <1>2, <1>3, <1>4

\* Whatever outdated copies are written back, a vault's owner is a user whose
\* token this very vault was registered with (OwnerRegistered).
THEOREM OwnersHold == Spec => []OwnerRegistered
<1> USE LifecycleAssumption
<1>1. Init => OwnersTraced
  BY DEF Init, OwnersTraced, OwnerRegistered, Exists, Registered, Idle
<1>2. Typed /\ OwnersTraced /\ [Next]_vars => OwnersTraced'
  <2> SUFFICES ASSUME Typed, OwnersTraced, [Next]_vars
               PROVE  OwnersTraced'
    OBVIOUS
  <2>0. DataTyped /\ OpsWellFormed
    BY DEF Typed
  <2>1. ASSUME UNCHANGED <<rows, redeemed>>, NEW o \in Ops, NEW frame, Become(o, frame),
               Registered(frame, redeemed)
        PROVE  OwnersTraced'
    <3>1. \A p \in Ops : Registered(op'[p], redeemed')
      BY <2>1, CopiesStayRegistered
    <3>2. QED
      BY <2>1, <3>1 DEF OwnersTraced, OwnerRegistered, Exists, Registered
  <2>2. Registered(Idle, redeemed) /\ Registered(Idle, redeemed')
    BY DEF Registered, Idle
  <2>3. ASSUME UNCHANGED <<rows, op, redeemed>>
        PROVE  OwnersTraced'
    BY <2>3 DEF OwnersTraced, OwnerRegistered, Exists, Registered
  <2>4. ASSUME NEW t \in Tokens, TokenExpires(t) \/ \E u \in Users : GenerateToken(u, t)
        PROVE  OwnersTraced'
    BY <2>3, <2>4 DEF TokenExpires, GenerateToken
  <2>5. ASSUME NEW o \in Ops, NEW t \in Tokens, NEW h \in Hardware, Register(o, t, h)
        PROVE  OwnersTraced'
    <3> DEFINE frame == [Idle EXCEPT !.at = "provision", !.kind = "register", !.hw = h,
                                     !.user = tokens[t], !.token = t]
    <3>1. Registered(frame, redeemed)
      BY DEF Registered, Idle
    <3>2. QED
      BY <2>1, <2>5, <3>1 DEF Register
  <2>6. ASSUME NEW o \in Ops, NEW h \in Hardware,
               \/ Reset(o, h)
               \/ Delete(o, h)
               \/ \E pin \in Pins : SetPIN(o, h, pin)
               \/ RemovePIN(o, h)
        PROVE  OwnersTraced'
    <3>1. PICK next \in {"reread", "delete"}, kind \in {"reset", "set_pin", "other"}, want \in Row :
            /\ want.id = rows[h].id /\ want.owner = rows[h].owner
            /\ Start(o, h, next, kind, want)
      BY <2>6, StartsFromRow
    <3> DEFINE frame == [Idle EXCEPT !.at = next, !.kind = kind, !.hw = h, !.want = want]
    <3>2. <<want.id, want.owner>> \in redeemed
      BY <3>1 DEF Start, OwnersTraced, OwnerRegistered
    <3>3. Registered(frame, redeemed)
      BY <3>2 DEF Registered, Idle
    <3>4. QED
      BY <2>1, <3>1, <3>3 DEF Start
  <2>7. ASSUME NEW o \in Ops, NEW h \in Hardware, NEW reported \in Reported,
               StateUpdate(o, h, reported)
        PROVE  OwnersTraced'
    <3> DEFINE want == [rows[h] EXCEPT !.status = reported]
               frame == [Idle EXCEPT !.at = "reread", !.kind = "state_update", !.hw = h,
                                     !.want = want]
    <3>1. want.id = rows[h].id /\ want.owner = rows[h].owner
      BY <2>0 DEF DataTyped, Row
    <3>2. <<want.id, want.owner>> \in redeemed
      BY <2>7, <3>1 DEF StateUpdate, OwnersTraced, OwnerRegistered
    <3>3. Registered(frame, redeemed)
      BY <3>2 DEF Registered, Idle
    <3>4. QED
      BY <2>1, <2>7, <3>3 DEF StateUpdate
  <2>8. ASSUME NEW o \in Ops, Provision(o)
        PROVE  OwnersTraced'
    <3> DEFINE f == op[o]
               taken == [id |-> rows[f.hw].id, owner |-> f.user, status |-> "LOCKED", pin |-> None]
    <3>1. f \in Frame /\ f.kind = "register"
      BY <2>0, <2>8 DEF Provision, OpsWellFormed, WellFormed
    <3>2. Registered([f EXCEPT !.at = "insert"], redeemed)
      BY <3>1 DEF Registered, Frame
    <3>3. Registered([f EXCEPT !.at = "reread", !.want = taken, !.stale = FALSE], redeemed)
      BY <3>1 DEF Registered, Frame
    <3>4. QED
      BY <2>1, <2>2, <2>8, <3>2, <3>3 DEF Provision, Finish
  <2>9. ASSUME NEW o \in Ops, Insert(o)
        PROVE  OwnersTraced'
    <3> DEFINE f == op[o]
               new == [id |-> issued + 1, owner |-> f.user, status |-> "LOCKED", pin |-> None]
               frame == [f EXCEPT !.at = "refresh", !.want = new]
    <3>1. CASE Exists(f.hw)
      BY <2>1, <2>2, <2>9, <3>1 DEF Insert, Finish
    <3>2. CASE ~Exists(f.hw)
      <4>1. f \in Frame /\ f.hw \in Hardware
        BY <2>0, <2>9 DEF Insert, OpsWellFormed, WellFormed
      <4>2. /\ rows' = [rows EXCEPT ![f.hw] = new]
            /\ redeemed' = redeemed \cup {<<new.id, new.owner>>}
            /\ Written(o, f.hw, frame)
        BY <2>9, <3>2 DEF Insert, Redeem
      <4>3. Registered(frame, redeemed')
        BY <4>1 DEF Registered, Frame
      <4>4. \A p \in Ops : Registered(op'[p], redeemed')
        BY <4>2, <4>3, CopiesStayRegistered
      <4> HIDE DEF new
      <4>5. OwnerRegistered'
        BY <2>0, <4>1, <4>2 DEF OwnersTraced, OwnerRegistered, Exists, DataTyped
      <4>6. QED
        BY <4>4, <4>5 DEF OwnersTraced
    <3>3. QED
      BY <3>1, <3>2
  <2>10. ASSUME NEW o \in Ops, Reread(o)
         PROVE  OwnersTraced'
    <3> DEFINE f == op[o]
               assigned == IF f.kind = "set_pin" THEN {"pin"} ELSE Columns
               dirty == {c \in assigned : f.want[c] # rows[f.hw][c]}
    <3>1. f \in Frame /\ f.at = "reread" /\ Registered(f, redeemed)
      BY <2>0, <2>10 DEF Reread, OpsWellFormed, OwnersTraced
    <3>2. Registered([f EXCEPT !.at = "update", !.dirty = dirty], redeemed)
      BY <3>1 DEF Registered, Frame
    <3>3. QED
      BY <2>1, <2>2, <2>10, <3>2 DEF Reread, Finish
  <2>11. ASSUME NEW o \in Ops, Update(o)
         PROVE  OwnersTraced'
    <3> DEFINE f == op[o]
               row == rows[f.hw]
               updated == [row EXCEPT !.owner = IF "owner" \in f.dirty THEN f.want.owner ELSE @,
                                      !.status = IF "status" \in f.dirty THEN f.want.status ELSE @,
                                      !.pin = IF "pin" \in f.dirty THEN f.want.pin ELSE @]
               frame == IF f.kind = "register" THEN [f EXCEPT !.at = "refresh", !.dirty = {}]
                                               ELSE Idle
    <3>1. /\ f \in Frame /\ f.hw \in Hardware /\ f.at = "update" /\ row \in Row
          /\ Registered(f, redeemed)
      BY <2>0, <2>11 DEF Update, OpsWellFormed, WellFormed, DataTyped, OwnersTraced
    <3>2. CASE ~Found(o)
      BY <2>1, <2>2, <2>11, <3>2 DEF Update, Finish
    <3>3. CASE Found(o)
      <4>1. rows' = [rows EXCEPT ![f.hw] = updated] /\ Written(o, f.hw, frame)
        BY <2>11, <3>3 DEF Update
      <4>2. /\ redeemed \subseteq redeemed'
            /\ f.kind = "register" => <<f.want.id, f.user>> \in redeemed'
        BY <2>11, <3>3 DEF Update, Redeem
      <4>3. Registered(frame, redeemed')
        BY <2>2, <3>1 DEF Registered, Frame
      <4>4. \A p \in Ops : Registered(op'[p], redeemed')
        BY <4>1, <4>2, <4>3, CopiesStayRegistered
      <4>5. updated.id = row.id /\ updated.owner \in {row.owner, f.want.owner}
        BY <3>1 DEF Row
      <4>6. <<row.id, row.owner>> \in redeemed' /\ <<row.id, f.want.owner>> \in redeemed'
        BY <3>1, <3>3, <4>2 DEF Found, Registered, OwnersTraced, OwnerRegistered
      <4> HIDE DEF updated
      <4>7. OwnerRegistered'
        BY <2>0, <3>1, <4>1, <4>2, <4>5, <4>6
           DEF OwnersTraced, OwnerRegistered, Exists, DataTyped
      <4>8. QED
        BY <4>4, <4>7 DEF OwnersTraced
    <3>4. QED
      BY <3>2, <3>3
  <2>12. ASSUME NEW o \in Ops, DeleteRow(o)
         PROVE  OwnersTraced'
    <3>1. \A p \in Ops : Registered(op'[p], redeemed')
      BY <2>2, <2>12, CopiesStayRegistered DEF DeleteRow
    <3>2. OwnerRegistered'
      BY <2>0, <2>12 DEF DeleteRow, OwnersTraced, OwnerRegistered, Exists, DataTyped
    <3>3. QED
      BY <3>1, <3>2 DEF OwnersTraced
  <2>13. ASSUME NEW o \in Ops, Refresh(o) \/ Consume(o) \/ Fault(o)
         PROVE  OwnersTraced'
    <3>1. Registered([op[o] EXCEPT !.at = "consume"], redeemed)
      BY <2>0 DEF OpsWellFormed, Registered, Frame
    <3>2. QED
      BY <2>1, <2>2, <2>13, <3>1 DEF Refresh, Consume, Fault, Finish
  <2>14. CASE Crash
    BY <2>2, <2>14 DEF Crash, OwnersTraced, OwnerRegistered, Exists
  <2>15. CASE UNCHANGED vars
    BY <2>3, <2>15 DEF vars
  <2>16. QED
    BY <2>4, <2>5, <2>6, <2>7, <2>8, <2>9, <2>10, <2>11, <2>12, <2>13, <2>14, <2>15 DEF Next
<1>3. OwnersTraced => OwnerRegistered
  BY DEF OwnersTraced
<1>4. QED
  BY <1>1, <1>2, <1>3, TypesHold, PTL DEF Spec

\* No write that was on its way when a vault's row was deleted brings the row back
\* (DeletedStaysDeleted): an id that appears in the table is one never issued.
THEOREM DeletedHolds == Spec => DeletedStaysDeleted
<1> DEFINE FreshIds == \A id \in Ids' \ Ids : id > issued
<1>1. Typed /\ [Next]_vars => FreshIds \/ UNCHANGED vars
  <2> SUFFICES ASSUME Typed, Next
               PROVE  FreshIds
    OBVIOUS
  <2>0. rows \in [Hardware -> Row] /\ issued \in Nat /\ \A o \in Ops : WellFormed(op[o])
    BY DEF Typed, DataTyped, OpsWellFormed
  <2>1. ASSUME UNCHANGED rows
        PROVE  FreshIds
    BY <2>1 DEF Ids
  <2>2. ASSUME NEW o \in Ops, Insert(o)
        PROVE  FreshIds
    BY <2>0, <2>2 DEF Insert, Ids, WellFormed
  <2>3. ASSUME NEW o \in Ops, Update(o)
        PROVE  FreshIds
    <3> DEFINE f == op[o]
               row == rows[f.hw]
               updated == [row EXCEPT !.owner = IF "owner" \in f.dirty THEN f.want.owner ELSE @,
                                      !.status = IF "status" \in f.dirty THEN f.want.status ELSE @,
                                      !.pin = IF "pin" \in f.dirty THEN f.want.pin ELSE @]
    <3>1. f.hw \in Hardware
      BY <2>0, <2>3 DEF Update, WellFormed
    <3>2. updated.id = rows[f.hw].id
      BY <2>0, <3>1 DEF Row
    <3>3. rows' = [rows EXCEPT ![f.hw] = updated] \/ UNCHANGED rows
      BY <2>3 DEF Update
    <3> HIDE DEF updated
    <3>4. QED
      BY <2>0, <3>1, <3>2, <3>3 DEF Ids
  <2>4. ASSUME NEW o \in Ops, DeleteRow(o)
        PROVE  FreshIds
    BY <2>0, <2>4 DEF DeleteRow, Ids, NoRow
  <2>5. ASSUME \/ \E t \in Tokens : TokenExpires(t) \/ \E u \in Users : GenerateToken(u, t)
               \/ Crash
        PROVE  FreshIds
    BY <2>1, <2>5 DEF TokenExpires, GenerateToken, Crash
  <2>6. ASSUME NEW o \in Ops, NEW h \in Hardware,
               \/ \E t \in Tokens : Register(o, t, h)
               \/ Reset(o, h)
               \/ Delete(o, h)
               \/ \E pin \in Pins : SetPIN(o, h, pin)
               \/ RemovePIN(o, h)
               \/ \E reported \in Reported : StateUpdate(o, h, reported)
        PROVE  FreshIds
    BY <2>1, <2>6 DEF Register, Reset, Delete, SetPIN, RemovePIN, Start, StateUpdate
  <2>7. ASSUME NEW o \in Ops, Provision(o) \/ Reread(o) \/ Refresh(o) \/ Consume(o) \/ Fault(o)
        PROVE  FreshIds
    BY <2>1, <2>7 DEF Provision, Reread, Refresh, Consume, Fault
  <2>8. QED
    BY <2>2, <2>3, <2>4, <2>5, <2>6, <2>7 DEF Next
<1>2. QED
  BY <1>1, TypesHold, PTL DEF Spec, DeletedStaysDeleted

-----------------------------------------------------------------------------
\* A copy that no other operation has outdated has the owner of its row in tbl, and
\* a registration's finds the row still reset.
Current(f, tbl) ==
  f.at \in {"reread", "update"} /\ ~f.stale /\ tbl[f.hw] # NoRow =>
    IF f.kind = "register" THEN tbl[f.hw].status = "PROVISIONING"
                           ELSE tbl[f.hw].owner = f.want.owner

CopiesCurrent == \A o \in Ops : Current(op[o], rows)

\* A step that writes no row outdates no copy.
LEMMA ReadersKeepCurrent ==
  ASSUME Typed, CopiesCurrent, NEW o \in Ops, NEW frame, Become(o, frame), UNCHANGED rows,
         Current(frame, rows)
  PROVE  CopiesCurrent'
<1>1. \A p \in Ops : op'[p] \in {frame, op[p]}
  BY DEF Become, Typed, OpsWellFormed
<1>2. QED
  BY <1>1 DEF CopiesCurrent, Current

\* A step that writes a row outdates every copy of it.
LEMMA WritersOutdate ==
  ASSUME Typed, CopiesCurrent, NEW o \in Ops, NEW h \in Hardware, NEW row, NEW frame,
         Written(o, h, frame), rows' = [rows EXCEPT ![h] = row],
         frame.at \notin {"reread", "update"}
  PROVE  CopiesCurrent'
<1> SUFFICES ASSUME NEW p \in Ops
             PROVE  Current(op'[p], rows')
  BY DEF CopiesCurrent, Current
<1>1. op[p] \in Frame /\ rows \in [Hardware -> Row] /\ WellFormed(op[p])
  BY DEF Typed, DataTyped, OpsWellFormed
<1>2. CASE p = o
  BY <1>2 DEF Written, Current
<1>3. CASE p # o /\ op[p].hw = h
  <2>1. op'[p] = [op[p] EXCEPT !.stale = TRUE]
    BY <1>3 DEF Written
  <2>2. op'[p].stale
    BY <1>1, <2>1 DEF Frame
  <2>3. QED
    BY <2>2 DEF Current
<1>4. CASE p # o /\ op[p].hw # h
  <2>1. op'[p] = op[p]
    BY <1>4 DEF Written
  <2>2. CASE op[p].at = "idle"
    BY <2>1, <2>2 DEF Current
  <2>3. CASE op[p].at # "idle"
    <3>1. rows'[op[p].hw] = rows[op[p].hw]
      BY <1>1, <1>4, <2>3 DEF WellFormed
    <3>2. QED
      BY <2>1, <3>1 DEF Current, CopiesCurrent
  <2>4. QED
    BY <2>2, <2>3
<1>5. QED
  BY <1>2, <1>3, <1>4

\* A copy that makes its row await provisioning is one that opens the vault, or was
\* made of a vault that had been opened.
CopyOpened(f, S) ==
  f.at \in {"reread", "update"} /\ f.want.status = "PROVISIONING" =>
    f.kind \in {"reset", "state_update"} \/ f.want.id \in S

OpenedFirst ==
  /\ \A h \in Hardware : Exists(h) /\ rows[h].status = "PROVISIONING" => rows[h].id \in opened
  /\ \A o \in Ops : CopyOpened(op[o], opened)

\* Openings are never forgotten: a copy of an opened vault stays one.
LEMMA CopiesStayOpened ==
  ASSUME Typed, OpenedFirst, NEW o \in Ops, NEW h, NEW frame,
         Become(o, frame) \/ Written(o, h, frame),
         opened \subseteq opened', CopyOpened(frame, opened')
  PROVE  \A p \in Ops : CopyOpened(op'[p], opened')
<1> SUFFICES ASSUME NEW p \in Ops
             PROVE  CopyOpened(op'[p], opened')
  OBVIOUS
<1>1. op \in [Ops -> Frame]
  BY DEF Typed, OpsWellFormed
<1>2. CopyOpened(op[p], opened')
  BY DEF OpenedFirst, CopyOpened
<1>3. CopyOpened([op[p] EXCEPT !.stale = TRUE], opened')
  BY <1>1, <1>2 DEF CopyOpened, Frame
<1>4. op'[p] \in {frame, op[p], [op[p] EXCEPT !.stale = TRUE]}
  BY <1>1 DEF Become, Written
<1>5. QED
  BY <1>2, <1>3, <1>4

\* A vault awaits provisioning only once it was opened by a reset or a report,
\* although outdated copies of its row may make it await provisioning again.
LEMMA OpenedHolds == Typed /\ OpenedFirst /\ [Next]_vars => OpenedFirst'
<1> USE LifecycleAssumption
<1> SUFFICES ASSUME Typed, OpenedFirst, [Next]_vars
             PROVE  OpenedFirst'
  OBVIOUS
<1>0. rows \in [Hardware -> Row] /\ op \in [Ops -> Frame] /\ \A o \in Ops : WellFormed(op[o])
  BY DEF Typed, DataTyped, OpsWellFormed
<1>1. ASSUME UNCHANGED <<rows, opened>>, NEW o \in Ops, NEW frame, Become(o, frame),
             CopyOpened(frame, opened)
      PROVE  OpenedFirst'
  <2>1. \A p \in Ops : CopyOpened(op'[p], opened')
    BY <1>1, CopiesStayOpened
  <2>2. QED
    BY <1>1, <2>1 DEF OpenedFirst, Exists
<1>2. \A S : CopyOpened(Idle, S)
  BY DEF CopyOpened, Idle
<1>3. ASSUME UNCHANGED <<rows, op, opened>>
      PROVE  OpenedFirst'
  BY <1>3 DEF OpenedFirst, Exists, CopyOpened
<1>4. ASSUME NEW t \in Tokens, TokenExpires(t) \/ \E u \in Users : GenerateToken(u, t)
      PROVE  OpenedFirst'
  BY <1>3, <1>4 DEF TokenExpires, GenerateToken
<1>5. ASSUME NEW o \in Ops, NEW t \in Tokens, NEW h \in Hardware, Register(o, t, h)
      PROVE  OpenedFirst'
  <2> DEFINE frame == [Idle EXCEPT !.at = "provision", !.kind = "register", !.hw = h,
                                   !.user = tokens[t], !.token = t]
  <2>1. CopyOpened(frame, opened)
    BY DEF CopyOpened, Idle
  <2>2. QED
    BY <1>1, <1>5, <2>1 DEF Register
<1>6. ASSUME NEW o \in Ops, NEW h \in Hardware,
             \/ Reset(o, h)
             \/ Delete(o, h)
             \/ \E pin \in Pins : SetPIN(o, h, pin)
             \/ RemovePIN(o, h)
      PROVE  OpenedFirst'
  <2>1. PICK next \in {"reread", "delete"}, kind \in {"reset", "set_pin", "other"}, want \in Row :
          /\ want.id = rows[h].id
          /\ kind = "reset" \/ want.status = rows[h].status
          /\ Start(o, h, next, kind, want)
    BY <1>6, StartsFromRow
  <2> DEFINE frame == [Idle EXCEPT !.at = next, !.kind = kind, !.hw = h, !.want = want]
  <2>2. CopyOpened(frame, opened)
    BY <2>1 DEF Start, OpenedFirst, CopyOpened, Idle
  <2>3. QED
    BY <1>1, <2>1, <2>2 DEF Start
<1>7. ASSUME NEW o \in Ops, NEW h \in Hardware, NEW reported \in Reported,
             StateUpdate(o, h, reported)
      PROVE  OpenedFirst'
  <2> DEFINE frame == [Idle EXCEPT !.at = "reread", !.kind = "state_update", !.hw = h,
                                   !.want = [rows[h] EXCEPT !.status = reported]]
  <2>1. CopyOpened(frame, opened)
    BY DEF CopyOpened, Idle
  <2>2. QED
    BY <1>1, <1>7, <2>1 DEF StateUpdate
<1>8. ASSUME NEW o \in Ops, Provision(o)
      PROVE  OpenedFirst'
  <2> DEFINE f == op[o]
             taken == [id |-> rows[f.hw].id, owner |-> f.user, status |-> "LOCKED", pin |-> None]
  <2>1. CopyOpened([f EXCEPT !.at = "insert"], opened)
    BY <1>0 DEF CopyOpened, Frame
  <2>2. CopyOpened([f EXCEPT !.at = "reread", !.want = taken, !.stale = FALSE], opened)
    BY <1>0 DEF CopyOpened, Frame
  <2>3. QED
    BY <1>1, <1>2, <1>8, <2>1, <2>2 DEF Provision, Finish
<1>9. ASSUME NEW o \in Ops, Insert(o)
      PROVE  OpenedFirst'
  <2> DEFINE f == op[o]
             new == [id |-> issued + 1, owner |-> f.user, status |-> "LOCKED", pin |-> None]
             frame == [f EXCEPT !.at = "refresh", !.want = new]
  <2>1. CASE Exists(f.hw)
    BY <1>1, <1>2, <1>9, <2>1 DEF Insert, Finish
  <2>2. CASE ~Exists(f.hw)
    <3>1. f.hw \in Hardware
      BY <1>0, <1>9 DEF Insert, WellFormed
    <3>2. rows' = [rows EXCEPT ![f.hw] = new] /\ Written(o, f.hw, frame) /\ UNCHANGED opened
      BY <1>9, <2>2 DEF Insert
    <3>3. CopyOpened(frame, opened')
      BY <1>0 DEF CopyOpened, Frame
    <3>4. \A p \in Ops : CopyOpened(op'[p], opened')
      BY <3>2, <3>3, CopiesStayOpened
    <3>5. new.status = "LOCKED"
      OBVIOUS
    <3> HIDE DEF new
    <3>6. QED
      BY <1>0, <3>1, <3>2, <3>4, <3>5 DEF OpenedFirst, Exists
  <2>3. QED
    BY <2>1, <2>2
<1>10. ASSUME NEW o \in Ops, Reread(o)
       PROVE  OpenedFirst'
  <2> DEFINE f == op[o]
             assigned == IF f.kind = "set_pin" THEN {"pin"} ELSE Columns
             dirty == {c \in assigned : f.want[c] # rows[f.hw][c]}
  <2>1. f \in Frame /\ f.at = "reread" /\ CopyOpened(f, opened)
    BY <1>0, <1>10 DEF Reread, OpenedFirst
  <2>2. CopyOpened([f EXCEPT !.at = "update", !.dirty = dirty], opened)
    BY <2>1 DEF CopyOpened, Frame
  <2>3. QED
    BY <1>1, <1>2, <1>10, <2>2 DEF Reread, Finish
<1>11. ASSUME NEW o \in Ops, Update(o)
       PROVE  OpenedFirst'
  <2> DEFINE f == op[o]
             row == rows[f.hw]
             updated == [row EXCEPT !.owner = IF "owner" \in f.dirty THEN f.want.owner ELSE @,
                                    !.status = IF "status" \in f.dirty THEN f.want.status ELSE @,
                                    !.pin = IF "pin" \in f.dirty THEN f.want.pin ELSE @]
             frame == IF f.kind = "register" THEN [f EXCEPT !.at = "refresh", !.dirty = {}]
                                             ELSE Idle
  <2>1. f \in Frame /\ f.hw \in Hardware /\ f.at = "update" /\ row \in Row /\ CopyOpened(f, opened)
    BY <1>0, <1>11 DEF Update, WellFormed, OpenedFirst
  <2>2. CASE ~Found(o)
    BY <1>1, <1>2, <1>11, <2>2 DEF Update, Finish
  <2>3. CASE Found(o)
    <3>1. /\ rows' = [rows EXCEPT ![f.hw] = updated] /\ Written(o, f.hw, frame)
          /\ opened' = opened \cup Opens(f)
      BY <1>11, <2>3 DEF Update
    <3>2. CopyOpened(frame, opened')
      BY <1>2, <2>1 DEF CopyOpened, Frame
    <3>3. \A p \in Ops : CopyOpened(op'[p], opened')
      BY <3>1, <3>2, CopiesStayOpened
    <3>4. f.want.status = "PROVISIONING" => f.want.id \in opened'
      BY <2>1, <3>1 DEF CopyOpened, Opens
    <3>5. row.status = "PROVISIONING" => row.id \in opened'
      BY <2>1, <2>3, <3>1 DEF OpenedFirst, Found
    <3>6. updated.id = row.id /\ updated.status \in {row.status, f.want.status}
      BY <2>1 DEF Row
    <3>7. updated.status = "PROVISIONING" => updated.id \in opened'
      BY <2>3, <3>4, <3>5, <3>6 DEF Found
    <3>8. \A h \in Hardware : Exists(h) /\ rows[h].status = "PROVISIONING" => rows[h].id \in opened'
      BY <3>1 DEF OpenedFirst
    <3> HIDE DEF updated
    <3>9. \A h \in Hardware : rows'[h] = IF h = f.hw THEN updated ELSE rows[h]
      BY <1>0, <2>1, <3>1
    <3>10. QED
      BY <3>3, <3>7, <3>8, <3>9 DEF OpenedFirst, Exists
  <2>4. QED
    BY <2>2, <2>3
<1>12. ASSUME NEW o \in Ops, DeleteRow(o)
       PROVE  OpenedFirst'
  <2>1. \A p \in Ops : CopyOpened(op'[p], opened')
    BY <1>2, <1>12, CopiesStayOpened DEF DeleteRow
  <2>2. op[o].hw \in Hardware
    BY <1>0, <1>12 DEF DeleteRow, WellFormed
  <2>3. QED
    BY <1>0, <1>12, <2>1, <2>2 DEF DeleteRow, OpenedFirst, Exists
<1>13. ASSUME NEW o \in Ops, Refresh(o) \/ Consume(o) \/ Fault(o)
       PROVE  OpenedFirst'
  <2>1. CopyOpened([op[o] EXCEPT !.at = "consume"], opened)
    BY <1>0 DEF CopyOpened, Frame
  <2>2. QED
    BY <1>1, <1>2, <1>13, <2>1 DEF Refresh, Consume, Fault, Finish
<1>14. CASE Crash
  BY <1>2, <1>14 DEF Crash, OpenedFirst, Exists
<1>15. CASE UNCHANGED vars
  BY <1>3, <1>15 DEF vars
<1>16. QED
  BY <1>4, <1>5, <1>6, <1>7, <1>8, <1>9, <1>10, <1>11, <1>12, <1>13, <1>14, <1>15 DEF Next

\* A write whose copy of the row no other operation has outdated gives a vault to
\* another owner only while the vault awaits provisioning, after a reset or a report
\* that opened it (OwnerChangesAfterOpening).
THEOREM ChangesHold == Spec => OwnerChangesAfterOpening
<1> USE LifecycleAssumption
<1> DEFINE OpenFirst ==
             \A o \in Ops, h \in Hardware :
               Update(o) /\ op[o].hw = h /\ ~op[o].stale /\ rows'[h].owner # rows[h].owner
                 => /\ rows[h].status = "PROVISIONING"
                    /\ rows[h].id \in opened
<1>1. Init => CopiesCurrent
  BY DEF Init, CopiesCurrent, Current, Idle
<1>2. Typed /\ CopiesCurrent /\ [Next]_vars => CopiesCurrent'
  <2> SUFFICES ASSUME Typed, CopiesCurrent, [Next]_vars
               PROVE  CopiesCurrent'
    OBVIOUS
  <2>0. rows \in [Hardware -> Row] /\ \A o \in Ops : WellFormed(op[o]) /\ op[o] \in Frame
    BY DEF Typed, DataTyped, OpsWellFormed
  <2>1. \A tbl : Current(Idle, tbl)
    BY DEF Current, Idle
  <2>2. ASSUME UNCHANGED <<rows, op>>
        PROVE  CopiesCurrent'
    BY <2>2 DEF CopiesCurrent, Current
  <2>3. ASSUME NEW t \in Tokens, TokenExpires(t) \/ \E u \in Users : GenerateToken(u, t)
        PROVE  CopiesCurrent'
    BY <2>2, <2>3 DEF TokenExpires, GenerateToken
  <2>4. ASSUME NEW o \in Ops, NEW t \in Tokens, NEW h \in Hardware, Register(o, t, h)
        PROVE  CopiesCurrent'
    <3> DEFINE frame == [Idle EXCEPT !.at = "provision", !.kind = "register", !.hw = h,
                                     !.user = tokens[t], !.token = t]
    <3>1. Current(frame, rows)
      BY DEF Current, Idle
    <3>2. QED
      BY <2>4, <3>1, ReadersKeepCurrent DEF Register
  <2>5. ASSUME NEW o \in Ops, NEW h \in Hardware,
               \/ Reset(o, h)
               \/ Delete(o, h)
               \/ \E pin \in Pins : SetPIN(o, h, pin)
               \/ RemovePIN(o, h)
        PROVE  CopiesCurrent'
    <3>1. PICK next \in {"reread", "delete"}, kind \in {"reset", "set_pin", "other"}, want \in Row :
            want.owner = rows[h].owner /\ Start(o, h, next, kind, want)
      BY <2>5, StartsFromRow
    <3> DEFINE frame == [Idle EXCEPT !.at = next, !.kind = kind, !.hw = h, !.want = want]
    <3>2. Current(frame, rows)
      BY <3>1 DEF Current, Idle
    <3>3. QED
      BY <3>1, <3>2, ReadersKeepCurrent DEF Start
  <2>6. ASSUME NEW o \in Ops, NEW h \in Hardware, NEW reported \in Reported,
               StateUpdate(o, h, reported)
        PROVE  CopiesCurrent'
    <3> DEFINE want == [rows[h] EXCEPT !.status = reported]
               frame == [Idle EXCEPT !.at = "reread", !.kind = "state_update", !.hw = h,
                                     !.want = want]
    <3>1. want.owner = rows[h].owner
      BY <2>0 DEF Row
    <3>2. Current(frame, rows)
      BY <3>1 DEF Current, Idle
    <3>3. QED
      BY <2>6, <3>2, ReadersKeepCurrent DEF StateUpdate
  <2>7. ASSUME NEW o \in Ops, Provision(o)
        PROVE  CopiesCurrent'
    <3> DEFINE f == op[o]
               taken == [id |-> rows[f.hw].id, owner |-> f.user, status |-> "LOCKED", pin |-> None]
    <3>1. f \in Frame /\ f.kind = "register"
      BY <2>0, <2>7 DEF Provision, WellFormed
    <3>2. Current([f EXCEPT !.at = "insert"], rows)
      BY <3>1 DEF Current, Frame
    <3>3. rows[f.hw].status = "PROVISIONING" =>
            Current([f EXCEPT !.at = "reread", !.want = taken, !.stale = FALSE], rows)
      BY <3>1 DEF Current, Frame
    <3>4. QED
      BY <2>1, <2>7, <3>2, <3>3, ReadersKeepCurrent DEF Provision, Finish
  <2>8. ASSUME NEW o \in Ops, Insert(o)
        PROVE  CopiesCurrent'
    <3> DEFINE f == op[o]
               new == [id |-> issued + 1, owner |-> f.user, status |-> "LOCKED", pin |-> None]
               frame == [f EXCEPT !.at = "refresh", !.want = new]
    <3>1. f.hw \in Hardware /\ frame.at = "refresh"
      BY <2>0, <2>8 DEF Insert, WellFormed, Frame
    <3>2. \/ Become(o, Idle) /\ UNCHANGED rows
          \/ rows' = [rows EXCEPT ![f.hw] = new] /\ Written(o, f.hw, frame)
      BY <2>8 DEF Insert, Finish
    <3> HIDE DEF new, frame
    <3>3. QED
      BY <2>1, <3>1, <3>2, ReadersKeepCurrent, WritersOutdate
  <2>9. ASSUME NEW o \in Ops, Reread(o)
        PROVE  CopiesCurrent'
    <3> DEFINE f == op[o]
               assigned == IF f.kind = "set_pin" THEN {"pin"} ELSE Columns
               dirty == {c \in assigned : f.want[c] # rows[f.hw][c]}
    <3>1. f \in Frame /\ f.at = "reread" /\ Current(f, rows)
      BY <2>0, <2>9 DEF Reread, CopiesCurrent
    <3>2. Current([f EXCEPT !.at = "update", !.dirty = dirty], rows)
      BY <3>1 DEF Current, Frame
    <3>3. QED
      BY <2>1, <2>9, <3>2, ReadersKeepCurrent DEF Reread, Finish
  <2>10. ASSUME NEW o \in Ops, Update(o)
         PROVE  CopiesCurrent'
    <3> DEFINE f == op[o]
               row == rows[f.hw]
               updated == [row EXCEPT !.owner = IF "owner" \in f.dirty THEN f.want.owner ELSE @,
                                      !.status = IF "status" \in f.dirty THEN f.want.status ELSE @,
                                      !.pin = IF "pin" \in f.dirty THEN f.want.pin ELSE @]
               frame == IF f.kind = "register" THEN [f EXCEPT !.at = "refresh", !.dirty = {}]
                                               ELSE Idle
    <3>1. f.hw \in Hardware /\ frame.at \in {"refresh", "idle"}
      BY <2>0, <2>10 DEF Update, WellFormed, Frame, Idle
    <3>2. \/ Become(o, Idle) /\ UNCHANGED rows
          \/ rows' = [rows EXCEPT ![f.hw] = updated] /\ Written(o, f.hw, frame)
      BY <2>10 DEF Update, Finish
    <3> HIDE DEF updated, frame
    <3>3. QED
      BY <2>1, <3>1, <3>2, ReadersKeepCurrent, WritersOutdate
  <2>11. ASSUME NEW o \in Ops, DeleteRow(o)
         PROVE  CopiesCurrent'
    <3>1. op[o].hw \in Hardware /\ Idle.at = "idle"
      BY <2>0, <2>11 DEF DeleteRow, WellFormed, Idle
    <3>2. QED
      BY <2>1, <2>11, <3>1, ReadersKeepCurrent, WritersOutdate DEF DeleteRow
  <2>12. ASSUME NEW o \in Ops, Refresh(o) \/ Consume(o) \/ Fault(o)
         PROVE  CopiesCurrent'
    <3>1. Current([op[o] EXCEPT !.at = "consume"], rows)
      BY <2>0 DEF Current, Frame
    <3>2. QED
      BY <2>1, <2>12, <3>1, ReadersKeepCurrent DEF Refresh, Consume, Fault, Finish
  <2>13. CASE Crash
    BY <2>1, <2>13 DEF Crash, CopiesCurrent, Current
  <2>14. CASE UNCHANGED vars
    BY <2>2, <2>14 DEF vars
  <2>15. QED
    BY <2>3, <2>4, <2>5, <2>6, <2>7, <2>8, <2>9, <2>10, <2>11, <2>12, <2>13, <2>14 DEF Next
<1>3. Init => OpenedFirst
  BY DEF Init, OpenedFirst, CopyOpened, Exists, Idle
<1>4. Typed /\ CopiesCurrent /\ OpenedFirst => OpenFirst
  <2> SUFFICES ASSUME Typed, CopiesCurrent, OpenedFirst, NEW o \in Ops, Update(o), ~op[o].stale,
                      rows'[op[o].hw].owner # rows[op[o].hw].owner, op[o].hw \in Hardware
               PROVE  /\ rows[op[o].hw].status = "PROVISIONING"
                      /\ rows[op[o].hw].id \in opened
    OBVIOUS
  <2> DEFINE f == op[o]
             row == rows[f.hw]
             updated == [row EXCEPT !.owner = IF "owner" \in f.dirty THEN f.want.owner ELSE @,
                                    !.status = IF "status" \in f.dirty THEN f.want.status ELSE @,
                                    !.pin = IF "pin" \in f.dirty THEN f.want.pin ELSE @]
  <2>1. rows \in [Hardware -> Row]
    BY DEF Typed, DataTyped
  <2>2. Found(o) /\ rows' = [rows EXCEPT ![f.hw] = updated]
    BY DEF Update
  <2>3. updated.owner \in {rows[f.hw].owner, f.want.owner}
    BY <2>1 DEF Row
  <2> HIDE DEF updated
  <2>4. f.want.owner # rows[f.hw].owner
    BY <2>1, <2>2, <2>3
  <2>5. rows[f.hw].status = "PROVISIONING"
    BY <2>2, <2>4 DEF CopiesCurrent, Current, Update, Found, Exists
  <2>6. QED
    BY <2>2, <2>5 DEF OpenedFirst, Found
<1>5. QED
  BY <1>1, <1>2, <1>3, <1>4, OpenedHolds, TypesHold, PTL DEF Spec, OwnerChangesAfterOpening

-----------------------------------------------------------------------------
\* f is the registration of vault id that is about to delete token t.
Consuming(f, t, id) == f.at \in {"refresh", "consume"} /\ f.token = t /\ f.want.id = id

\* A vault's id is an issued one, is found under one device only, and a
\* registration that reads its row again looks for it there.
IdsAtHome ==
  /\ \A g, h \in Hardware : Exists(g) /\ Exists(h) /\ rows[g].id = rows[h].id => g = h
  /\ \A o \in Ops : op[o].at = "refresh" =>
       /\ op[o].want.id \in 1..issued
       /\ \A h \in Hardware : Exists(h) /\ rows[h].id = op[o].want.id => op[o].hw = h

TokensGo == UsedTokenGoes /\ IdsAtHome

\* A step of an operation that is not about to delete its token leaves those that
\* are, and reads no row again.
LEMMA OthersKeepConsuming ==
  ASSUME Typed, NEW o \in Ops, NEW h, NEW frame, Become(o, frame) \/ Written(o, h, frame),
         op[o].at \notin {"refresh", "consume"}
  PROVE  /\ \A t, id : \A p \in Ops : Consuming(op[p], t, id) => Consuming(op'[p], t, id)
         /\ \A p \in Ops : p # o =>
              op'[p].at = op[p].at /\ op'[p].want = op[p].want /\ op'[p].hw = op[p].hw
         /\ op'[o] = frame
<1>1. op \in [Ops -> Frame]
  BY DEF Typed, OpsWellFormed
<1>2. \A p \in Ops : p # o => op'[p] \in {op[p], [op[p] EXCEPT !.stale = TRUE]}
  BY <1>1 DEF Become, Written
<1>3. \A p \in Ops : p # o => /\ op'[p].at = op[p].at /\ op'[p].want = op[p].want
                            /\ op'[p].hw = op[p].hw /\ op'[p].token = op[p].token
  BY <1>1, <1>2 DEF Frame
<1>4. op'[o] = frame
  BY <1>1 DEF Become, Written
<1>5. \A t, id : \A p \in Ops : Consuming(op[p], t, id) => Consuming(op'[p], t, id)
  BY <1>3 DEF Consuming
<1>6. QED
  BY <1>3, <1>4, <1>5

\* While no registration is committed and no operation about to delete its token
\* moves, used tokens keep going.
LEMMA NothingUsed ==
  ASSUME UsedTokenGoes, kept \subseteq kept',
         \A t \in Tokens : uses'[t] \cap Ids' \subseteq uses[t] \cap Ids,
         \A t \in Tokens : tokens'[t] = tokens[t] \/ tokens'[t] = None,
         \A t \in Tokens, id \in Nat, p \in Ops :
           Consuming(op[p], t, id) =>
             Consuming(op'[p], t, id) \/ tokens'[t] = None \/ id \notin Ids' \/ <<t, id>> \in kept',
         Typed
  PROVE  UsedTokenGoes'
<1> SUFFICES ASSUME NEW t \in Tokens, NEW id \in uses'[t] \cap Ids', tokens'[t] # None,
                    <<t, id>> \notin kept'
             PROVE  \E p \in Ops : Consuming(op'[p], t, id)
  BY ZenonT(30) DEF UsedTokenGoes, Consuming
<1>1. id \in uses[t] \cap Ids /\ id \in Nat
  BY DEF Typed, DataTyped
<1>2. PICK p \in Ops : Consuming(op[p], t, id)
  BY <1>1 DEF UsedTokenGoes, Consuming
<1>3. QED
  BY <1>1, <1>2

\* A registration that commits vault id under its device is from then on about to
\* delete its token.
LEMMA NewlyUsed ==
  ASSUME Typed, UsedTokenGoes, UNCHANGED tokens, NEW o \in Ops, NEW id \in Nat,
         uses' = [uses EXCEPT ![op[o].token] = @ \cup {id}],
         kept' = kept \ {<<op[o].token, id>>},
         Ids' \subseteq Ids \cup {id}, id \in Ids \/ \A t \in Tokens : id \notin uses[t],
         Consuming(op'[o], op[o].token, id),
         \A t, i : \A p \in Ops : Consuming(op[p], t, i) => Consuming(op'[p], t, i)
  PROVE  UsedTokenGoes'
<1> SUFFICES ASSUME NEW t \in Tokens, NEW i \in uses'[t] \cap Ids', tokens'[t] # None,
                    <<t, i>> \notin kept'
             PROVE  \E p \in Ops : Consuming(op'[p], t, i)
  BY DEF UsedTokenGoes, Consuming
<1>1. CASE t = op[o].token /\ i = id
  BY <1>1
<1>2. CASE ~(t = op[o].token /\ i = id)
  <2>1. i \in uses[t] /\ i \in Ids /\ <<t, i>> \notin kept
    <3>1. <<t, i>> # <<op[o].token, id>>
      BY <1>2
    <3>2. QED
      BY <1>2, <3>1 DEF Typed, DataTyped
  <2>2. PICK p \in Ops : Consuming(op[p], t, i)
    BY <2>1 DEF UsedTokenGoes, Consuming
  <2>3. QED
    BY <2>2
<1>3. QED
  BY <1>1, <1>2

\* A token that is issued anew, or expires, has no uses; all others stay as they are.
LEMMA Reissued ==
  ASSUME UsedTokenGoes, NEW t \in Tokens, Ids' = Ids,
         \A s, id : \A p \in Ops : Consuming(op[p], s, id) => Consuming(op'[p], s, id),
         tokens'[t] # None => uses'[t] = {}, \A s \in Tokens : uses'[s] \subseteq Nat,
         \A s \in Tokens : s # t => tokens'[s] = tokens[s] /\ uses'[s] = uses[s],
         \A s \in Tokens, id \in Nat : s # t /\ <<s, id>> \in kept => <<s, id>> \in kept'
  PROVE  UsedTokenGoes'
<1>0. (\A s \in Tokens : \A id \in uses'[s] \cap Ids' :
         tokens'[s] = None \/ <<s, id>> \in kept' \/ \E p \in Ops : Consuming(op'[p], s, id))
      => UsedTokenGoes'
  BY ONLY DEF UsedTokenGoes, Consuming
<1> SUFFICES ASSUME NEW s \in Tokens, NEW id \in uses'[s] \cap Ids', tokens'[s] # None,
                    <<s, id>> \notin kept'
             PROVE  \E p \in Ops : Consuming(op'[p], s, id)
  BY <1>0, Zenon
<1>1. s # t /\ id \in Nat
  OBVIOUS
<1>2. id \in uses[s] \cap Ids /\ tokens[s] # None /\ <<s, id>> \notin kept
  BY <1>1
<1>3. \E p \in Ops : Consuming(op[p], s, id)
  BY <1>2 DEF UsedTokenGoes, Consuming
<1>4. QED
  BY <1>3

\* A token that has registered a vault is redeemable no longer than the request
\* that used it takes to delete it, unless this registration was broken off between
\* its commit and its DEL or the vault is deleted already (UsedTokenGoes).
THEOREM TokensHold == Spec => []UsedTokenGoes
<1> USE LifecycleAssumption
<1>1. Init => TokensGo
  BY DEF Init, TokensGo, UsedTokenGoes, IdsAtHome, Exists, Idle
<1>2. Typed /\ TokensGo /\ [Next]_vars => TokensGo'
  <2> SUFFICES ASSUME Typed, TokensGo, [Next]_vars
               PROVE  TokensGo'
    OBVIOUS
  <2>0. /\ rows \in [Hardware -> Row] /\ \A h \in Hardware : Exists(h) => rows[h].id \in 1..issued
        /\ issued \in Nat /\ tokens \in [Tokens -> Users \cup {None}]
        /\ uses \in [Tokens -> SUBSET (1..issued)] /\ kept \subseteq Tokens \X Nat
        /\ op \in [Ops -> Frame] /\ \A o \in Ops : WellFormed(op[o])
    BY DEF Typed, DataTyped, OpsWellFormed
  <2>1. UsedTokenGoes /\ IdsAtHome
    BY DEF TokensGo
  <2>2. ASSUME NEW o \in Ops, NEW frame, Become(o, frame),
               UNCHANGED <<rows, issued, tokens, uses, kept>>,
               op[o].at \notin {"refresh", "consume"}, frame.at # "refresh"
        PROVE  TokensGo'
    <3>1. /\ \A t, id : \A p \in Ops : Consuming(op[p], t, id) => Consuming(op'[p], t, id)
          /\ \A p \in Ops : p # o =>
               op'[p].at = op[p].at /\ op'[p].want = op[p].want /\ op'[p].hw = op[p].hw
          /\ op'[o] = frame
      BY <2>2, OthersKeepConsuming
    <3>2. UsedTokenGoes'
      BY <2>1, <2>2, <3>1, NothingUsed DEF Ids
    <3>3. IdsAtHome'
      BY <2>1, <2>2, <3>1 DEF IdsAtHome, Exists
    <3>4. QED
      BY <3>2, <3>3 DEF TokensGo
  <2>3. Idle.at = "idle"
    BY DEF Idle
  <2>4. ASSUME NEW t \in Tokens, TokenExpires(t) \/ \E u \in Users : GenerateToken(u, t)
        PROVE  TokensGo'
    <3>1. /\ UNCHANGED <<rows, issued, op>>
          /\ \/ UNCHANGED <<uses, kept>> /\ tokens' = [tokens EXCEPT ![t] = None]
             \/ /\ uses' = [uses EXCEPT ![t] = {}] /\ kept' = {k \in kept : k[1] # t}
                /\ \A s \in Tokens : s # t => tokens'[s] = tokens[s]
      BY <2>0, <2>4 DEF TokenExpires, GenerateToken
    <3>2. \A s \in Tokens, id \in Nat : s # t /\ <<s, id>> \in kept => <<s, id>> \in kept'
      BY <3>1
    <3>3. /\ Ids' = Ids /\ \A s \in Tokens : tokens'[s] # None /\ s = t => uses'[s] = {}
          /\ \A s \in Tokens : s # t => tokens'[s] = tokens[s] /\ uses'[s] = uses[s]
      BY <2>0, <3>1 DEF Ids
    <3>4. \A s \in Tokens : uses'[s] \subseteq Nat
      BY <2>0, <3>1
    <3>5. UsedTokenGoes'
      BY <2>1, <3>1, <3>2, <3>3, <3>4, Reissued
    <3>6. IdsAtHome'
      BY <2>1, <3>1 DEF IdsAtHome, Exists
    <3>7. QED
      BY <3>5, <3>6 DEF TokensGo
  <2>5. ASSUME NEW o \in Ops, NEW t \in Tokens, NEW h \in Hardware, Register(o, t, h)
        PROVE  TokensGo'
    <3> DEFINE frame == [Idle EXCEPT !.at = "provision", !.kind = "register", !.hw = h,
                                     !.user = tokens[t], !.token = t]
    <3>1. frame.at = "provision"
      BY DEF Idle
    <3> HIDE DEF frame
    <3>2. Become(o, frame)
      BY <2>5 DEF Register, frame
    <3>3. QED
      BY <2>2, <2>5, <3>1, <3>2 DEF Register
  <2>6. ASSUME NEW o \in Ops, NEW h \in Hardware,
               \/ Reset(o, h)
               \/ Delete(o, h)
               \/ \E pin \in Pins : SetPIN(o, h, pin)
               \/ RemovePIN(o, h)
        PROVE  TokensGo'
    <3>1. PICK next \in {"reread", "delete"}, kind \in {"reset", "set_pin", "other"}, want \in Row :
            Start(o, h, next, kind, want)
      BY <2>6, StartsFromRow
    <3> DEFINE frame == [Idle EXCEPT !.at = next, !.kind = kind, !.hw = h, !.want = want]
    <3>2. frame.at \in {"reread", "delete"}
      BY DEF Idle
    <3>3. QED
      BY <2>2, <3>1, <3>2 DEF Start
  <2>7. ASSUME NEW o \in Ops, NEW h \in Hardware, NEW reported \in Reported,
               StateUpdate(o, h, reported)
        PROVE  TokensGo'
    <3> DEFINE frame == [Idle EXCEPT !.at = "reread", !.kind = "state_update", !.hw = h,
                                     !.want = [rows[h] EXCEPT !.status = reported]]
    <3>1. frame.at = "reread"
      BY DEF Idle
    <3>2. QED
      BY <2>2, <2>7, <3>1 DEF StateUpdate
  <2>8. ASSUME NEW o \in Ops, Provision(o)
        PROVE  TokensGo'
    <3> DEFINE f == op[o]
               taken == [id |-> rows[f.hw].id, owner |-> f.user, status |-> "LOCKED", pin |-> None]
    <3>1. /\ [f EXCEPT !.at = "insert"].at = "insert"
          /\ [f EXCEPT !.at = "reread", !.want = taken, !.stale = FALSE].at = "reread"
      BY <2>0 DEF Frame
    <3>2. PICK frame : Become(o, frame) /\ frame.at \in {"insert", "reread", "idle"}
      BY <2>3, <2>8, <3>1 DEF Provision, Finish
    <3>3. QED
      BY <2>2, <2>8, <3>2 DEF Provision
  <2>9. ASSUME NEW o \in Ops, Insert(o)
        PROVE  TokensGo'
    <3> DEFINE f == op[o]
               new == [id |-> issued + 1, owner |-> f.user, status |-> "LOCKED", pin |-> None]
               frame == [f EXCEPT !.at = "refresh", !.want = new]
    <3>1. f.hw \in Hardware /\ f.token \in Tokens /\ f.at = "insert"
      BY <2>0, <2>9 DEF Insert, WellFormed
    <3>2. CASE Exists(f.hw)
      BY <2>2, <2>3, <2>9, <3>1, <3>2 DEF Insert, Finish
    <3>3. CASE ~Exists(f.hw)
      <4>1. /\ rows' = [rows EXCEPT ![f.hw] = new] /\ issued' = issued + 1
            /\ Written(o, f.hw, frame) /\ UNCHANGED tokens
            /\ uses' = [uses EXCEPT ![f.token] = @ \cup {issued + 1}]
            /\ kept' = kept \ {<<f.token, issued + 1>>}
        BY <2>9, <3>3 DEF Insert, Redeem
      <4>2. /\ \A t, id : \A p \in Ops : Consuming(op[p], t, id) => Consuming(op'[p], t, id)
            /\ \A p \in Ops : p # o =>
                 op'[p].at = op[p].at /\ op'[p].want = op[p].want /\ op'[p].hw = op[p].hw
            /\ op'[o] = frame
        BY <3>1, <4>1, OthersKeepConsuming
      <4>3. /\ frame.at = "refresh" /\ frame.want = new /\ frame.token = f.token
            /\ frame.hw = f.hw /\ new.id = issued + 1
        BY <2>0 DEF Frame
      <4> HIDE DEF new, frame
      <4>4. Ids' \subseteq Ids \cup {issued + 1}
        BY <2>0, <3>1, <4>1, <4>3 DEF Ids
      <4>5. \A t \in Tokens : issued + 1 \notin uses[t]
        BY <2>0
      <4>6. Consuming(op'[o], f.token, issued + 1)
        BY <4>2, <4>3 DEF Consuming
      <4>7. UsedTokenGoes'
        <5>1. issued + 1 \in Nat /\ UNCHANGED tokens
          BY <2>0, <4>1
        <5>2. /\ uses' = [uses EXCEPT ![op[o].token] = @ \cup {issued + 1}]
              /\ kept' = kept \ {<<op[o].token, issued + 1>>}
          BY <4>1
        <5>3. \A t, i : \A p \in Ops : Consuming(op[p], t, i) => Consuming(op'[p], t, i)
          BY <4>2
        <5>4. Consuming(op'[o], op[o].token, issued + 1)
          BY <4>6
        <5>5. QED
          BY <2>1, <4>4, <4>5, <5>1, <5>2, <5>3, <5>4, NewlyUsed
      <4>8. \A h \in Hardware : rows'[h] = IF h = f.hw THEN new ELSE rows[h]
        BY <2>0, <4>1
      <4>9. \A h \in Hardware : h # f.hw /\ Exists(h)' =>
              Exists(h) /\ rows'[h].id = rows[h].id /\ rows[h].id < issued + 1
        BY <2>0, <4>8 DEF Exists
      <4>10. IdsAtHome'
        BY <2>0, <2>1, <3>3, <4>1, <4>2, <4>3, <4>8, <4>9 DEF IdsAtHome
      <4>11. QED
        BY <4>7, <4>10 DEF TokensGo
    <3>4. QED
      BY <3>2, <3>3
  <2>10. ASSUME NEW o \in Ops, Reread(o)
         PROVE  TokensGo'
    <3>1. \A d : [op[o] EXCEPT !.at = "update", !.dirty = d].at = "update"
      BY <2>0 DEF Frame
    <3>2. PICK frame : Become(o, frame) /\ frame.at \in {"update", "idle"}
      BY <2>3, <2>10, <3>1 DEF Reread, Finish
    <3>3. QED
      BY <2>2, <2>10, <3>2 DEF Reread
  <2>11. ASSUME NEW o \in Ops, Update(o)
         PROVE  TokensGo'
    <3> DEFINE f == op[o]
               row == rows[f.hw]
               updated == [row EXCEPT !.owner = IF "owner" \in f.dirty THEN f.want.owner ELSE @,
                                      !.status = IF "status" \in f.dirty THEN f.want.status ELSE @,
                                      !.pin = IF "pin" \in f.dirty THEN f.want.pin ELSE @]
               frame == IF f.kind = "register" THEN [f EXCEPT !.at = "refresh", !.dirty = {}]
                                               ELSE Idle
    <3>1. f.hw \in Hardware /\ f.at = "update"
      BY <2>0, <2>11 DEF Update, WellFormed
    <3>2. CASE ~Found(o)
      BY <2>2, <2>3, <2>11, <3>1, <3>2 DEF Update, Finish
    <3>3. CASE Found(o)
      <4>1. /\ rows' = [rows EXCEPT ![f.hw] = updated] /\ Written(o, f.hw, frame)
            /\ UNCHANGED <<issued, tokens>>
            /\ IF f.kind = "register" THEN /\ uses' = [uses EXCEPT ![f.token] = @ \cup {f.want.id}]
                                           /\ kept' = kept \ {<<f.token, f.want.id>>}
                                      ELSE UNCHANGED <<uses, kept>>
        BY <2>11, <3>3 DEF Update, Redeem
      <4>2. /\ \A t, id : \A p \in Ops : Consuming(op[p], t, id) => Consuming(op'[p], t, id)
            /\ \A p \in Ops : p # o =>
                 op'[p].at = op[p].at /\ op'[p].want = op[p].want /\ op'[p].hw = op[p].hw
            /\ op'[o] = frame
        BY <3>1, <4>1, OthersKeepConsuming
      <4>3. updated.id = rows[f.hw].id
        BY <2>0, <3>1 DEF Row
      <4>4. /\ f.kind = "register" => /\ frame.at = "refresh" /\ frame.want = f.want
                                      /\ frame.token = f.token /\ frame.hw = f.hw
            /\ f.kind # "register" => frame.at = "idle"
        BY <2>0, <2>3 DEF Frame
      <4> HIDE DEF updated, frame
      <4>5. /\ \A h \in Hardware : rows'[h].id = rows[h].id
            /\ \A h \in Hardware : rows'[h] # NoRow => rows[h] # NoRow
        BY <2>0, <3>1, <3>3, <4>1, <4>3 DEF Exists, Found
      <4>6. Ids' \subseteq Ids
        BY <4>5 DEF Ids
      <4>7. f.want.id = rows[f.hw].id /\ f.want.id \in 1..issued /\ Exists(f.hw)
        BY <2>0, <3>1, <3>3 DEF Found
      <4>8. f.want.id \in Ids
        BY <2>0, <3>1, <4>7 DEF Ids
      <4>9. UsedTokenGoes'
        <5>1. CASE f.kind = "register"
          <6>1. Consuming(op'[o], f.token, f.want.id)
            BY <4>2, <4>4, <5>1 DEF Consuming
          <6>2. QED
            BY <2>0, <2>1, <4>1, <4>2, <4>6, <4>7, <4>8, <5>1, <6>1, NewlyUsed
        <5>2. CASE f.kind # "register"
          BY <2>1, <4>1, <4>2, <4>6, <5>2, NothingUsed
        <5>3. QED
          BY <5>1, <5>2
      <4>10. IdsAtHome'
        <5>1. \A g, h \in Hardware : Exists(g)' /\ Exists(h)' /\ rows'[g].id = rows'[h].id => g = h
          BY <2>1, <4>5 DEF IdsAtHome, Exists
        <5>2. ASSUME NEW p \in Ops, op'[p].at = "refresh", p # o
              PROVE  /\ op'[p].want.id \in 1..issued'
                     /\ \A h \in Hardware :
                          Exists(h)' /\ rows'[h].id = op'[p].want.id => op'[p].hw = h
          BY <2>1, <4>1, <4>2, <4>5, <5>2 DEF IdsAtHome, Exists
        <5>3. ASSUME op'[o].at = "refresh"
              PROVE  /\ op'[o].want.id \in 1..issued'
                     /\ \A h \in Hardware :
                          Exists(h)' /\ rows'[h].id = op'[o].want.id => op'[o].hw = h
          <6>1. op'[o].want = f.want /\ op'[o].hw = f.hw
            BY <4>2, <4>4, <5>3
          <6>2. \A h \in Hardware : Exists(h) /\ rows[h].id = rows[f.hw].id => f.hw = h
            BY <2>1, <3>1, <4>7 DEF IdsAtHome
          <6>3. QED
            BY <4>1, <4>5, <4>7, <6>1, <6>2 DEF Exists
        <5>4. QED
          BY <5>1, <5>2, <5>3 DEF IdsAtHome
      <4>11. QED
        BY <4>9, <4>10 DEF TokensGo
    <3>4. QED
      BY <3>2, <3>3
  <2>12. ASSUME NEW o \in Ops, DeleteRow(o)
         PROVE  TokensGo'
    <3>1. op[o].hw \in Hardware /\ op[o].at = "delete"
      BY <2>0, <2>12 DEF DeleteRow, WellFormed
    <3>2. CASE ~Found(o)
      BY <2>2, <2>3, <2>12, <3>1, <3>2 DEF DeleteRow
    <3>3. CASE Found(o)
      <4>1. /\ rows' = [rows EXCEPT ![op[o].hw] = NoRow] /\ Written(o, op[o].hw, Idle)
            /\ UNCHANGED <<issued, tokens, uses, kept>>
        BY <2>12, <3>3 DEF DeleteRow
      <4>2. /\ \A t, id : \A p \in Ops : Consuming(op[p], t, id) => Consuming(op'[p], t, id)
            /\ \A p \in Ops : p # o =>
                 op'[p].at = op[p].at /\ op'[p].want = op[p].want /\ op'[p].hw = op[p].hw
            /\ op'[o] = Idle
        BY <3>1, <4>1, OthersKeepConsuming
      <4>3. \A h \in Hardware : Exists(h)' => Exists(h) /\ rows'[h] = rows[h]
        BY <2>0, <3>1, <4>1 DEF Exists
      <4>4. Ids' \subseteq Ids
        BY <2>0, <3>1, <4>1 DEF Ids, NoRow
      <4>5. UsedTokenGoes'
        BY <2>1, <4>1, <4>2, <4>4, NothingUsed
      <4>6. IdsAtHome'
        BY <2>1, <2>3, <4>1, <4>2, <4>3 DEF IdsAtHome
      <4>7. QED
        BY <4>5, <4>6 DEF TokensGo
    <3>4. QED
      BY <3>2, <3>3
  <2>13. ASSUME NEW o \in Ops, Refresh(o)
         PROVE  TokensGo'
    <3> DEFINE frame == IF Found(o) THEN [op[o] EXCEPT !.at = "consume"] ELSE Idle
    <3>1. /\ Become(o, frame) /\ UNCHANGED <<rows, issued, tokens, uses, kept>>
          /\ op[o].at = "refresh"
      BY <2>13 DEF Refresh, Finish
    <3>2. \A p \in Ops : op'[p] = IF p = o THEN frame ELSE op[p]
      BY <2>0, <3>1 DEF Become
    <3>3. /\ frame.at \in {"consume", "idle"}
          /\ Found(o) => /\ frame.at = "consume" /\ frame.want = op[o].want
                         /\ frame.token = op[o].token
      BY <2>0, <2>3 DEF Frame
    <3> HIDE DEF frame
    <3>4. ~Found(o) => op[o].want.id \notin Ids
      BY <2>0, <2>1, <3>1 DEF IdsAtHome, Ids, Found, Exists, NoRow
    <3>5. \A t \in Tokens, id \in Nat, p \in Ops :
            Consuming(op[p], t, id) => Consuming(op'[p], t, id) \/ id \notin Ids'
      BY <3>1, <3>2, <3>3, <3>4 DEF Consuming, Ids
    <3>6. UsedTokenGoes'
      BY <2>1, <3>1, <3>5, NothingUsed DEF Ids
    <3>7. IdsAtHome'
      BY <2>1, <3>1, <3>2, <3>3 DEF IdsAtHome, Exists
    <3>8. QED
      BY <3>6, <3>7 DEF TokensGo
  <2>14. ASSUME NEW o \in Ops, Consume(o)
         PROVE  TokensGo'
    <3>1. /\ Become(o, Idle) /\ UNCHANGED <<rows, issued, uses, kept>>
          /\ tokens' = [tokens EXCEPT ![op[o].token] = None]
      BY <2>14 DEF Consume, Finish
    <3>2. \A p \in Ops : op'[p] = IF p = o THEN Idle ELSE op[p]
      BY <2>0, <3>1 DEF Become
    <3>3. \A t \in Tokens, id \in Nat, p \in Ops :
            Consuming(op[p], t, id) => Consuming(op'[p], t, id) \/ tokens'[t] = None
      BY <2>0, <3>1, <3>2 DEF Consuming
    <3>4. \A t \in Tokens : tokens'[t] = tokens[t] \/ tokens'[t] = None
      BY <2>0, <3>1
    <3>5. UsedTokenGoes'
      BY <2>1, <3>1, <3>3, <3>4, NothingUsed DEF Ids
    <3>6. IdsAtHome'
      BY <2>1, <2>3, <3>1, <3>2 DEF IdsAtHome, Exists
    <3>7. QED
      BY <3>5, <3>6 DEF TokensGo
  <2>15. \A S : \A p \in S : \A t, id : Consuming(op[p], t, id) => <<t, id>> \in Broken(S)
    BY DEF Broken, Consuming
  <2>16. ASSUME NEW o \in Ops, Fault(o)
         PROVE  TokensGo'
    <3>1. /\ Become(o, Idle) /\ UNCHANGED <<rows, issued, tokens, uses>>
          /\ kept' = kept \cup Broken({o})
      BY <2>16 DEF Fault, Finish
    <3>2. \A p \in Ops : op'[p] = IF p = o THEN Idle ELSE op[p]
      BY <2>0, <3>1 DEF Become
    <3>3. \A t \in Tokens, id \in Nat, p \in Ops :
            Consuming(op[p], t, id) => Consuming(op'[p], t, id) \/ <<t, id>> \in kept'
      BY <2>15, <3>1, <3>2
    <3>4. UsedTokenGoes'
      BY <2>1, <3>1, <3>3, NothingUsed DEF Ids
    <3>5. IdsAtHome'
      BY <2>1, <2>3, <3>1, <3>2 DEF IdsAtHome, Exists
    <3>6. QED
      BY <3>4, <3>5 DEF TokensGo
  <2>17. CASE Crash
    <3>1. /\ UNCHANGED <<rows, issued, tokens, uses>> /\ kept' = kept \cup Broken(Ops)
          /\ \A p \in Ops : op'[p] = Idle
      BY <2>17 DEF Crash
    <3>2. \A t \in Tokens, id \in Nat, p \in Ops : Consuming(op[p], t, id) => <<t, id>> \in kept'
      BY <2>15, <3>1
    <3>3. UsedTokenGoes'
      BY <2>1, <3>1, <3>2, NothingUsed DEF Ids
    <3>4. IdsAtHome'
      BY <2>1, <2>3, <3>1 DEF IdsAtHome, Exists
    <3>5. QED
      BY <3>3, <3>4 DEF TokensGo
  <2>18. CASE UNCHANGED vars
    BY <2>1, <2>18 DEF vars, TokensGo, UsedTokenGoes, Ids, IdsAtHome, Exists
  <2>19. QED
    BY <2>4, <2>5, <2>6, <2>7, <2>8, <2>9, <2>10, <2>11, <2>12, <2>13, <2>14, <2>16, <2>17, <2>18
       DEF Next
<1>3. TokensGo => UsedTokenGoes
  BY DEF TokensGo
<1>4. QED
  BY <1>1, <1>2, <1>3, TypesHold, PTL DEF Spec
=============================================================================
