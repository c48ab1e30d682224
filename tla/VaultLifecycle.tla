---------------------------- MODULE VaultLifecycle ----------------------------
(***************************************************************************)
(* A vault's row from registration to deletion, and the provisioning       *)
(* tokens in Redis that registrations redeem.  An operation is a sequence  *)
(* of SQL statements and Redis commands; one action is one of them.  A     *)
(* request that its first statement refuses changes nothing and is no      *)
(* action: an operation starts with the statement that lets it go on.      *)
(*                                                                         *)
(* register_device and the device's state updates run their statements on  *)
(* the event loop without awaiting, so one of them runs them to the end    *)
(* before the other can start; the rest run in worker threads (through     *)
(* run_in_threadpool) beside the loop and beside each other.               *)
(*                                                                         *)
(* SqlAlchemyVaultRepository.update reads the row again, assigns every     *)
(* column of the caller's (by then possibly outdated) copy, and SQLAlchemy *)
(* writes the columns whose value that changed.                            *)
(***************************************************************************)
EXTENDS Naturals, FiniteSets

CONSTANTS
  Ops,         \* bound: operations in progress at once
  Hardware,    \* hardware_uuid of the devices
  Users,
  Tokens,      \* six-digit provisioning tokens
  Pins,        \* PIN hashes
  Reported,    \* statuses a device reports: an unknown word raises and is only logged
  MaxVaults,   \* bound: no vault is deleted once so many have been created
  None

Statuses == {"PROVISIONING", "LOCKED", "UNLOCKED", "OFFLINE"}

ASSUME LifecycleAssumption ==
  /\ Reported \subseteq Statuses
  /\ MaxVaults \in Nat
  /\ None \notin Ops \cup Hardware \cup Users \cup Tokens \cup Pins

VARIABLES
  rows,      \* table vaults, by its unique column hardware_uuid
  issued,    \* rows created so far: their ids are 1..issued
  tokens,    \* Redis prov:<token>: the user it was generated for
  op,        \* the operations' local state
  loop,      \* the operation that holds the event loop, if any
  uses,      \* history: the vaults each token has registered since its SET
  kept,      \* history: <<token, vault id>> of registrations broken off before the DEL
  redeemed,  \* history: <<vault id, user>> of every registration
  opened     \* history: the vaults that a reset or a device's report set to PROVISIONING

vars == <<rows, issued, tokens, op, loop, uses, kept, redeemed, opened>>

Columns == {"owner", "status", "pin"}

NoRow == [id |-> 0, owner |-> None, status |-> "PROVISIONING", pin |-> None]
Row == [id : Nat, owner : Users \cup {None}, status : Statuses, pin : Pins \cup {None}]

\* `at' is the statement an operation is about to execute, `want' the Vault object
\* it saves, `dirty' the columns its UPDATE sets and `stale' (history) whether
\* another operation has written the row since this one first read it.
Frame == [at : {"idle", "provision", "insert", "reread", "update", "delete", "refresh", "consume"},
          kind : {"register", "reset", "state_update", "set_pin", "other"}, hw : Hardware \cup {None},
          user : Users \cup {None}, token : Tokens \cup {None},
          want : Row, dirty : SUBSET Columns, stale : BOOLEAN]

Idle == [at |-> "idle", kind |-> "other", hw |-> None, user |-> None, token |-> None,
         want |-> NoRow, dirty |-> {}, stale |-> FALSE]

TypeOK ==
  /\ rows \in [Hardware -> Row]
  /\ issued \in Nat
  /\ tokens \in [Tokens -> Users \cup {None}]
  /\ op \in [Ops -> Frame]
  /\ loop \in Ops \cup {None}
  /\ uses \in [Tokens -> SUBSET (1..issued)]
  /\ kept \subseteq Tokens \X Nat
  /\ redeemed \subseteq (1..issued) \X Users
  /\ opened \subseteq Nat

Init ==
  /\ rows = [h \in Hardware |-> NoRow]
  /\ issued = 0
  /\ tokens = [t \in Tokens |-> None]
  /\ op = [o \in Ops |-> Idle]
  /\ loop = None
  /\ uses = [t \in Tokens |-> {}]
  /\ kept = {}
  /\ redeemed = {}
  /\ opened = {}

Exists(h) == rows[h] # NoRow

Ids == {rows[h].id : h \in Hardware} \ {0}

\* Mutants of the operators below, for testing the properties: a row is looked up
\* by its device, an update saves a missing row anew, a registered device is
\* registered again, the token is kept, reset invents a status.
FoundByHardware(o) == Exists(op[o].hw)

SaveAnew(o) ==
  /\ op[o].at = "update"
  /\ rows' = [rows EXCEPT ![op[o].hw] = op[o].want]
  /\ op' = [op EXCEPT ![o] = Idle]
  /\ loop' = IF loop = o THEN None ELSE loop
  /\ UNCHANGED <<issued, tokens, uses, kept, redeemed, opened>>

RegisterAgain(o) ==
  /\ op[o].at = "provision"
  /\ loop = None
  /\ op' = [op EXCEPT ![o].at = IF Exists(op[o].hw) THEN "reread" ELSE "insert",
                      ![o].want = [id |-> rows[op[o].hw].id, owner |-> op[o].user,
                                   status |-> "LOCKED", pin |-> None]]
  /\ loop' = o
  /\ UNCHANGED <<rows, issued, tokens, uses, kept, redeemed, opened>>

KeepToken(o) ==
  /\ op[o].at = "consume"
  /\ op' = [op EXCEPT ![o] = Idle]
  /\ loop' = IF loop = o THEN None ELSE loop
  /\ UNCHANGED <<rows, issued, tokens, uses, kept, redeemed, opened>>

ResetToUnknownStatus(o, h) ==
  /\ op[o].at = "idle"
  /\ Exists(h)
  /\ op' = [op EXCEPT ![o] = [Idle EXCEPT !.at = "reread", !.hw = h,
                                          !.want = [rows[h] EXCEPT !.status = "RESET"]]]
  /\ UNCHANGED <<rows, issued, tokens, loop, uses, kept, redeemed, opened>>

\* Session.get by primary key: the row an operation addresses still exists.
Found(o) == Exists(op[o].hw) /\ rows[op[o].hw].id = op[o].want.id

\* An operation that has the loop keeps it until it next awaits or ends.
Release(o) == loop' = IF loop = o THEN None ELSE loop

Become(o, frame) == op' = [op EXCEPT ![o] = frame]

Finish(o) == Become(o, Idle) /\ Release(o)

\* o has written h's row and goes on as `frame': the copies others hold are stale.
Written(o, h, frame) ==
  op' = [p \in Ops |-> IF p = o THEN frame ELSE IF op[p].hw = h THEN [op[p] EXCEPT !.stale = TRUE]
                                                                 ELSE op[p]]

-----------------------------------------------------------------------------
\* GenerateProvisioningToken: SET NX EX; a token in use is drawn again.
GenerateToken(u, t) ==
  /\ tokens[t] = None
  /\ tokens' = [tokens EXCEPT ![t] = u]
  /\ uses' = [uses EXCEPT ![t] = {}]
  /\ kept' = {k \in kept : k[1] # t}
  /\ UNCHANGED <<rows, issued, op, loop, redeemed, opened>>

TokenExpires(t) ==
  /\ tokens[t] # None
  /\ tokens' = [tokens EXCEPT ![t] = None]
  /\ UNCHANGED <<rows, issued, op, loop, uses, kept, redeemed, opened>>

\* RegisterDevice.execute: GET the token.
Register(o, t, h) ==
  /\ op[o].at = "idle"
  /\ tokens[t] # None
  /\ Become(o, [Idle EXCEPT !.at = "provision", !.kind = "register", !.hw = h,
                            !.user = tokens[t], !.token = t])
  /\ UNCHANGED <<rows, issued, tokens, loop, uses, kept, redeemed, opened>>

\* ProvisionVault: SELECT by hardware_uuid.  A reset vault is registered anew in
\* place, any other one is refused (409, the token is kept).
Provision(o) ==
  LET f == op[o]
      row == rows[f.hw]
      taken == [id |-> row.id, owner |-> f.user, status |-> "LOCKED", pin |-> None]
  IN
  /\ f.at = "provision"
  /\ loop = None
  /\ \/ /\ ~Exists(f.hw)
        /\ Become(o, [f EXCEPT !.at = "insert"])
        /\ loop' = o
     \/ /\ Exists(f.hw)
        /\ row.status = "PROVISIONING"
        /\ Become(o, [f EXCEPT !.at = "reread", !.want = taken, !.stale = FALSE])
        /\ loop' = o
     \/ /\ Exists(f.hw)
        /\ row.status # "PROVISIONING"
        /\ Finish(o)
  /\ UNCHANGED <<rows, issued, tokens, uses, kept, redeemed, opened>>

\* A registration of vault `id' is committed; its token is not deleted yet.
Redeem(o, id) ==
  /\ redeemed' = redeemed \cup {<<id, op[o].user>>}
  /\ uses' = [uses EXCEPT ![op[o].token] = @ \cup {id}]
  /\ kept' = kept \ {<<op[o].token, id>>}

\* INSERT of a vault with a new id; a second row for the device would violate the
\* unique constraint and is refused like a device that is registered.
Insert(o) ==
  LET f == op[o]
      new == [id |-> issued + 1, owner |-> f.user, status |-> "LOCKED", pin |-> None]
  IN
  /\ f.at = "insert"
  /\ \/ /\ Exists(f.hw)
        /\ Finish(o)
        /\ UNCHANGED <<rows, issued, uses, kept, redeemed>>
     \/ /\ ~Exists(f.hw)
        /\ issued' = issued + 1
        /\ rows' = [rows EXCEPT ![f.hw] = new]
        /\ Written(o, f.hw, [f EXCEPT !.at = "refresh", !.want = new])
        /\ Redeem(o, issued + 1)
        /\ UNCHANGED loop
  /\ UNCHANGED <<tokens, opened>>

\* get_by_id of a use case that runs in a worker thread, which then makes the
\* copy `want' of the row it got.
Start(o, h, next, kind, want) ==
  /\ op[o].at = "idle"
  /\ Exists(h)
  /\ Become(o, [Idle EXCEPT !.at = next, !.kind = kind, !.hw = h, !.want = want])
  /\ UNCHANGED <<rows, issued, tokens, loop, uses, kept, redeemed, opened>>

\* ResetVault, asked for by the row's owner.
Reset(o, h) ==
  Start(o, h, "reread", "reset", [rows[h] EXCEPT !.status = "PROVISIONING", !.pin = None])

\* DeleteVault, asked for by the row's owner or, in the owner's name, by the device.
Delete(o, h) == issued < MaxVaults /\ Start(o, h, "delete", "other", rows[h])

\* SetVaultPIN and RemoveVaultPIN, asked for by whoever passed the access check.
SetPIN(o, h, pin) == Start(o, h, "reread", "set_pin", [rows[h] EXCEPT !.pin = pin])

RemovePIN(o, h) ==
  /\ rows[h].pin # None
  /\ Start(o, h, "reread", "other", [rows[h] EXCEPT !.pin = None])

\* ProcessVaultStateUpdate: its statements run on the event loop, and whatever
\* status the device reports is saved.
StateUpdate(o, h, reported) ==
  /\ op[o].at = "idle"
  /\ loop = None
  /\ Exists(h)
  /\ Become(o, [Idle EXCEPT !.at = "reread", !.kind = "state_update", !.hw = h,
                            !.want = [rows[h] EXCEPT !.status = reported]])
  /\ loop' = o
  /\ UNCHANGED <<rows, issued, tokens, uses, kept, redeemed, opened>>

\* The repository's own SELECT: update assigns every column of the caller's copy,
\* update_pin the PIN alone; a missing row raises.
Reread(o) ==
  LET f == op[o]
      assigned == IF f.kind = "set_pin" THEN {"pin"} ELSE Columns
  IN
  /\ f.at = "reread"
  /\ IF Found(o)
       THEN /\ Become(o, [f EXCEPT !.at = "update",
                                   !.dirty = {c \in assigned : f.want[c] # rows[f.hw][c]}])
            /\ UNCHANGED loop
       ELSE Finish(o)
  /\ UNCHANGED <<rows, issued, tokens, uses, kept, redeemed, opened>>

\* The save of a reset or of a device's report opens the vault to a registration.
Opens(f) ==
  IF f.kind \in {"reset", "state_update"} /\ f.want.status = "PROVISIONING"
    THEN {f.want.id} ELSE {}

\* UPDATE of the dirty columns and COMMIT; a row that has gone fails the request.
Update(o) ==
  LET f == op[o]
      updated == [rows[f.hw] EXCEPT !.owner = IF "owner" \in f.dirty THEN f.want.owner ELSE @,
                                    !.status = IF "status" \in f.dirty THEN f.want.status ELSE @,
                                    !.pin = IF "pin" \in f.dirty THEN f.want.pin ELSE @]
  IN
  /\ f.at = "update"
  /\ IF Found(o)
       THEN /\ rows' = [rows EXCEPT ![f.hw] = updated]
            /\ opened' = opened \cup Opens(f)
            /\ IF f.kind = "register"
                 THEN /\ Written(o, f.hw, [f EXCEPT !.at = "refresh", !.dirty = {}])
                      /\ Redeem(o, f.want.id)
                      /\ UNCHANGED loop
                 ELSE /\ Written(o, f.hw, Idle)
                      /\ Release(o)
                      /\ UNCHANGED <<uses, kept, redeemed>>
       ELSE Finish(o) /\ UNCHANGED <<rows, uses, kept, redeemed, opened>>
  /\ UNCHANGED <<issued, tokens>>

\* delete: SELECT, DELETE and COMMIT; a row that has gone fails the request.
DeleteRow(o) ==
  /\ op[o].at = "delete"
  /\ IF Found(o)
       THEN rows' = [rows EXCEPT ![op[o].hw] = NoRow] /\ Written(o, op[o].hw, Idle)
       ELSE Become(o, Idle) /\ UNCHANGED rows
  /\ UNCHANGED <<issued, tokens, loop, uses, kept, redeemed, opened>>

\* create and update read the row they have committed again: a registration whose
\* row is deleted meanwhile fails and leaves its token.
Refresh(o) ==
  /\ op[o].at = "refresh"
  /\ IF Found(o) THEN Become(o, [op[o] EXCEPT !.at = "consume"]) /\ Release(o)
                 ELSE Finish(o)
  /\ UNCHANGED <<rows, issued, tokens, uses, kept, redeemed, opened>>

\* RegisterDevice deletes the token last, then the device gets its answer.
Consume(o) ==
  /\ op[o].at = "consume"
  /\ tokens' = [tokens EXCEPT ![op[o].token] = None]
  /\ Finish(o)
  /\ UNCHANGED <<rows, issued, uses, kept, redeemed, opened>>

\* Registrations that end without their DEL although their vault is committed.
Broken(S) ==
  {<<op[o].token, op[o].want.id>> : o \in {p \in S : op[p].at \in {"refresh", "consume"}}}

\* The statement or command an operation has come to raises and changes nothing
\* (the transaction is rolled back): the request ends with a 500, the handler of a
\* device's message logs it.
Fault(o) ==
  /\ op[o].at # "idle"
  /\ Finish(o)
  /\ kept' = kept \cup Broken({o})
  /\ UNCHANGED <<rows, issued, tokens, uses, redeemed, opened>>

\* The process dies: what was in progress is gone, committed rows and Redis stay.
Crash ==
  /\ op' = [o \in Ops |-> Idle]
  /\ loop' = None
  /\ kept' = kept \cup Broken(Ops)
  /\ UNCHANGED <<rows, issued, tokens, uses, redeemed, opened>>

Next ==
  \/ \E t \in Tokens : TokenExpires(t) \/ \E u \in Users : GenerateToken(u, t)
  \/ \E o \in Ops, h \in Hardware :
       \/ \E t \in Tokens : Register(o, t, h)
       \/ Reset(o, h)
       \/ Delete(o, h)
       \/ \E pin \in Pins : SetPIN(o, h, pin)
       \/ RemovePIN(o, h)
       \/ \E reported \in Reported : StateUpdate(o, h, reported)
  \/ \E o \in Ops :
       \/ Provision(o)
       \/ Insert(o)
       \/ Reread(o)
       \/ Update(o)
       \/ DeleteRow(o)
       \/ Refresh(o)
       \/ Consume(o)
       \/ Fault(o)
  \/ Crash

Spec == Init /\ [][Next]_vars

-----------------------------------------------------------------------------
\* No write that was on its way when a vault's row was deleted brings the row
\* back: only an INSERT, with an id never used, makes a vault.
DeletedStaysDeleted == [][\A id \in Ids' \ Ids : id > issued]_vars

\* Whatever outdated copies are written back, a vault's owner is a user whose
\* token this very vault, not an earlier one of the device, was registered with.
OwnerRegistered ==
  \A h \in Hardware : Exists(h) => <<rows[h].id, rows[h].owner>> \in redeemed

\* A token that has registered a vault is redeemable no longer than the request
\* that used it takes to delete it: only a registration that broke off between its
\* commit and its DEL (a crash, a failing refresh or DEL) leaves its own token,
\* and only to a vault that is deleted already does it not matter.
UsedTokenGoes ==
  \A t \in Tokens : \A id \in uses[t] \cap Ids :
    tokens[t] = None \/ <<t, id>> \in kept
      \/ \E o \in Ops : op[o].at \in {"refresh", "consume"} /\ op[o].token = t /\ op[o].want.id = id

\* A write whose copy of the row no other operation has outdated gives a vault to
\* another owner only while the vault awaits provisioning, and only if this very
\* vault was opened by its owner's reset or its own device's report.
OwnerChangesAfterOpening ==
  [][\A o \in Ops, h \in Hardware :
       Update(o) /\ op[o].hw = h /\ ~op[o].stale /\ rows'[h].owner # rows[h].owner
         => /\ rows[h].status = "PROVISIONING"
            /\ rows[h].id \in opened]_vars
=============================================================================
